------------------------- MODULE TokenStreamProofs --------------------------
(***************************************************************************)
(* The scanner and its look-ahead buffer, for texts of any length: what    *)
(* ScanForToken skips and counts, that looking ahead never changes what    *)
(* the parser reads, and that plain comments stay hidden.                  *)
(***************************************************************************)
EXTENDS TokenStream, FiniteSetTheorems, SequenceTheorems, WellFoundedInduction, TLAPS

-----------------------------------------------------------------------------
(* Induction and recursion along a measure.  A set takes the place of the  *)
(* predicate, and functions that of the operators of a definition.         *)

\* A set of numbers that is not empty has a least one.
LEMMA LeastNumber ==
    ASSUME NEW T, T \subseteq Nat, T # {}
    PROVE  \E x \in T : \A y \in T : x <= y
<1>1. PICK x \in T : \A y \in T : <<y, x>> \notin OpToRel(<, Nat)
  BY NatLessThanWellFounded, WFMin
<1>2. ASSUME NEW y \in T PROVE x <= y
  <2>1. ~(y < x)
    BY <1>1 DEF OpToRel
  <2> QED BY <2>1
<1> QED BY <1>2

\* Induction: what holds at q if it holds wherever the measure is smaller holds everywhere.
LEMMA MeasureInduction ==
    ASSUME NEW D, NEW m \in [D -> Nat], NEW T,
           \A q \in D : (\A r \in D : m[r] < m[q] => r \in T) => q \in T
    PROVE  D \subseteq T
<1> SUFFICES ASSUME NEW p \in D, p \notin T PROVE FALSE
  OBVIOUS
<1> DEFINE Bad == {m[q] : q \in D \ T}
<1>1. Bad \subseteq Nat /\ Bad # {}
  OBVIOUS
<1>2. PICK x \in Bad : \A y \in Bad : x <= y
  BY <1>1, LeastNumber
<1>3. PICK q \in D \ T : x = m[q]
  BY <1>2
<1>4. \A r \in D : m[r] < m[q] => r \in T
  <2> TAKE r \in D
  <2> SUFFICES ASSUME r \notin T PROVE ~(m[r] < m[q])
    OBVIOUS
  <2>1. m[r] \in Bad /\ m[r] \in Nat /\ m[q] \in Nat
    OBVIOUS
  <2>2. m[q] <= m[r]
    <3> HIDE DEF Bad
    <3> QED BY <2>1, <1>2, <1>3
  <2> QED BY <2>1, <2>2
<1> QED BY <1>3, <1>4

\* S solves a recursive definition on E: it is base where the recursion stops, and
\* elsewhere comb of its value at the next argument.
Solves(S, E, stop, base, nxt, comb) ==
    \A q \in E : S[q] = IF q \in stop THEN base[q] ELSE comb[q][S[nxt[q]]]

\* A definition whose argument becomes smaller at each call has a solution.
LEMMA Recursion ==
    ASSUME NEW D, NEW V, NEW m \in [D -> Nat], NEW stop, NEW base \in [D -> V],
           NEW nxt \in [D -> D], NEW comb \in [D -> [V -> V]],
           \A q \in D \ stop : m[nxt[q]] < m[q]
    PROVE  \E S \in [D -> V] : Solves(S, D, stop, base, nxt, comb)
<1> DEFINE Low(n) == {q \in D : m[q] < n}
           Good(S, n) == S \in [Low(n) -> V] /\ Solves(S, Low(n), stop, base, nxt, comb)
<1>0. \A q \in D \ stop, n \in Nat : q \in Low(n) => nxt[q] \in Low(n)
  <2> SUFFICES ASSUME NEW q \in D \ stop, NEW n \in Nat, q \in Low(n) PROVE nxt[q] \in Low(n)
    OBVIOUS
  <2>1. m[nxt[q]] < m[q] /\ m[q] < n /\ nxt[q] \in D
    OBVIOUS
  <2>2. m[nxt[q]] \in Nat /\ m[q] \in Nat
    OBVIOUS
  <2> QED BY <2>1, <2>2
<1>1. ASSUME NEW n \in Nat, NEW k \in Nat, n <= k, NEW S, Good(S, n), NEW R, Good(R, k), NEW p \in Low(n)
      PROVE  S[p] = R[p]
  <2> DEFINE T == {q \in D : q \in Low(n) => S[q] = R[q]}
  <2>1. \A q \in D : (\A r \in D : m[r] < m[q] => r \in T) => q \in T
    <3> SUFFICES ASSUME NEW q \in Low(n), \A r \in D : m[r] < m[q] => r \in T PROVE S[q] = R[q]
      OBVIOUS
    <3>1. q \in Low(k) /\ q \in D
      BY <1>1
    <3>2. CASE q \in stop
      BY <3>1, <3>2, <1>1 DEF Solves
    <3>3. CASE q \notin stop
      <4>1. nxt[q] \in T /\ nxt[q] \in Low(n)
        BY <3>1, <3>3, <1>0
      <4>2. S[nxt[q]] = R[nxt[q]]
        BY <4>1
      <4>3. S[q] = comb[q][S[nxt[q]]] /\ R[q] = comb[q][R[nxt[q]]]
        BY <3>1, <3>3, <1>1 DEF Solves
      <4> QED BY <4>2, <4>3
    <3> QED BY <3>2, <3>3
  <2>2. D \subseteq T
    <3> HIDE DEF T, Low, Good
    <3> QED BY <2>1, MeasureInduction
  <2> QED BY <2>2, <1>1
<1>2. \A n \in Nat : \E S : Good(S, n)
  <2> DEFINE G == {n \in Nat : \E S : Good(S, n)}
             id == [n \in Nat |-> n]
  <2>1. \A n \in Nat : (\A k \in Nat : id[k] < id[n] => k \in G) => n \in G
    <3> SUFFICES ASSUME NEW n \in Nat, \A k \in Nat : k < n => k \in G PROVE \E S : Good(S, n)
      OBVIOUS
    <3>1. CASE n = 0
      <4> DEFINE S == [q \in Low(n) |-> base[q]]
      <4>1. Low(n) = {}
        BY <3>1
      <4>2. Good(S, n)
        BY <4>1 DEF Solves
      <4> HIDE DEF S, Good
      <4> QED BY <4>2
    <3>2. CASE n # 0
      <4>1. n - 1 \in Nat /\ n - 1 < n
        BY <3>2
      <4>2. PICK S : Good(S, n - 1)
        BY <4>1
      <4> DEFINE R == [q \in Low(n) |-> IF q \in stop THEN base[q] ELSE comb[q][S[nxt[q]]]]
      <4>3. \A q \in D \ stop : q \in Low(n) => nxt[q] \in Low(n - 1) /\ S[nxt[q]] \in V
        <5> SUFFICES ASSUME NEW q \in D \ stop, q \in Low(n) PROVE nxt[q] \in Low(n - 1)
          BY <4>2
        <5>1. m[nxt[q]] < m[q] /\ m[q] < n /\ nxt[q] \in D
          OBVIOUS
        <5>2. m[nxt[q]] \in Nat /\ m[q] \in Nat
          OBVIOUS
        <5> QED BY <5>1, <5>2, <4>1
      <4>4. R \in [Low(n) -> V]
        BY <4>3
      <4>5. \A q \in Low(n - 1) : q \in Low(n) /\ q \in D
        BY <4>1
      <4>6. \A q \in Low(n - 1) : R[q] = S[q]
        BY <4>2, <4>5 DEF Solves
      <4>7. Solves(R, Low(n), stop, base, nxt, comb)
        <5> SUFFICES ASSUME NEW q \in Low(n)
                     PROVE  R[q] = IF q \in stop THEN base[q] ELSE comb[q][R[nxt[q]]]
          BY DEF Solves
        <5>1. q \notin stop => R[nxt[q]] = S[nxt[q]]
          BY <4>3, <4>6
        <5> QED BY <5>1
      <4> HIDE DEF R
      <4> QED BY <4>4, <4>7
    <3> QED BY <3>1, <3>2
  <2>2. Nat \subseteq G
    <3>1. id \in [Nat -> Nat]
      OBVIOUS
    <3> HIDE DEF G, id
    <3> QED BY <2>1, <3>1, MeasureInduction
  <2> QED BY <2>2
<1> DEFINE At(n) == CHOOSE S : Good(S, n)
           F == [q \in D |-> At(m[q] + 1)[q]]
<1>3. \A n \in Nat : Good(At(n), n)
  BY <1>2
<1>4. ASSUME NEW q \in D, NEW r \in D, m[r] <= m[q] PROVE F[r] = At(m[q] + 1)[r] /\ F[r] \in V
  <2>1. m[r] + 1 \in Nat /\ m[q] + 1 \in Nat /\ m[r] + 1 <= m[q] + 1 /\ r \in Low(m[r] + 1)
    BY <1>4
  <2>2. Good(At(m[r] + 1), m[r] + 1) /\ Good(At(m[q] + 1), m[q] + 1)
    BY <2>1, <1>3
  <2> HIDE DEF At, Good, Low
  <2>3. At(m[r] + 1)[r] = At(m[q] + 1)[r]
    BY <2>1, <2>2, <1>1
  <2>4. At(m[r] + 1)[r] \in V
    BY <2>1, <2>2 DEF Good
  <2> QED BY <2>3, <2>4
<1>5. F \in [D -> V]
  <2>1. \A q \in D : F[q] \in V
    <3> TAKE q \in D
    <3>1. m[q] <= m[q]
      OBVIOUS
    <3> HIDE DEF F
    <3> QED BY <3>1, <1>4
  <2> QED BY <2>1
<1>6. Solves(F, D, stop, base, nxt, comb)
  <2> SUFFICES ASSUME NEW q \in D PROVE F[q] = IF q \in stop THEN base[q] ELSE comb[q][F[nxt[q]]]
    BY DEF Solves
  <2>1. m[q] + 1 \in Nat /\ q \in Low(m[q] + 1) /\ m[q] <= m[q]
    OBVIOUS
  <2>2. Good(At(m[q] + 1), m[q] + 1)
    BY <2>1, <1>3
  <2>3. q \notin stop => nxt[q] \in D /\ m[nxt[q]] <= m[q]
    <3>1. q \notin stop => nxt[q] \in D /\ m[nxt[q]] < m[q] /\ m[q] \in Nat /\ m[nxt[q]] \in Nat
      OBVIOUS
    <3> QED BY <3>1
  <2> HIDE DEF F, At, Low
  <2>4. F[q] = At(m[q] + 1)[q]
    BY <2>1, <1>4
  <2>5. q \notin stop => F[nxt[q]] = At(m[q] + 1)[nxt[q]]
    BY <2>3, <1>4
  <2> QED BY <2>1, <2>2, <2>4, <2>5 DEF Solves
<1> HIDE DEF F
<1> QED BY <1>5, <1>6

-----------------------------------------------------------------------------
(* The text and the searches in it.                                        *)

Classes == {"a", "f", "1", "/", "*", "=", ".", ";", "?", "sp", "nl"}

LEMMA TextTyped ==
    ASSUME text \in Texts
    PROVE  /\ End \in Nat /\ End >= 1
           /\ Char(End) = "eof"
           /\ \A p \in 1..End : p < End => Char(p) \in Classes
<1>1. text \in Seq(Classes)
  BY TextsAssumption DEF Classes
<1>2. Len(text) \in Nat /\ \A p \in 1..Len(text) : text[p] \in Classes
  BY <1>1
<1>3. \A p \in 1..End : p < End => p \in 1..Len(text)
  BY <1>2 DEF End
<1> QED BY <1>2, <1>3 DEF End, Char

LEMMA AtEnd ==
    ASSUME text \in Texts, NEW p \in 1..End
    PROVE  /\ Char(p) = "eof" <=> p = End
           /\ Char(p) \in Classes \cup {"eof"}
           /\ Char(p) # "eof" => p + 1 \in 1..End
<1>0. p \in Nat /\ p >= 1 /\ End \in Nat /\ p <= End
  BY TextTyped
<1>1. p = End \/ (p < End /\ p + 1 \in 1..End)
  BY <1>0
<1>2. p < End => Char(p) \in Classes /\ p # End
  BY TextTyped
<1>3. "eof" \notin Classes /\ Char(End) = "eof"
  BY TextTyped DEF Classes
<1> QED BY <1>1, <1>2, <1>3

\* The first of the positions from p on that belong to a set with the text's end in it.
LEMMA FirstPosition ==
    ASSUME text \in Texts, NEW p \in 1..End, NEW T, End \in T
    PROVE  \E q \in p..End : q \in T /\ \A r \in p..(q - 1) : r \notin T
<1> DEFINE U == {q \in p..End : q \in T}
<1>1. U \subseteq Nat /\ End \in U
  BY TextTyped
<1>2. PICK q \in U : \A r \in U : q <= r
  BY <1>1, LeastNumber
<1>3. \A r \in p..(q - 1) : r \notin T
  <2> SUFFICES ASSUME NEW r \in p..(q - 1), r \in T PROVE FALSE
    OBVIOUS
  <2>1. r \in U /\ r < q
    BY TextTyped, <1>1
  <2> QED BY <2>1, <1>1, <1>2
<1> QED BY <1>2, <1>3

\* FirstIn: what the loops of the scanner that wait for a character stop at.
LEMMA FirstInFound ==
    ASSUME text \in Texts, NEW p \in 1..End, NEW C
    PROVE  /\ FirstIn(p, C) \in p..End
           /\ Char(FirstIn(p, C)) \in C \cup {"eof"}
           /\ \A r \in p..(FirstIn(p, C) - 1) : Char(r) \notin C
<1> DEFINE T == {q \in 1..End : Char(q) \in C \cup {"eof"}}
           P(q) == Char(q) \in C \cup {"eof"} /\ \A r \in p..(q - 1) : Char(r) \notin C
<1>1. End \in T
  BY TextTyped
<1>2. PICK q \in p..End : q \in T /\ \A r \in p..(q - 1) : r \notin T
  <2> HIDE DEF T
  <2> QED BY <1>1, FirstPosition
<1>3. \A r \in p..(q - 1) : r \in 1..End
  BY TextTyped
<1>4. P(q)
  BY <1>2, <1>3
<1>5. FirstIn(p, C) = CHOOSE k \in p..End : P(k)
  BY DEF FirstIn
<1> QED BY <1>4, <1>5

\* FirstOut: the same of the loops that wait for any other character.
LEMMA FirstOutFound ==
    ASSUME text \in Texts, NEW p \in 1..End, NEW C, "eof" \notin C
    PROVE  /\ FirstOut(p, C) \in p..End
           /\ Char(FirstOut(p, C)) \notin C
           /\ \A r \in p..(FirstOut(p, C) - 1) : Char(r) \in C
<1> DEFINE T == {q \in 1..End : Char(q) \notin C}
           P(q) == Char(q) \notin C /\ \A r \in p..(q - 1) : Char(r) \in C
<1>1. End \in T
  BY TextTyped
<1>2. PICK q \in p..End : q \in T /\ \A r \in p..(q - 1) : r \notin T
  <2> HIDE DEF T
  <2> QED BY <1>1, FirstPosition
<1>3. \A r \in p..(q - 1) : r \in 1..End
  BY TextTyped
<1>4. P(q)
  BY <1>2, <1>3
<1>5. FirstOut(p, C) = CHOOSE k \in p..End : P(k)
  BY DEF FirstOut
<1> QED BY <1>4, <1>5

-----------------------------------------------------------------------------
(* Counting the lines.                                                     *)

LEMMA LinesTyped ==
    ASSUME text \in Texts, NEW p \in 1..End, NEW q \in 1..End
    PROVE  /\ IsFiniteSet({r \in p..(q - 1) : Char(r) = "nl"})
           /\ NewLines(p, q) \in Nat
<1>1. p \in Int /\ q - 1 \in Int
  BY TextTyped
<1>2. IsFiniteSet(p..(q - 1))
  BY <1>1, FS_Interval
<1>3. IsFiniteSet({r \in p..(q - 1) : Char(r) = "nl"})
  BY <1>2, FS_Subset
<1> QED BY <1>3, FS_CardinalityType DEF NewLines

LEMMA NoLines ==
    ASSUME NEW p, NEW q, \A r \in p..(q - 1) : Char(r) # "nl"
    PROVE  NewLines(p, q) = 0
<1>1. {r \in p..(q - 1) : Char(r) = "nl"} = {}
  OBVIOUS
<1> QED BY <1>1, FS_EmptySet DEF NewLines

LEMMA OneLine ==
    ASSUME NEW p \in Int, Char(p) = "nl"
    PROVE  NewLines(p, p + 1) = 1
<1>1. {r \in p..(p + 1 - 1) : Char(r) = "nl"} = {p}
  OBVIOUS
<1>2. Cardinality({p}) = 1
  BY FS_Singleton
<1> QED BY <1>1, <1>2 DEF NewLines

LEMMA LinesAdd ==
    ASSUME text \in Texts, NEW p \in 1..End, NEW q \in 1..End, NEW r \in 1..End, p <= q, q <= r
    PROVE  NewLines(p, r) = NewLines(p, q) + NewLines(q, r)
<1> DEFINE L(a, b) == {k \in a..(b - 1) : Char(k) = "nl"}
<1>1. L(p, r) = L(p, q) \cup L(q, r) /\ L(p, q) \cap L(q, r) = {}
  BY TextTyped
<1>2. IsFiniteSet(L(p, q)) /\ IsFiniteSet(L(q, r))
  BY LinesTyped
<1>3. Cardinality(L(p, q)) \in Nat /\ Cardinality(L(q, r)) \in Nat
  BY <1>2, FS_CardinalityType
<1>4. Cardinality({}) = 0
  BY FS_EmptySet
<1>5. Cardinality(L(p, r)) = Cardinality(L(p, q)) + Cardinality(L(q, r))
  <2> HIDE DEF L
  <2>1. Cardinality(L(p, q) \cup L(q, r))
            = Cardinality(L(p, q)) + Cardinality(L(q, r)) - Cardinality(L(p, q) \cap L(q, r))
    BY <1>2, FS_Union
  <2> QED BY <2>1, <1>1, <1>3, <1>4
<1> QED BY <1>5 DEF NewLines

\* There is a character for every line end, so that a line number never exceeds the position.
LEMMA LinesBound ==
    ASSUME text \in Texts, NEW p \in 1..End
    PROVE  1 + NewLines(1, p) \in 1..p
<1>1. p \in Nat /\ p - 1 \in Nat
  BY TextTyped
<1>2. IsFiniteSet(1..(p - 1)) /\ Cardinality(1..(p - 1)) = p - 1
  BY <1>1, FS_Interval
<1>3. {r \in 1..(p - 1) : Char(r) = "nl"} \subseteq 1..(p - 1)
  OBVIOUS
<1>4. Cardinality({r \in 1..(p - 1) : Char(r) = "nl"}) <= p - 1
  BY <1>2, <1>3, FS_Subset
<1>5. NewLines(1, p) \in Nat /\ NewLines(1, p) <= p - 1
  BY <1>4, LinesTyped, TextTyped DEF NewLines
<1> QED BY <1>1, <1>5

-----------------------------------------------------------------------------
(* ScanForToken.                                                           *)

\* One round of skipping from p, and what it leaves in front of the scanner.
LEMMA RoundDone ==
    ASSUME text \in Texts, NEW p \in 1..End, NEW r, r = Round(p, FirstOut(p, Blanks))
    PROVE  /\ r = [to |-> r.to, lines |-> r.lines, open |-> r.open]
           /\ r.to \in p..End /\ r.open \in BOOLEAN /\ r.lines = NewLines(p, r.to)
           /\ r.open => r.to = End
           /\ r.to = p => /\ Char(p) \notin Blanks /\ ~r.open
                          /\ ~(Char(p) = "/" /\ Char(p + 1) \in {"*", "/"})
<1> DEFINE b == FirstOut(p, Blanks)
<1>1. /\ b \in p..End /\ b \in 1..End /\ Char(b) \notin Blanks
      /\ \A k \in p..(b - 1) : Char(k) \in Blanks
  BY FirstOutFound, TextTyped DEF Blanks
<1>2. p \in Nat /\ b \in Nat /\ End \in Nat
  BY <1>1, TextTyped
<1> HIDE DEF b
<1>3. CASE Char(b) = "/" /\ Char(b + 1) = "*"
  <2> DEFINE q == CommentClose(b + 2)
             s == FirstIn(b + 2, {"*"})
  <2>1. b + 1 \in 1..End /\ b + 2 \in 1..End
    BY <1>1, <1>3, AtEnd
  <2>2. s \in (b + 2)..End /\ s \in 1..End
    BY <2>1, <1>2, FirstInFound
  <2>3. q \in s..End /\ Char(q) \in {"/", "eof"}
    BY <2>2, FirstInFound DEF CommentClose
  <2> HIDE DEF q, s
  <2>4. q \in 1..End /\ q > p /\ q \in p..End
    BY <2>2, <2>3, <1>1, <1>2
  <2>5. r = [to |-> IF q = End THEN q ELSE q + 1, lines |-> NewLines(p, q), open |-> q = End]
    BY <1>3 DEF Round, b, q
  <2>6. CASE q = End
    BY <2>4, <2>5, <2>6
  <2>7. CASE q # End
    <3>1. Char(q) = "/" /\ q + 1 \in 1..End
      BY <2>3, <2>4, <2>7, AtEnd
    <3>2. NewLines(q, q + 1) = 0
      BY <3>1, <2>4, NoLines
    <3>3. p <= q /\ q <= q + 1 /\ q + 1 \in p..End /\ q + 1 # p
      BY <3>1, <2>4, <1>2
    <3>4. NewLines(p, q + 1) = NewLines(p, q) + NewLines(q, q + 1) /\ NewLines(p, q) \in Nat
      BY <3>1, <3>3, <2>4, LinesAdd, LinesTyped
    <3>5. NewLines(p, q + 1) = NewLines(p, q)
      BY <3>2, <3>4
    <3>6. r = [to |-> q + 1, lines |-> NewLines(p, q + 1), open |-> FALSE]
      BY <2>5, <2>7, <3>5
    <3> QED BY <3>3, <3>6
  <2> QED BY <2>6, <2>7
<1>4. CASE Char(b) = "/" /\ Char(b + 1) = "/"
  <2> DEFINE n == FirstIn(b + 2, {"nl"})
             One == IF n = End THEN 0 ELSE 1
  <2>1. b + 1 \in 1..End /\ b + 2 \in 1..End
    BY <1>1, <1>4, AtEnd
  <2>2. /\ n \in (b + 2)..End /\ n \in 1..End /\ Char(n) \in {"nl", "eof"}
        /\ \A k \in (b + 2)..(n - 1) : Char(k) # "nl"
    BY <2>1, <1>2, FirstInFound
  <2> HIDE DEF n
  <2>3. r = [to |-> n + One, lines |-> NewLines(p, b) + One, open |-> FALSE]
    BY <1>4 DEF Round, b, n
  <2>4. n > p /\ n \in p..End /\ b <= n /\ n \in Nat
    BY <2>2, <1>1, <1>2
  <2>5. \A k \in b..(n - 1) : Char(k) # "nl"
    <3>1. \A k \in b..(n - 1) : k = b \/ k = b + 1 \/ k \in (b + 2)..(n - 1)
      BY <1>2, <2>4
    <3> QED BY <3>1, <1>4, <2>2
  <2>6. NewLines(p, n) = NewLines(p, b)
    <3>1. NewLines(b, n) = 0
      BY <2>5, NoLines
    <3>2. p <= b
      BY <1>1, <1>2
    <3>3. NewLines(p, n) = NewLines(p, b) + NewLines(b, n) /\ NewLines(p, b) \in Nat
      BY <3>2, <2>2, <2>4, <1>1, LinesAdd, LinesTyped
    <3> QED BY <3>1, <3>3
  <2>7. CASE n = End
    <3>1. NewLines(p, b) \in Nat
      BY <1>1, LinesTyped
    <3>2. n + One = n /\ NewLines(p, b) + One = NewLines(p, b)
      BY <2>7, <2>4, <3>1
    <3> QED BY <3>2, <2>3, <2>4, <2>6, <2>7, <1>2
  <2>8. CASE n # End
    <3>1. Char(n) = "nl" /\ n + 1 \in 1..End
      BY <2>2, <2>8, AtEnd
    <3>2. p <= n /\ n <= n + 1 /\ n \in Int /\ n + 1 \in p..End /\ n + 1 # p
      BY <3>1, <2>4, <1>2
    <3>3. NewLines(p, n + 1) = NewLines(p, n) + NewLines(n, n + 1)
      BY <3>1, <3>2, <2>2, LinesAdd
    <3>4. NewLines(n, n + 1) = 1
      BY <3>1, <3>2, OneLine
    <3>5. r = [to |-> n + 1, lines |-> NewLines(p, n + 1), open |-> FALSE]
      BY <3>3, <3>4, <2>3, <2>6, <2>8
    <3> QED BY <3>2, <3>5
  <2> QED BY <2>7, <2>8
<1>5. CASE ~(Char(b) = "/" /\ Char(b + 1) \in {"*", "/"})
  <2>1. r = [to |-> b, lines |-> NewLines(p, b), open |-> FALSE]
    BY <1>5 DEF Round, b
  <2> QED BY <2>1, <1>1, <1>2, <1>5
<1> QED BY <1>3, <1>4, <1>5

Skips == [to : 1..End, lines : Nat, open : BOOLEAN]

\* Skip is what its definition says, at every position.
LEMMA SkipUnfolded ==
    ASSUME text \in Texts
    PROVE  \A q \in 1..End : Skip[q] = Onwards(q, Round(q, FirstOut(q, Blanks)), Skip)
<1> DEFINE D == 1..End
           m == [q \in D |-> End - q]
           base == [q \in D |-> Round(q, FirstOut(q, Blanks))]
           stop == {q \in D : base[q].to = q \/ base[q].open}
           nxt == [q \in D |-> base[q].to]
           comb == [q \in D |-> [v \in Skips |-> [v EXCEPT !.lines = @ + base[q].lines]]]
<1>1. \A q \in D : /\ base[q] = [to |-> base[q].to, lines |-> base[q].lines, open |-> base[q].open]
                   /\ base[q].to \in q..End /\ base[q].open \in BOOLEAN
                   /\ base[q].lines \in Nat
  <2> SUFFICES ASSUME NEW q \in D, NEW r, r = Round(q, FirstOut(q, Blanks))
               PROVE  /\ r = [to |-> r.to, lines |-> r.lines, open |-> r.open]
                      /\ r.to \in q..End /\ r.open \in BOOLEAN /\ r.lines \in Nat
    OBVIOUS
  <2>1. /\ r = [to |-> r.to, lines |-> r.lines, open |-> r.open]
        /\ r.to \in q..End /\ r.open \in BOOLEAN /\ r.lines = NewLines(q, r.to)
    BY RoundDone
  <2>2. r.to \in 1..End
    BY <2>1, TextTyped
  <2> QED BY <2>1, <2>2, LinesTyped
<1> HIDE DEF base
<1>2. m \in [D -> Nat]
  BY TextTyped
<1>3. \A q \in D : base[q].to \in D
  <2> TAKE q \in D
  <2>1. base[q].to \in q..End
    BY <1>1
  <2> QED BY <2>1, TextTyped
<1>4. nxt \in [D -> D]
  BY <1>3
<1>5. base \in [D -> Skips] /\ comb \in [D -> [Skips -> Skips]]
  <2>1. ASSUME NEW q \in D PROVE base[q] \in Skips
    <3>1. PICK r : r = base[q]
      OBVIOUS
    <3>2. /\ r = [to |-> r.to, lines |-> r.lines, open |-> r.open]
          /\ r.to \in D /\ r.lines \in Nat /\ r.open \in BOOLEAN
      BY <1>1, <1>3, <3>1
    <3> QED BY <3>1, <3>2 DEF Skips
  <2>2. ASSUME NEW q \in D, NEW v \in Skips PROVE [v EXCEPT !.lines = @ + base[q].lines] \in Skips
    <3>1. PICK n \in Nat : n = base[q].lines
      BY <1>1
    <3>2. [v EXCEPT !.lines = @ + n] \in Skips
      BY DEF Skips
    <3> QED BY <3>1, <3>2
  <2>3. base \in [D -> Skips]
    BY <2>1 DEF base
  <2> QED BY <2>2, <2>3
<1>6. \A q \in D \ stop : m[nxt[q]] < m[q]
  <2> SUFFICES ASSUME NEW q \in D \ stop PROVE m[nxt[q]] < m[q]
    OBVIOUS
  <2>1. base[q].to \in q..End /\ base[q].to # q /\ base[q].to \in D
    BY <1>1, <1>3, <1>4
  <2> QED BY <2>1, TextTyped
<1>7. PICK S \in [D -> Skips] : Solves(S, D, stop, base, nxt, comb)
  <2> HIDE DEF D, m, stop, nxt, comb
  <2> QED BY <1>2, <1>4, <1>5, <1>6, Recursion
<1>8. \A q \in D : S[q] = Onwards(q, Round(q, FirstOut(q, Blanks)), S)
  <2> SUFFICES ASSUME NEW q \in D PROVE S[q] = Onwards(q, base[q], S)
    BY DEF base
  <2>1. S[q] = IF q \in stop THEN base[q] ELSE comb[q][S[nxt[q]]]
    BY <1>7 DEF Solves
  <2>2. nxt[q] = base[q].to /\ S[nxt[q]] \in Skips
    BY <1>4, <1>7
  <2>3. comb[q][S[nxt[q]]] = [S[base[q].to] EXCEPT !.lines = @ + base[q].lines]
    BY <2>2
  <2> QED BY <2>1, <2>3 DEF Onwards
<1>9. S = [q \in D |-> Onwards(q, Round(q, FirstOut(q, Blanks)), S)]
  <2> HIDE DEF D, base, stop, nxt, comb
  <2> QED BY <1>7, <1>8
<1>10. Skip = CHOOSE F : F = [q \in D |-> Onwards(q, Round(q, FirstOut(q, Blanks)), F)]
  BY DEF Skip
<1>11. Skip = [q \in D |-> Onwards(q, Round(q, FirstOut(q, Blanks)), Skip)]
  <2> HIDE DEF D, base, stop, nxt, comb
  <2> QED BY <1>9, <1>10
<1> QED BY <1>11

\* Behind what Skip skips there is the text's end or a token's first character.
LEMMA SkipDone ==
    ASSUME text \in Texts, NEW p \in 1..End
    PROVE  /\ Skip[p] = [to |-> Skip[p].to, lines |-> Skip[p].lines, open |-> Skip[p].open]
           /\ Skip[p].to \in p..End /\ Skip[p].open \in BOOLEAN
           /\ Skip[p].lines = NewLines(p, Skip[p].to)
           /\ Skip[p].open => Skip[p].to = End
           /\ ~Skip[p].open => /\ Char(Skip[p].to) \notin Blanks
                               /\ ~(Char(Skip[p].to) = "/" /\ Char(Skip[p].to + 1) \in {"*", "/"})
<1> DEFINE Good(q, s) == /\ s = [to |-> s.to, lines |-> s.lines, open |-> s.open]
                         /\ s.to \in q..End /\ s.open \in BOOLEAN
                         /\ s.lines = NewLines(q, s.to)
                         /\ s.open => s.to = End
                         /\ ~s.open => /\ Char(s.to) \notin Blanks
                                       /\ ~(Char(s.to) = "/" /\ Char(s.to + 1) \in {"*", "/"})
           D == 1..End
           m == [q \in D |-> End - q]
           T == {q \in D : Good(q, Skip[q])}
<1>1. m \in [D -> Nat]
  BY TextTyped
<1>2. \A q \in D : (\A r \in D : m[r] < m[q] => r \in T) => q \in T
  <2> SUFFICES ASSUME NEW q \in D, \A r \in D : m[r] < m[q] => r \in T PROVE Good(q, Skip[q])
    OBVIOUS
  <2>1. PICK r : r = Round(q, FirstOut(q, Blanks))
    OBVIOUS
  <2>2. Skip[q] = Onwards(q, r, Skip)
    BY <2>1, SkipUnfolded
  <2>3. /\ r = [to |-> r.to, lines |-> r.lines, open |-> r.open]
        /\ r.to \in q..End /\ r.open \in BOOLEAN /\ r.lines = NewLines(q, r.to)
        /\ r.open => r.to = End
        /\ r.to = q => /\ Char(q) \notin Blanks /\ ~r.open
                       /\ ~(Char(q) = "/" /\ Char(q + 1) \in {"*", "/"})
    BY <2>1, RoundDone
  <2>4. CASE r.to = q \/ r.open
    BY <2>2, <2>3, <2>4 DEF Onwards
  <2>5. CASE ~(r.to = q \/ r.open)
    <3>1. r.to \in D /\ q < r.to
      BY <2>3, <2>5, TextTyped
    <3>2. m[r.to] < m[q]
      BY <3>1, TextTyped
    <3>3. r.to \in T
      BY <3>1, <3>2
    <3>4. PICK s : s = Skip[r.to]
      OBVIOUS
    <3>5. Good(r.to, s)
      BY <3>3, <3>4
    <3>6. s.to \in q..End /\ s.to \in D /\ q <= r.to /\ r.to <= s.to
      BY <3>1, <3>5, TextTyped
    <3>7. NewLines(q, s.to) = NewLines(q, r.to) + NewLines(r.to, s.to)
      BY <3>1, <3>6, LinesAdd
    <3>10. NewLines(q, r.to) \in Nat /\ NewLines(r.to, s.to) \in Nat
      BY <3>1, <3>6, LinesTyped
    <3>8. Skip[q] = [s EXCEPT !.lines = @ + r.lines]
      BY <2>2, <2>5, <3>4 DEF Onwards
    <3>9. Skip[q] = [to |-> s.to, lines |-> s.lines + r.lines, open |-> s.open]
      BY <3>5, <3>8
    <3>11. s.lines = NewLines(r.to, s.to) /\ r.lines = NewLines(q, r.to)
      BY <3>5, <2>3
    <3>12. s.lines + r.lines = NewLines(q, s.to)
      BY <3>7, <3>10, <3>11
    <3> QED BY <3>5, <3>6, <3>9, <3>12
  <2> QED BY <2>4, <2>5
<1>3. D \subseteq T
  <2> HIDE DEF D, m, T
  <2> QED BY <1>1, <1>2, MeasureInduction
<1> QED BY <1>3

LEMMA WordDone ==
    ASSUME text \in Texts, NEW p \in 1..End, Char(p) \in Name
    PROVE  WordEnd(p) \in (p + 1)..End /\ \A k \in p..(WordEnd(p) - 1) : Char(k) \in Name
<1>1. /\ WordEnd(p) \in p..End /\ Char(WordEnd(p)) \notin Name
      /\ \A k \in p..(WordEnd(p) - 1) : Char(k) \in Name
  BY FirstOutFound DEF WordEnd, Name
<1>2. WordEnd(p) # p
  BY <1>1
<1> QED BY <1>1, <1>2, TextTyped

\* A token is not empty and holds no blanks, and a "/" in it is all of it.
LEMMA TokenDone ==
    ASSUME text \in Texts, NEW p \in 1..End, p # End, Char(p) \notin Blanks
    PROVE  /\ TokenEnd(p) \in (p + 1)..End
           /\ \A k \in p..(TokenEnd(p) - 1) : Char(k) \notin Blanks /\ (k # p => Char(k) # "/")
<1>0. p \in Nat /\ End \in Nat /\ p + 1 \in 1..End /\ Char(p) # "eof"
  BY TextTyped, AtEnd
<1>1. CASE Char(p) = "=" /\ Char(p + 1) = "="
  <2>1. p + 2 \in 1..End /\ TokenEnd(p) = p + 2
    BY <1>0, <1>1, AtEnd DEF TokenEnd
  <2>2. \A k \in p..(p + 2 - 1) : k = p \/ k = p + 1
    BY <1>0
  <2> QED BY <2>1, <2>2, <1>0, <1>1 DEF Blanks
<1>2. CASE ~(Char(p) = "=" /\ Char(p + 1) = "=") /\ Char(p) \notin Name
  <2>1. TokenEnd(p) = p + 1
    BY <1>2 DEF TokenEnd
  <2>2. \A k \in p..(p + 1 - 1) : k = p
    BY <1>0
  <2> QED BY <2>1, <2>2, <1>0
<1>3. CASE Char(p) \in Name
  <2> DEFINE w == WordEnd(p)
             d == FirstOut(w + 1, {"1"})
             e == FractionEnd(w + 1)
  <2>1. w \in (p + 1)..End /\ \A k \in p..(w - 1) : Char(k) \in Name
    BY <1>3, WordDone
  <2> HIDE DEF w
  <2>2. w \in 1..End /\ w \in Nat /\ p < w
    BY <2>1, <1>0
  <2>3. TokenEnd(p) = IF Char(p) = "1" /\ Char(w) = "." THEN e ELSE w
    BY <1>3 DEF TokenEnd, w, e, Name
  <2>4. CASE Char(p) = "1" /\ Char(w) = "."
    <3>1. w + 1 \in 1..End
      BY <2>2, <2>4, AtEnd
    <3>2. e \in (w + 1)..End /\ \A k \in (w + 1)..(e - 1) : Char(k) \in {"1", "f"}
      <4>1. d \in (w + 1)..End /\ \A k \in (w + 1)..(d - 1) : Char(k) = "1"
        BY <3>1, FirstOutFound
      <4>2. e = IF Char(d) = "f" THEN d + 1 ELSE d
        BY DEF FractionEnd
      <4> HIDE DEF d, e
      <4>3. d \in 1..End /\ d \in Nat
        BY <4>1, <2>2, <1>0
      <4>4. CASE Char(d) = "f"
        <5>1. d + 1 \in 1..End
          BY <4>3, <4>4, AtEnd
        <5>2. \A k \in (w + 1)..(d + 1 - 1) : k \in (w + 1)..(d - 1) \/ k = d
          BY <4>3, <2>2
        <5>3. d + 1 \in (w + 1)..End
          BY <5>1, <4>1, <4>3, <2>2, <1>0
        <5> QED BY <5>2, <5>3, <4>1, <4>2, <4>4
      <4>5. CASE Char(d) # "f"
        BY <4>1, <4>2, <4>5
      <4> QED BY <4>4, <4>5
    <3> HIDE DEF d, e
    <3>3. \A k \in p..(e - 1) : k \in p..(w - 1) \/ k = w \/ k \in (w + 1)..(e - 1)
      BY <3>2, <2>2, <1>0
    <3>4. \A k \in p..(e - 1) : Char(k) \in Name \cup {"."}
      BY <3>2, <3>3, <2>1, <2>4 DEF Name
    <3>5. e \in (p + 1)..End
      BY <3>2, <2>2, <1>0
    <3> QED BY <2>3, <2>4, <3>4, <3>5 DEF Name, Blanks
  <2> HIDE DEF e
  <2>5. CASE ~(Char(p) = "1" /\ Char(w) = ".")
    BY <2>1, <2>3, <2>5 DEF Name, Blanks
  <2> QED BY <2>4, <2>5
<1> QED BY <1>1, <1>2, <1>3

\* What one call of ScanForToken does, whatever it finds.
Scanned(p, line, t) ==
    /\ t.ptr \in p..End /\ t.valid \in BOOLEAN /\ t.message \in BOOLEAN
    /\ t.loc = line + NewLines(p, t.ptr)
    /\ t.valid => /\ ~t.message /\ t.ptr > p
                  /\ t.token = [from |-> t.token.from, to |-> t.ptr, loc |-> line + NewLines(p, t.token.from)]
                  /\ t.token.from \in p..End
    /\ ~t.valid => t.message \/ t.ptr = End
    /\ t.ptr # End => t.ptr > p

LEMMA ScanDone ==
    ASSUME text \in Texts, NEW p \in 1..End, NEW line \in Nat
    PROVE  Scanned(p, line, Scan(p, line))
<1> DEFINE s == Skip[p]
           t == Scan(p, line)
<1>1. /\ s.to \in p..End /\ s.open \in BOOLEAN /\ s.lines = NewLines(p, s.to)
      /\ s.open => s.to = End
      /\ ~s.open => Char(s.to) \notin Blanks
  BY SkipDone
<1>2. p \in Nat /\ End \in Nat /\ s.to \in 1..End /\ p <= s.to
  BY <1>1, TextTyped
<1>3. t = ScanBehind(s, line)
  BY DEF Scan
<1> HIDE DEF s, t
<1>4. CASE s.open \/ s.to = End
  <2>1. t = [ptr |-> s.to, loc |-> line + s.lines, valid |-> FALSE, message |-> s.open, token |-> <<>>]
    BY <1>3, <1>4 DEF ScanBehind
  <2>2. s.to = End
    BY <1>1, <1>4
  <2> QED BY <2>1, <2>2, <1>1, <1>2 DEF Scanned, t
<1>5. CASE ~(s.open \/ s.to = End) /\ Misnamed(s.to)
  <2>1. t = [ptr |-> WordEnd(s.to), loc |-> line + s.lines, valid |-> FALSE, message |-> TRUE, token |-> <<>>]
    BY <1>3, <1>5 DEF ScanBehind
  <2>2. /\ WordEnd(s.to) \in (s.to + 1)..End
        /\ \A k \in s.to..(WordEnd(s.to) - 1) : Char(k) # "nl"
    BY <1>2, <1>5, WordDone DEF Misnamed, Name
  <2>3. WordEnd(s.to) \in p..End /\ WordEnd(s.to) > p /\ WordEnd(s.to) \in 1..End /\ s.to <= WordEnd(s.to)
    BY <2>2, <1>2
  <2>4. NewLines(p, WordEnd(s.to)) = s.lines
    <3>1. NewLines(s.to, WordEnd(s.to)) = 0
      BY <2>2, NoLines
    <3>2. NewLines(p, WordEnd(s.to)) = NewLines(p, s.to) + NewLines(s.to, WordEnd(s.to))
      BY <2>3, <1>2, LinesAdd
    <3>3. NewLines(p, s.to) \in Nat
      BY <1>2, LinesTyped
    <3> QED BY <3>1, <3>2, <3>3, <1>1
  <2> QED BY <2>1, <2>3, <2>4 DEF Scanned, t
<1>6. CASE ~(s.open \/ s.to = End) /\ ~Misnamed(s.to)
  <2> DEFINE e == TokenEnd(s.to)
  <2>1. t = [ptr |-> e, loc |-> line + s.lines, valid |-> TRUE, message |-> FALSE,
             token |-> [from |-> s.to, to |-> e, loc |-> line + s.lines]]
    BY <1>1, <1>3, <1>6 DEF ScanBehind
  <2>2. e \in (s.to + 1)..End /\ \A k \in s.to..(e - 1) : Char(k) # "nl"
    BY <1>1, <1>2, <1>6, TokenDone DEF Blanks
  <2> HIDE DEF e
  <2>3. e \in p..End /\ e > p /\ e \in 1..End /\ s.to <= e
    BY <2>2, <1>2
  <2>4. NewLines(p, e) = s.lines
    <3>1. NewLines(s.to, e) = 0
      BY <2>2, NoLines
    <3>2. NewLines(p, e) = NewLines(p, s.to) + NewLines(s.to, e)
      BY <2>3, <1>2, LinesAdd
    <3>3. NewLines(p, s.to) \in Nat
      BY <1>2, LinesTyped
    <3> QED BY <3>1, <3>2, <3>3, <1>1
  <2> QED BY <2>1, <2>3, <2>4, <1>1 DEF Scanned, t
<1> QED BY <1>4, <1>5, <1>6

-----------------------------------------------------------------------------
(* The tokens of the rest of the text.                                     *)

LEMMA ScanFromStart ==
    ASSUME text \in Texts, NEW p \in 1..End, NEW t, t = Scan(p, 1 + NewLines(1, p))
    PROVE  /\ t.ptr \in p..End /\ t.ptr \in 1..End /\ t.valid \in BOOLEAN /\ t.message \in BOOLEAN
           /\ t.loc = 1 + NewLines(1, t.ptr) /\ t.loc \in Nat
           /\ t.valid => /\ ~t.message /\ t.token \in Tokens /\ t.ptr > p
                         /\ t.token.loc = 1 + NewLines(1, t.token.from)
           /\ ~t.valid => t.message \/ t.ptr = End
           /\ t.ptr # End => t.ptr > p
<1> DEFINE line == 1 + NewLines(1, p)
<1>1. 1 \in 1..End /\ p \in Nat /\ End \in Nat /\ 1 <= p /\ line \in Nat
  <2>1. 1 \in 1..End /\ p \in Nat /\ End \in Nat /\ 1 <= p
    BY TextTyped
  <2>2. NewLines(1, p) \in Nat
    BY <2>1, LinesTyped
  <2> QED BY <2>1, <2>2
<1>2. Scanned(p, line, t)
  BY <1>1, ScanDone
<1>3. ASSUME NEW q \in p..End PROVE line + NewLines(p, q) = 1 + NewLines(1, q) /\ 1 + NewLines(1, q) \in Nat
  <2>1. q \in 1..End /\ p <= q
    BY <1>1
  <2>2. NewLines(1, q) = NewLines(1, p) + NewLines(p, q)
    BY <2>1, <1>1, LinesAdd
  <2>3. NewLines(1, p) \in Nat /\ NewLines(p, q) \in Nat
    BY <2>1, <1>1, LinesTyped
  <2> QED BY <2>2, <2>3
<1>4. t.ptr \in p..End /\ t.loc = line + NewLines(p, t.ptr)
  BY <1>2 DEF Scanned
<1>5. t.ptr \in 1..End /\ t.loc = 1 + NewLines(1, t.ptr) /\ t.loc \in Nat
  BY <1>1, <1>3, <1>4
<1>6. ASSUME t.valid PROVE /\ ~t.message /\ t.token \in Tokens /\ t.ptr > p
                           /\ t.token.loc = 1 + NewLines(1, t.token.from)
  <2>1. /\ ~t.message /\ t.ptr > p /\ t.token.from \in p..End
        /\ t.token = [from |-> t.token.from, to |-> t.ptr, loc |-> line + NewLines(p, t.token.from)]
    BY <1>2, <1>6 DEF Scanned
  <2>2. PICK a \in p..End : a = t.token.from
    BY <2>1
  <2>3. /\ t.token = [from |-> a, to |-> t.ptr, loc |-> 1 + NewLines(1, a)]
        /\ 1 + NewLines(1, a) \in Nat
    BY <2>1, <2>2, <1>3
  <2>4. a \in 1..End /\ t.ptr \in 2..End
    BY <2>1, <1>1, <1>5
  <2>5. t.token \in Tokens
    BY <2>3, <2>4 DEF Tokens
  <2> QED BY <2>1, <2>3, <2>5
<1> HIDE DEF line
<1> QED BY <1>2, <1>4, <1>5, <1>6 DEF Scanned

\* TokensFrom is what its definition says, at every position.
LEMMA TokensUnfolded ==
    ASSUME text \in Texts
    PROVE  \A p \in 1..End : TokensFrom[p] = Behind(Scan(p, 1 + NewLines(1, p)), TokensFrom)
<1> DEFINE D == 1..End
           m == [p \in D |-> End - p]
           t == [p \in D |-> Scan(p, 1 + NewLines(1, p))]
           stop == {p \in D : ~t[p].valid /\ t[p].ptr = End}
           base == [p \in D |-> <<>>]
           nxt == [p \in D |-> t[p].ptr]
           comb == [p \in D |-> [v \in Seq(Tokens) |-> IF t[p].valid THEN <<t[p].token>> \o v ELSE v]]
<1>1. \A p \in D : /\ t[p].ptr \in 1..End /\ t[p].valid \in BOOLEAN
                   /\ t[p].valid => t[p].token \in Tokens /\ t[p].ptr > p
                   /\ t[p].ptr # End => t[p].ptr > p
  BY ScanFromStart
<1> HIDE DEF t
<1>2. m \in [D -> Nat]
  BY TextTyped
<1>3. nxt \in [D -> D]
  BY <1>1
<1>4. base \in [D -> Seq(Tokens)]
  OBVIOUS
<1>5. comb \in [D -> [Seq(Tokens) -> Seq(Tokens)]]
  <2>1. ASSUME NEW p \in D, NEW v \in Seq(Tokens)
        PROVE  (IF t[p].valid THEN <<t[p].token>> \o v ELSE v) \in Seq(Tokens)
    <3>1. CASE t[p].valid
      <4>1. PICK x \in Tokens : x = t[p].token
        BY <1>1, <3>1
      <4>2. <<x>> \o v \in Seq(Tokens)
        OBVIOUS
      <4> QED BY <4>1, <4>2, <3>1
    <3> QED BY <3>1
  <2> QED BY <2>1
<1>6. \A p \in D \ stop : m[nxt[p]] < m[p]
  <2> SUFFICES ASSUME NEW p \in D \ stop PROVE m[nxt[p]] < m[p]
    OBVIOUS
  <2>1. t[p].ptr > p /\ t[p].ptr \in D
    BY <1>1
  <2> QED BY <2>1, TextTyped
<1>7. PICK S \in [D -> Seq(Tokens)] : Solves(S, D, stop, base, nxt, comb)
  <2> HIDE DEF D, m, stop, base, nxt, comb
  <2> QED BY <1>2, <1>3, <1>4, <1>5, <1>6, Recursion
<1>8. \A p \in D : S[p] = Behind(Scan(p, 1 + NewLines(1, p)), S)
  <2> SUFFICES ASSUME NEW p \in D PROVE S[p] = Behind(t[p], S)
    BY DEF t
  <2>1. S[p] = IF p \in stop THEN base[p] ELSE comb[p][S[nxt[p]]]
    BY <1>7 DEF Solves
  <2>2. nxt[p] = t[p].ptr /\ S[nxt[p]] \in Seq(Tokens)
    BY <1>3, <1>7
  <2>3. comb[p][S[nxt[p]]] = IF t[p].valid THEN <<t[p].token>> \o S[t[p].ptr] ELSE S[t[p].ptr]
    BY <2>2
  <2> QED BY <2>1, <2>3 DEF Behind
<1>9. S = [p \in D |-> Behind(Scan(p, 1 + NewLines(1, p)), S)]
  <2> HIDE DEF D, stop, base, nxt, comb
  <2> QED BY <1>7, <1>8
<1>10. TokensFrom = CHOOSE F : F = [p \in D |-> Behind(Scan(p, 1 + NewLines(1, p)), F)]
  BY DEF TokensFrom
<1>11. TokensFrom = [p \in D |-> Behind(Scan(p, 1 + NewLines(1, p)), TokensFrom)]
  <2> HIDE DEF D, stop, base, nxt, comb
  <2> QED BY <1>9, <1>10
<1> QED BY <1>11

LEMMA TokensTyped ==
    ASSUME text \in Texts
    PROVE  /\ \A p \in 1..End : TokensFrom[p] \in Seq(Tokens)
           /\ TokensFrom[End] = <<>>
<1> DEFINE D == 1..End
           m == [p \in D |-> End - p]
           T == {p \in D : TokensFrom[p] \in Seq(Tokens)}
<1>1. m \in [D -> Nat]
  BY TextTyped
<1>2. \A p \in D : (\A r \in D : m[r] < m[p] => r \in T) => p \in T
  <2> SUFFICES ASSUME NEW p \in D, \A r \in D : m[r] < m[p] => r \in T PROVE TokensFrom[p] \in Seq(Tokens)
    OBVIOUS
  <2>1. PICK t : t = Scan(p, 1 + NewLines(1, p))
    OBVIOUS
  <2>2. TokensFrom[p] = Behind(t, TokensFrom)
    BY <2>1, TokensUnfolded
  <2>3. /\ t.ptr \in 1..End /\ t.valid \in BOOLEAN
        /\ t.valid => t.token \in Tokens /\ t.ptr > p
        /\ t.ptr # End => t.ptr > p
    BY <2>1, ScanFromStart
  <2>4. t.ptr > p => TokensFrom[t.ptr] \in Seq(Tokens)
    <3> SUFFICES ASSUME t.ptr > p PROVE t.ptr \in T
      OBVIOUS
    <3>1. m[t.ptr] < m[p]
      BY <2>3, TextTyped
    <3> QED BY <2>3, <3>1
  <2>5. CASE t.valid
    <3>1. PICK x \in Tokens : x = t.token
      BY <2>3, <2>5
    <3>2. PICK v \in Seq(Tokens) : v = TokensFrom[t.ptr]
      BY <2>3, <2>4, <2>5
    <3>3. TokensFrom[p] = <<x>> \o v
      BY <2>2, <2>5, <3>1, <3>2 DEF Behind
    <3> QED BY <3>3
  <2>6. CASE ~t.valid
    BY <2>2, <2>3, <2>4, <2>6 DEF Behind
  <2> QED BY <2>3, <2>5, <2>6
<1>3. D \subseteq T
  <2> HIDE DEF D, m, T
  <2> QED BY <1>1, <1>2, MeasureInduction
<1>4. TokensFrom[End] = <<>>
  <2>1. PICK t : t = Scan(End, 1 + NewLines(1, End))
    OBVIOUS
  <2>2. End \in 1..End
    BY TextTyped
  <2>3. t.ptr \in End..End /\ (t.valid => t.ptr > End)
    BY <2>1, <2>2, ScanFromStart
  <2>4. t.ptr = End /\ ~t.valid
    BY <2>2, <2>3, TextTyped
  <2> QED BY <2>1, <2>2, <2>4, TokensUnfolded DEF Behind
<1> QED BY <1>3, <1>4

-----------------------------------------------------------------------------
(* PeekNextToken: filling the buffer.                                      *)

FillStates == [ptr : 1..End, loc : Nat, buffered : Seq(Tokens), errors : Nat, more : BOOLEAN]

Typed == text \in Texts /\ ptr \in 1..End /\ loc \in Nat /\ buffered \in Seq(Tokens) /\ errors \in Nat

LEMMA OneMoreTyped ==
    ASSUME text \in Texts, NEW f \in FillStates
    PROVE  OneMore(f) \in FillStates
<1>1. f.ptr \in 1..End /\ f.loc \in Nat /\ f.buffered \in Seq(Tokens) /\ f.errors \in Nat
  BY DEF FillStates
<1>2. PICK t : t = Scan(f.ptr, f.loc)
  OBVIOUS
<1>3. Scanned(f.ptr, f.loc, t)
  BY <1>1, <1>2, ScanDone
<1>4. t.ptr \in 1..End /\ t.valid \in BOOLEAN /\ t.loc \in Nat
  <2>1. t.ptr \in f.ptr..End /\ t.valid \in BOOLEAN /\ t.loc = f.loc + NewLines(f.ptr, t.ptr)
    BY <1>3 DEF Scanned
  <2>2. t.ptr \in 1..End
    BY <2>1, <1>1, TextTyped
  <2>3. NewLines(f.ptr, t.ptr) \in Nat
    BY <2>2, <1>1, LinesTyped
  <2> QED BY <2>1, <2>2, <2>3, <1>1
<1>5. ASSUME t.valid PROVE t.token \in Tokens
  <2>1. /\ t.token = [from |-> t.token.from, to |-> t.ptr, loc |-> f.loc + NewLines(f.ptr, t.token.from)]
        /\ t.token.from \in f.ptr..End /\ t.ptr > f.ptr
    BY <1>3, <1>5 DEF Scanned
  <2>2. PICK a : a = t.token.from
    OBVIOUS
  <2>3. a \in 1..End /\ t.ptr \in 2..End
    BY <2>1, <2>2, <1>1, <1>4, TextTyped
  <2>4. NewLines(f.ptr, a) \in Nat
    BY <2>3, <1>1, LinesTyped
  <2>5. f.loc + NewLines(f.ptr, a) \in Nat
    BY <2>4, <1>1
  <2>6. t.token = [from |-> a, to |-> t.ptr, loc |-> f.loc + NewLines(f.ptr, a)]
    BY <2>1, <2>2
  <2> QED BY <2>3, <2>5, <2>6 DEF Tokens
<1>6. (IF t.valid THEN Append(f.buffered, t.token) ELSE f.buffered) \in Seq(Tokens)
  BY <1>1, <1>5
<1>7. (IF t.message THEN f.errors + 1 ELSE f.errors) \in Nat
  BY <1>1
<1>8. Buffered(f, t) \in FillStates
  BY <1>4, <1>6, <1>7 DEF Buffered, FillStates
<1> QED BY <1>2, <1>8 DEF OneMore

LEMMA ScansUnfolded ==
    ASSUME Typed
    PROVE  /\ AfterScans[0] = Current
           /\ \A k \in Nat : k # 0 => AfterScans[k] = OneMore(AfterScans[k - 1])
<1> DEFINE m == [k \in Nat |-> k]
           base == [k \in Nat |-> Current]
           nxt == [k \in Nat |-> IF k = 0 THEN k ELSE k - 1]
           comb == [k \in Nat |-> [f \in FillStates |-> OneMore(f)]]
<1>1. m \in [Nat -> Nat] /\ nxt \in [Nat -> Nat] /\ \A k \in Nat \ {0} : m[nxt[k]] < m[k]
  OBVIOUS
<1>2. base \in [Nat -> FillStates]
  BY DEF Typed, Current, FillStates
<1>3. comb \in [Nat -> [FillStates -> FillStates]]
  BY OneMoreTyped DEF Typed
<1>4. PICK S \in [Nat -> FillStates] : Solves(S, Nat, {0}, base, nxt, comb)
  <2> HIDE DEF m, base, nxt, comb
  <2> QED BY <1>1, <1>2, <1>3, Recursion
<1>5. \A k \in Nat : S[k] = IF k = 0 THEN Current ELSE OneMore(S[k - 1])
  <2> SUFFICES ASSUME NEW k \in Nat PROVE S[k] = IF k = 0 THEN Current ELSE OneMore(S[k - 1])
    OBVIOUS
  <2>1. S[k] = IF k \in {0} THEN base[k] ELSE comb[k][S[nxt[k]]]
    BY <1>4 DEF Solves
  <2>2. k # 0 => nxt[k] = k - 1 /\ S[k - 1] \in FillStates
    BY <1>4
  <2> QED BY <2>1, <2>2
<1>6. S = [k \in Nat |-> IF k = 0 THEN Current ELSE OneMore(S[k - 1])]
  BY <1>4, <1>5
<1>7. AfterScans = CHOOSE F : F = [k \in Nat |-> IF k = 0 THEN Current ELSE OneMore(F[k - 1])]
  BY DEF AfterScans
<1>8. AfterScans = [k \in Nat |-> IF k = 0 THEN Current ELSE OneMore(AfterScans[k - 1])]
  BY <1>6, <1>7
<1> QED BY <1>8

LEMMA AppendConcat ==
    ASSUME NEW S, NEW s \in Seq(S), NEW x \in S, NEW t \in Seq(S)
    PROVE  Append(s, x) \o t = s \o (<<x>> \o t)
<1>1. <<x>> \in Seq(S)
  OBVIOUS
<1>2. (s \o <<x>>) \o t = s \o (<<x>> \o t)
  BY <1>1, ConcatAssociative
<1> QED BY <1>2, AppendIsConcat

\* After k scans: the buffer holds k tokens more, unless a scan found none; the tokens
\* in the buffer and in the rest of the text stay the same ones.
Filling(f, k) ==
    /\ f \in FillStates
    /\ f.loc = 1 + NewLines(1, f.ptr)
    /\ Len(buffered) <= Len(f.buffered) /\ Len(f.buffered) <= Len(buffered) + k
    /\ \A j \in 1..Len(buffered) : f.buffered[j] = buffered[j]
    /\ \A j \in 1..Len(f.buffered) :
          j > Len(buffered) => f.buffered[j].loc = 1 + NewLines(1, f.buffered[j].from)
    /\ f.buffered \o TokensFrom[f.ptr] = buffered \o TokensFrom[ptr]
    /\ f.more => Len(f.buffered) = Len(buffered) + k /\ f.errors = errors
    /\ ~f.more => /\ Len(f.buffered) < Len(buffered) + k
                  /\ (f.errors = errors + 1 \/ (f.errors = errors /\ f.ptr = End))

LEMMA FillingStep ==
    ASSUME Typed, NEW k \in Nat, NEW f, Filling(f, k)
    PROVE  Filling(OneMore(f), k + 1)
<1>1. /\ f.ptr \in 1..End /\ f.loc \in Nat /\ f.buffered \in Seq(Tokens) /\ f.errors \in Nat
      /\ f.more \in BOOLEAN /\ f \in FillStates
  BY DEF Filling, FillStates
<1>2. text \in Texts /\ Len(buffered) \in Nat /\ Len(f.buffered) \in Nat /\ errors \in Nat
  BY <1>1 DEF Typed
<1>3. CASE ~f.more
  <2>1. OneMore(f) = f
    BY <1>3 DEF OneMore
  <2>2. /\ Len(f.buffered) < Len(buffered) + k /\ Len(buffered) <= Len(f.buffered)
        /\ (f.errors = errors + 1 \/ (f.errors = errors /\ f.ptr = End))
    BY <1>3 DEF Filling
  <2>3. Len(f.buffered) <= Len(buffered) + (k + 1) /\ Len(f.buffered) < Len(buffered) + (k + 1)
    BY <2>2, <1>2
  <2> QED BY <2>1, <2>2, <2>3, <1>3 DEF Filling
<1>4. CASE f.more
  <2>1. PICK t : t = Scan(f.ptr, 1 + NewLines(1, f.ptr))
    OBVIOUS
  <2>2. PICK g : g = OneMore(f)
    OBVIOUS
  <2>3. /\ t.ptr \in 1..End /\ t.valid \in BOOLEAN /\ t.message \in BOOLEAN
        /\ t.loc = 1 + NewLines(1, t.ptr)
        /\ t.valid => /\ ~t.message /\ t.token \in Tokens /\ t.token.loc = 1 + NewLines(1, t.token.from)
        /\ ~t.valid => t.message \/ t.ptr = End
    BY <1>1, <1>2, <2>1, ScanFromStart
  <2>4. g = Buffered(f, t) /\ g \in FillStates
    BY <1>1, <1>2, <1>4, <2>1, <2>2, OneMoreTyped DEF OneMore, Filling
  <2>5. /\ g.ptr = t.ptr /\ g.loc = t.loc /\ g.more = t.valid
        /\ g.buffered = IF t.valid THEN Append(f.buffered, t.token) ELSE f.buffered
        /\ g.errors = IF t.message THEN f.errors + 1 ELSE f.errors
    BY <2>4 DEF Buffered
  <2>6. TokensFrom[f.ptr] = Behind(t, TokensFrom)
    BY <1>1, <1>2, <2>1, TokensUnfolded
  <2>7. TokensFrom[t.ptr] \in Seq(Tokens) /\ TokensFrom[f.ptr] \in Seq(Tokens) /\ TokensFrom[End] = <<>>
    BY <1>1, <1>2, <2>3, TokensTyped
  <2>8. /\ Len(f.buffered) = Len(buffered) + k /\ f.errors = errors
        /\ \A j \in 1..Len(buffered) : f.buffered[j] = buffered[j]
        /\ \A j \in 1..Len(f.buffered) :
              j > Len(buffered) => f.buffered[j].loc = 1 + NewLines(1, f.buffered[j].from)
        /\ f.buffered \o TokensFrom[f.ptr] = buffered \o TokensFrom[ptr]
    BY <1>4 DEF Filling
  <2>9. CASE t.valid
    <3>1. PICK x \in Tokens : x = t.token
      BY <2>3, <2>9
    <3>2. g.buffered = Append(f.buffered, x) /\ x.loc = 1 + NewLines(1, x.from)
      BY <2>3, <2>5, <2>9, <3>1
    <3>3. /\ Len(g.buffered) = Len(f.buffered) + 1
          /\ \A j \in 1..Len(f.buffered) : g.buffered[j] = f.buffered[j]
          /\ g.buffered[Len(f.buffered) + 1] = x
      BY <1>1, <3>2
    <3>4. \A j \in 1..Len(buffered) : g.buffered[j] = buffered[j]
      BY <2>8, <3>3, <1>2
    <3>5. \A j \in 1..Len(g.buffered) :
             j > Len(buffered) => g.buffered[j].loc = 1 + NewLines(1, g.buffered[j].from)
      <4> SUFFICES ASSUME NEW j \in 1..Len(g.buffered), j > Len(buffered)
                   PROVE  g.buffered[j].loc = 1 + NewLines(1, g.buffered[j].from)
        OBVIOUS
      <4>1. j \in 1..Len(f.buffered) \/ j = Len(f.buffered) + 1
        BY <3>3, <1>2
      <4> QED BY <4>1, <2>8, <3>2, <3>3
    <3>6. g.buffered \o TokensFrom[g.ptr] = f.buffered \o TokensFrom[f.ptr]
      <4>1. TokensFrom[f.ptr] = <<x>> \o TokensFrom[t.ptr]
        BY <2>6, <2>9, <3>1 DEF Behind
      <4>2. PICK v \in Seq(Tokens) : v = TokensFrom[t.ptr]
        BY <2>7
      <4>3. PICK b \in Seq(Tokens) : b = f.buffered
        BY <1>1
      <4>4. Append(b, x) \o v = b \o (<<x>> \o v)
        BY AppendConcat
      <4> QED BY <4>1, <4>2, <4>3, <4>4, <3>2, <2>5
    <3>7. g.more /\ g.errors = errors
      BY <2>3, <2>5, <2>8, <2>9
    <3>8. /\ Len(g.buffered) = Len(buffered) + (k + 1) /\ Len(buffered) <= Len(g.buffered)
          /\ Len(g.buffered) <= Len(buffered) + (k + 1)
      BY <2>8, <3>3, <1>2
    <3>9. g.loc = 1 + NewLines(1, g.ptr) /\ g.buffered \o TokensFrom[g.ptr] = buffered \o TokensFrom[ptr]
      BY <2>3, <2>5, <2>8, <3>6
    <3> QED BY <2>2, <2>4, <3>4, <3>5, <3>7, <3>8, <3>9 DEF Filling
  <2>10. CASE ~t.valid
    <3>1. g.buffered = f.buffered /\ ~g.more
      BY <2>5, <2>10
    <3>2. TokensFrom[g.ptr] = TokensFrom[f.ptr]
      BY <2>5, <2>6, <2>7, <2>10 DEF Behind
    <3>3. g.errors = errors + 1 \/ (g.errors = errors /\ g.ptr = End)
      BY <2>3, <2>5, <2>8, <2>10
    <3>4. /\ Len(g.buffered) < Len(buffered) + (k + 1) /\ Len(buffered) <= Len(g.buffered)
          /\ Len(g.buffered) <= Len(buffered) + (k + 1)
      BY <2>8, <3>1, <1>2
    <3>5. g.loc = 1 + NewLines(1, g.ptr) /\ g.buffered \o TokensFrom[g.ptr] = buffered \o TokensFrom[ptr]
      BY <2>3, <2>5, <2>8, <3>1, <3>2
    <3> QED BY <2>2, <2>4, <2>8, <3>1, <3>3, <3>4, <3>5 DEF Filling
  <2> QED BY <2>3, <2>9, <2>10
<1> QED BY <1>1, <1>3, <1>4

LEMMA FillingDone ==
    ASSUME Typed, loc = 1 + NewLines(1, ptr), NEW n \in Nat
    PROVE  Filling(AfterScans[n], n)
<1> DEFINE m == [k \in Nat |-> k]
           T == {k \in Nat : Filling(AfterScans[k], k)}
<1>1. 0 \in T
  <2>1. Current \in FillStates
    BY DEF Typed, Current, FillStates
  <2>2. Len(buffered) \in Nat
    BY DEF Typed
  <2>3. Filling(Current, 0)
    BY <2>1, <2>2 DEF Current, Filling
  <2> QED BY <2>3, ScansUnfolded
<1>2. \A k \in Nat : (\A j \in Nat : m[j] < m[k] => j \in T) => k \in T
  <2> SUFFICES ASSUME NEW k \in Nat, k # 0, \A j \in Nat : j < k => j \in T PROVE k \in T
    BY <1>1
  <2>1. k - 1 \in Nat /\ k - 1 < k /\ k = k - 1 + 1
    OBVIOUS
  <2>2. Filling(AfterScans[k - 1], k - 1)
    BY <2>1
  <2>3. Filling(OneMore(AfterScans[k - 1]), k)
    BY <2>1, <2>2, FillingStep
  <2>4. AfterScans[k] = OneMore(AfterScans[k - 1])
    BY ScansUnfolded
  <2> QED BY <2>3, <2>4
<1>3. Nat \subseteq T
  <2>1. m \in [Nat -> Nat]
    OBVIOUS
  <2> HIDE DEF m, T
  <2> QED BY <2>1, <1>2, MeasureInduction
<1> QED BY <1>3

-----------------------------------------------------------------------------
(* The invariant: the parser's position and its line go together.          *)

Placed == loc = 1 + NewLines(1, ptr)
Lined(s) == \A k \in 1..Len(s) : s[k].loc = 1 + NewLines(1, s[k].from)

TokenInv == TypeOK /\ Placed /\ Lined(taken) /\ Lined(buffered)

\* A text is never changed, and neither is what is computed from it.
LEMMA TextStays ==
    ASSUME text' = text
    PROVE  /\ End' = End /\ Tokens' = Tokens /\ TokensFrom' = TokensFrom
           /\ \A p, q : NewLines(p, q)' = NewLines(p, q)
           /\ \A p : Char(p)' = Char(p)
<1>1. End' = End /\ Tokens' = Tokens
  BY DEF End, Tokens
<1>2. \A p, q : NewLines(p, q)' = NewLines(p, q)
  BY DEF NewLines, Char, End
<1>3. \A p : Char(p)' = Char(p)
  BY DEF Char, End
<1>4. Skip' = Skip
  BY DEF Skip, Onwards, Round, CommentClose, FirstIn, FirstOut, NewLines, Char, End, Blanks
<1>5. TokensFrom' = TokensFrom
  BY <1>4 DEF TokensFrom, Behind, Scan, ScanBehind, Misnamed, TokenEnd, WordEnd, FractionEnd, FirstOut, NewLines,
              Char, End, Name
<1> QED BY <1>1, <1>2, <1>3, <1>5

\* What a peek or a take finds in the buffer.
LEMMA FilledDone ==
    ASSUME TokenInv, NEW i \in 0..MaxAhead, NEW f, f = Filled(i)
    PROVE  /\ Filling(f, Missing(i)) /\ f.buffered \in Seq(Tokens)
           /\ f.ptr \in 1..End /\ f.loc \in 1..End /\ f.loc = 1 + NewLines(1, f.ptr) /\ f.errors \in Nat
           /\ Len(f.buffered) <= MaxAhead + 1 /\ Lined(f.buffered)
           /\ Answered(i, f) \in Tokens \cup {sEOF, sInvalid}
           /\ f.buffered \o TokensFrom[f.ptr] = buffered \o TokensFrom[ptr]
           /\ i >= Len(f.buffered) => f.errors = errors + 1 \/ (f.errors = errors /\ f.ptr = End)
           /\ i < Len(f.buffered) => f.errors = errors
<1>1. /\ Typed /\ loc = 1 + NewLines(1, ptr) /\ Len(buffered) \in Nat /\ MaxAhead \in Nat
      /\ Len(buffered) <= MaxAhead + 1 /\ i \in Nat /\ i <= MaxAhead /\ errors \in Nat
  <2>1. End \in Nat
    BY TextTyped DEF TokenInv, TypeOK
  <2> QED BY <2>1, AheadAssumption DEF TokenInv, Placed, TypeOK, Typed
<1>2. Missing(i) \in Nat /\ Missing(i) = IF Len(buffered) <= i THEN i - Len(buffered) + 1 ELSE 0
  BY <1>1 DEF Missing
<1>3. Filling(f, Missing(i))
  BY <1>1, <1>2, FillingDone DEF Filled
<1>4. /\ f \in FillStates /\ f.loc = 1 + NewLines(1, f.ptr)
      /\ Len(buffered) <= Len(f.buffered) /\ Len(f.buffered) <= Len(buffered) + Missing(i)
      /\ \A j \in 1..Len(buffered) : f.buffered[j] = buffered[j]
      /\ \A j \in 1..Len(f.buffered) :
            j > Len(buffered) => f.buffered[j].loc = 1 + NewLines(1, f.buffered[j].from)
      /\ f.buffered \o TokensFrom[f.ptr] = buffered \o TokensFrom[ptr]
      /\ f.more => Len(f.buffered) = Len(buffered) + Missing(i) /\ f.errors = errors
      /\ ~f.more => /\ Len(f.buffered) < Len(buffered) + Missing(i)
                    /\ (f.errors = errors + 1 \/ (f.errors = errors /\ f.ptr = End))
  BY <1>3 DEF Filling
<1>5. f.ptr \in 1..End /\ f.buffered \in Seq(Tokens) /\ f.errors \in Nat /\ f.more \in BOOLEAN
  BY <1>4 DEF FillStates
<1>6. Len(f.buffered) \in Nat
  BY <1>5
<1>7. Len(f.buffered) <= MaxAhead + 1
  BY <1>1, <1>2, <1>4, <1>6
<1>8. f.loc \in 1..End
  <2>1. 1 + NewLines(1, f.ptr) \in 1..f.ptr
    BY <1>1, <1>5, LinesBound DEF Typed
  <2> QED BY <2>1, <1>1, <1>4, <1>5, TextTyped DEF Typed
<1>9. Lined(f.buffered)
  <2> SUFFICES ASSUME NEW j \in 1..Len(f.buffered)
               PROVE  f.buffered[j].loc = 1 + NewLines(1, f.buffered[j].from)
    BY DEF Lined
  <2>1. j \in 1..Len(buffered) \/ j > Len(buffered)
    BY <1>1, <1>6
  <2> QED BY <2>1, <1>4 DEF TokenInv, Lined
<1>10. Answered(i, f) \in Tokens \cup {sEOF, sInvalid}
  <2>1. i < Len(f.buffered) => f.buffered[i + 1] \in Tokens
    BY <1>1, <1>5, <1>6
  <2> QED BY <2>1 DEF Answered
<1>11. i >= Len(f.buffered) => ~f.more
  BY <1>1, <1>2, <1>4, <1>6
<1>12. i < Len(f.buffered) => f.more
  BY <1>1, <1>2, <1>4, <1>5, <1>6
<1> QED BY <1>3, <1>4, <1>5, <1>7, <1>8, <1>9, <1>10, <1>11, <1>12

LEMMA InitInv == Init => TokenInv
<1> SUFFICES ASSUME Init PROVE TokenInv
  OBVIOUS
<1>1. text \in Texts /\ ptr = 1 /\ loc = 1 /\ buffered = <<>> /\ errors = 0 /\ answer = sEOF /\ taken = <<>>
  BY DEF Init
<1>2. 1 \in 1..End
  BY <1>1, TextTyped
<1>3. NewLines(1, 1) = 0
  BY NoLines
<1>4. <<>> \in Seq(Tokens) /\ Len(<<>>) = 0
  OBVIOUS
<1>5. TypeOK
  BY <1>1, <1>2, <1>4, AheadAssumption DEF TypeOK
<1>6. Placed /\ Lined(taken) /\ Lined(buffered)
  BY <1>1, <1>3, <1>4 DEF Placed, Lined
<1> QED BY <1>5, <1>6 DEF TokenInv

LEMMA PeekInv ==
    ASSUME TokenInv, NEW i \in 0..MaxAhead, Peek(i)
    PROVE  TokenInv'
<1>1. PICK f : /\ f = Filled(i) /\ ptr' = f.ptr /\ loc' = f.loc /\ buffered' = f.buffered
               /\ errors' = f.errors /\ answer' = Answered(i, f) /\ text' = text /\ taken' = taken
  BY DEF Peek
<1>2. /\ f.buffered \in Seq(Tokens) /\ f.ptr \in 1..End /\ f.loc \in 1..End /\ f.errors \in Nat
      /\ f.loc = 1 + NewLines(1, f.ptr) /\ Len(f.buffered) <= MaxAhead + 1 /\ Lined(f.buffered)
      /\ Answered(i, f) \in Tokens \cup {sEOF, sInvalid}
  BY <1>1, FilledDone
<1>3. text \in Texts /\ taken \in Seq(Tokens) /\ Lined(taken)
  BY DEF TokenInv, TypeOK
<1>4. /\ End' = End /\ Tokens' = Tokens /\ \A p, q : NewLines(p, q)' = NewLines(p, q)
  BY <1>1, TextStays
<1>5. TypeOK'
  BY <1>1, <1>2, <1>3, <1>4 DEF TypeOK
<1>6. Placed'
  BY <1>1, <1>2, <1>4 DEF Placed
<1>7. Lined(taken)' /\ Lined(buffered)'
  BY <1>1, <1>2, <1>3, <1>4 DEF Lined
<1> QED BY <1>5, <1>6, <1>7 DEF TokenInv

LEMMA GetInv == TokenInv /\ Get => TokenInv'
<1> SUFFICES ASSUME TokenInv, Get PROVE TokenInv'
  OBVIOUS
<1>1. PICK f : /\ f = Filled(0) /\ ptr' = f.ptr /\ loc' = f.loc /\ errors' = f.errors
               /\ answer' = Answered(0, f) /\ buffered' = Erased(f.buffered)
               /\ taken' = (IF f.buffered = <<>> THEN taken ELSE Append(taken, f.buffered[1]))
               /\ text' = text
  BY DEF Get
<1>2. /\ f.buffered \in Seq(Tokens) /\ f.ptr \in 1..End /\ f.loc \in 1..End /\ f.errors \in Nat
      /\ f.loc = 1 + NewLines(1, f.ptr) /\ Len(f.buffered) <= MaxAhead + 1 /\ Lined(f.buffered)
      /\ Answered(0, f) \in Tokens \cup {sEOF, sInvalid}
  <2>1. 0 \in 0..MaxAhead
    BY AheadAssumption
  <2> QED BY <2>1, <1>1, FilledDone
<1>3. text \in Texts /\ taken \in Seq(Tokens) /\ Lined(taken)
  BY DEF TokenInv, TypeOK
<1>4. /\ End' = End /\ Tokens' = Tokens /\ \A p, q : NewLines(p, q)' = NewLines(p, q)
  BY <1>1, TextStays
<1>5. /\ buffered' \in Seq(Tokens) /\ Len(buffered') <= MaxAhead + 1 /\ Lined(buffered')
      /\ taken' \in Seq(Tokens) /\ Lined(taken')
  <2>1. CASE f.buffered = <<>>
    BY <1>1, <1>2, <1>3, <2>1 DEF Erased
  <2>2. CASE f.buffered # <<>>
    <3>1. PICK b \in Seq(Tokens) : b = f.buffered /\ b # <<>>
      BY <1>2, <2>2
    <3>2. buffered' = Tail(b) /\ taken' = Append(taken, b[1]) /\ Lined(b) /\ Len(b) <= MaxAhead + 1
      BY <1>1, <1>2, <3>1 DEF Erased
    <3>3. /\ Tail(b) \in Seq(Tokens) /\ Len(Tail(b)) = Len(b) - 1
          /\ \A k \in 1..Len(Tail(b)) : Tail(b)[k] = b[k + 1]
      BY <3>1, HeadTailProperties
    <3>4. b[1] \in Tokens /\ b[1].loc = 1 + NewLines(1, b[1].from) /\ Len(b) \in Nat
      BY <3>1, <3>2 DEF Lined
    <3>5. \A k \in 1..Len(Tail(b)) : k + 1 \in 1..Len(b)
      BY <3>3, <3>4
    <3>6. Lined(Tail(b))
      BY <3>2, <3>3, <3>5 DEF Lined
    <3>7. Lined(Append(taken, b[1]))
      <4>1. \A k \in 1..Len(Append(taken, b[1])) : k \in 1..Len(taken) \/ k = Len(taken) + 1
        BY <1>3, <3>4, AppendProperties
      <4>2. /\ \A k \in 1..Len(taken) : Append(taken, b[1])[k] = taken[k]
            /\ Append(taken, b[1])[Len(taken) + 1] = b[1]
        BY <1>3, <3>4, AppendProperties
      <4> QED BY <4>1, <4>2, <1>3, <3>4 DEF Lined
    <3>8. Append(taken, b[1]) \in Seq(Tokens)
      BY <1>3, <3>4
    <3> QED BY <3>2, <3>3, <3>4, <3>6, <3>7, <3>8, AheadAssumption
  <2> QED BY <2>1, <2>2
<1>6. TypeOK'
  BY <1>1, <1>2, <1>3, <1>4, <1>5 DEF TypeOK
<1>7. Placed'
  BY <1>1, <1>2, <1>4 DEF Placed
<1>8. Lined(taken)' /\ Lined(buffered)'
  BY <1>4, <1>5 DEF Lined
<1> QED BY <1>6, <1>7, <1>8 DEF TokenInv

LEMMA NextInv == TokenInv /\ [Next]_vars => TokenInv'
<1> SUFFICES ASSUME TokenInv, [Next]_vars PROVE TokenInv'
  OBVIOUS
<1>1. CASE Get
  BY <1>1, GetInv
<1>2. CASE \E i \in 0..MaxAhead : Peek(i)
  BY <1>2, PeekInv
<1>3. CASE UNCHANGED vars
  <2>1. /\ text' = text /\ ptr' = ptr /\ loc' = loc /\ buffered' = buffered /\ errors' = errors
        /\ answer' = answer /\ taken' = taken
    BY <1>3 DEF vars
  <2>2. /\ End' = End /\ Tokens' = Tokens /\ \A p, q : NewLines(p, q)' = NewLines(p, q)
    BY <2>1, TextStays
  <2> QED BY <2>1, <2>2 DEF TokenInv, TypeOK, Placed, Lined
<1> QED BY <1>1, <1>2, <1>3 DEF Next

\* The scanner stays inside the text and the parser never has more tokens in hand
\* than it looks ahead, for texts of any length.
THEOREM TypeCorrect == Spec => []TypeOK
<1>1. TokenInv => TypeOK
  BY DEF TokenInv
<1> QED BY <1>1, InitInv, NextInv, PTL DEF Spec

\* A message's line is right: each token's line number is one more than the line ends
\* in front of it, through any comments and blanks and however far the parser looks ahead.
THEOREM LinesCounted == Spec => []LineNumbers
<1>1. TokenInv => LineNumbers
  <2> SUFFICES ASSUME TokenInv, NEW k \in DOMAIN Known
               PROVE  Known[k].loc = 1 + NewLines(1, Known[k].from)
    BY DEF LineNumbers
  <2>1. taken \in Seq(Tokens) /\ buffered \in Seq(Tokens) /\ Lined(taken) /\ Lined(buffered)
    BY DEF TokenInv, TypeOK
  <2>2. /\ Known \in Seq(Tokens) /\ Len(Known) = Len(taken) + Len(buffered)
        /\ \A j \in 1..(Len(taken) + Len(buffered)) :
              Known[j] = IF j <= Len(taken) THEN taken[j] ELSE buffered[j - Len(taken)]
    BY <2>1, ConcatProperties DEF Known
  <2>3. Len(taken) \in Nat /\ Len(buffered) \in Nat /\ k \in 1..(Len(taken) + Len(buffered))
    BY <2>1, <2>2
  <2>4. CASE k <= Len(taken)
    <3>1. k \in 1..Len(taken)
      BY <2>3, <2>4
    <3> QED BY <3>1, <2>1, <2>2, <2>3, <2>4 DEF Lined
  <2>5. CASE ~(k <= Len(taken))
    <3>1. k - Len(taken) \in 1..Len(buffered)
      BY <2>3, <2>5
    <3> QED BY <3>1, <2>1, <2>2, <2>3, <2>5 DEF Lined
  <2> QED BY <2>4, <2>5
<1> QED BY <1>1, InitInv, NextInv, PTL DEF Spec

-----------------------------------------------------------------------------
(* The refinement of TokenQueue: what is in the buffer and in the rest of  *)
(* the text is one queue.                                                  *)

LEMMA TailConcat ==
    ASSUME NEW S, NEW s \in Seq(S), s # <<>>, NEW t \in Seq(S)
    PROVE  s \o t # <<>> /\ Tail(s \o t) = Tail(s) \o t
<1>1. /\ s \o t \in Seq(S) /\ Len(s \o t) = Len(s) + Len(t)
      /\ \A i \in 1..(Len(s) + Len(t)) : (s \o t)[i] = IF i <= Len(s) THEN s[i] ELSE t[i - Len(s)]
  BY ConcatProperties
<1>2. Len(s) \in Nat /\ Len(t) \in Nat /\ Len(s) # 0
  OBVIOUS
<1>3. s \o t # <<>>
  BY <1>1, <1>2
<1>4. /\ Tail(s) \in Seq(S) /\ Len(Tail(s)) = Len(s) - 1
      /\ \A i \in 1..Len(Tail(s)) : Tail(s)[i] = s[i + 1]
  BY HeadTailProperties
<1>5. /\ Tail(s \o t) \in Seq(S) /\ Len(Tail(s \o t)) = Len(s) + Len(t) - 1
      /\ \A i \in 1..Len(Tail(s \o t)) : Tail(s \o t)[i] = (s \o t)[i + 1]
  BY <1>1, <1>3, HeadTailProperties
<1>6. /\ Tail(s) \o t \in Seq(S) /\ Len(Tail(s) \o t) = Len(s) - 1 + Len(t)
      /\ \A i \in 1..(Len(s) - 1 + Len(t)) :
            (Tail(s) \o t)[i] = IF i <= Len(s) - 1 THEN Tail(s)[i] ELSE t[i - (Len(s) - 1)]
  BY <1>4, ConcatProperties
<1>7. Len(Tail(s \o t)) = Len(Tail(s) \o t)
  BY <1>2, <1>5, <1>6
<1>8. \A i \in 1..Len(Tail(s \o t)) : Tail(s \o t)[i] = (Tail(s) \o t)[i]
  <2> SUFFICES ASSUME NEW i \in 1..(Len(s) + Len(t) - 1) PROVE Tail(s \o t)[i] = (Tail(s) \o t)[i]
    BY <1>5
  <2>1. /\ i + 1 \in 1..(Len(s) + Len(t)) /\ i \in 1..(Len(s) - 1 + Len(t))
        /\ i + 1 - Len(s) = i - (Len(s) - 1) /\ (i + 1 <= Len(s) <=> i <= Len(s) - 1)
    BY <1>2
  <2>2. Tail(s \o t)[i] = (s \o t)[i + 1]
    BY <1>5
  <2>3. i <= Len(s) - 1 => Tail(s)[i] = s[i + 1]
    BY <1>2, <1>4
  <2> QED BY <2>1, <2>2, <2>3, <1>1, <1>6
<1> QED BY <1>3, <1>5, <1>6, <1>7, <1>8, SeqEqual

\* The answer of a call that reports nothing is the queue's.
LEMMA AnswersQueue ==
    ASSUME NEW b \in Seq(Tokens), NEW r \in Seq(Tokens), NEW i \in Nat,
           i >= Len(b) => r = <<>>, NEW a,
           a = IF i < Len(b) THEN b[i + 1] ELSE IF errors = 0 THEN sEOF ELSE sInvalid
    PROVE  a = Queue!Ahead(b \o r, i)
<1>1. /\ Len(b \o r) = Len(b) + Len(r) /\ Len(b) \in Nat /\ Len(r) \in Nat
      /\ \A j \in 1..(Len(b) + Len(r)) : (b \o r)[j] = IF j <= Len(b) THEN b[j] ELSE r[j - Len(b)]
  BY ConcatProperties
<1>2. CASE i < Len(b)
  <2>1. i < Len(b \o r) /\ i + 1 \in 1..(Len(b) + Len(r)) /\ i + 1 <= Len(b)
    BY <1>1, <1>2
  <2>2. (b \o r)[i + 1] = b[i + 1]
    BY <2>1, <1>1
  <2> QED BY <1>2, <2>1, <2>2 DEF Queue!Ahead
<1>3. CASE ~(i < Len(b))
  <2>1. r = <<>> /\ Len(r) = 0
    BY <1>1, <1>3
  <2>2. ~(i < Len(b \o r))
    BY <1>1, <1>3, <2>1
  <2> QED BY <1>3, <2>2 DEF Queue!Ahead, Queue!NoToken
<1> QED BY <1>2, <1>3

LEMMA QueueInit == Init => Queue!Init
BY DEF Init, Queue!Init

LEMMA PeekRefines ==
    ASSUME TokenInv, NEW i \in 0..MaxAhead, Peek(i)
    PROVE  Queue!Next
<1> DEFINE rest == buffered \o Remaining
<1>1. PICK f : /\ f = Filled(i) /\ ptr' = f.ptr /\ buffered' = f.buffered
               /\ errors' = f.errors /\ answer' = Answered(i, f) /\ text' = text
  BY DEF Peek
<1>2. /\ f.buffered \in Seq(Tokens) /\ f.ptr \in 1..End
      /\ f.buffered \o TokensFrom[f.ptr] = buffered \o TokensFrom[ptr]
      /\ i >= Len(f.buffered) => f.errors = errors + 1 \/ (f.errors = errors /\ f.ptr = End)
      /\ i < Len(f.buffered) => f.errors = errors
  BY <1>1, FilledDone
<1>3. /\ TokensFrom[f.ptr] \in Seq(Tokens) /\ TokensFrom[End] = <<>>
      /\ i \in Nat /\ Len(f.buffered) \in Nat /\ errors \in Nat
  BY <1>2, TokensTyped, AheadAssumption DEF TokenInv, TypeOK
<1>4. rest = f.buffered \o TokensFrom[f.ptr] /\ rest' = rest
  <2>1. TokensFrom' = TokensFrom
    BY <1>1, TextStays
  <2> QED BY <2>1, <1>1, <1>2 DEF Remaining
<1>5. CASE f.errors = errors
  <2>1. i >= Len(f.buffered) => TokensFrom[f.ptr] = <<>>
    BY <1>2, <1>3, <1>5
  <2>2. answer' = Queue!Ahead(rest, i)
    <3>1. PICK b \in Seq(Tokens), r \in Seq(Tokens) : b = f.buffered /\ r = TokensFrom[f.ptr]
      BY <1>2, <1>3
    <3>2. /\ answer' = IF i < Len(b) THEN b[i + 1] ELSE IF errors = 0 THEN sEOF ELSE sInvalid
          /\ i >= Len(b) => r = <<>>
      BY <1>1, <1>5, <2>1, <3>1 DEF Answered
    <3>3. answer' = Queue!Ahead(b \o r, i)
      BY <1>3, <3>2, AnswersQueue
    <3> QED BY <1>4, <3>1, <3>3
  <2>3. Queue!Peek(i)
    BY <2>2, <1>1, <1>4, <1>5 DEF Queue!Peek
  <2> QED BY <2>3 DEF Queue!Next
<1>6. CASE f.errors # errors
  <2>1. i >= Len(f.buffered) /\ f.errors = errors + 1 /\ f.errors # 0
    BY <1>2, <1>3, <1>6
  <2>2. answer' = sInvalid
    BY <2>1, <1>1, <1>3 DEF Answered
  <2>3. Queue!Report
    BY <2>1, <2>2, <1>1, <1>4 DEF Queue!Report
  <2> QED BY <2>3 DEF Queue!Next
<1> QED BY <1>5, <1>6

LEMMA GetRefines == TokenInv /\ Get => Queue!Next
<1> SUFFICES ASSUME TokenInv, Get PROVE Queue!Next
  OBVIOUS
<1> DEFINE rest == buffered \o Remaining
<1>1. PICK f : /\ f = Filled(0) /\ ptr' = f.ptr /\ errors' = f.errors /\ answer' = Answered(0, f)
               /\ buffered' = Erased(f.buffered) /\ text' = text
  BY DEF Get
<1>2. /\ f.buffered \in Seq(Tokens) /\ f.ptr \in 1..End
      /\ f.buffered \o TokensFrom[f.ptr] = buffered \o TokensFrom[ptr]
      /\ 0 >= Len(f.buffered) => f.errors = errors + 1 \/ (f.errors = errors /\ f.ptr = End)
      /\ 0 < Len(f.buffered) => f.errors = errors
  <2>1. 0 \in 0..MaxAhead
    BY AheadAssumption
  <2> QED BY <2>1, <1>1, FilledDone
<1>3. /\ TokensFrom[f.ptr] \in Seq(Tokens) /\ TokensFrom[End] = <<>>
      /\ Len(f.buffered) \in Nat /\ errors \in Nat
      /\ (f.buffered = <<>> <=> Len(f.buffered) = 0)
  BY <1>2, TokensTyped DEF TokenInv, TypeOK
<1>4. /\ rest = f.buffered \o TokensFrom[f.ptr]
      /\ rest' = Erased(f.buffered) \o TokensFrom[f.ptr]
  <2>1. TokensFrom' = TokensFrom
    BY <1>1, TextStays
  <2> QED BY <2>1, <1>1, <1>2 DEF Remaining
<1>5. CASE f.errors = errors
  <2>1. 0 >= Len(f.buffered) => TokensFrom[f.ptr] = <<>>
    BY <1>2, <1>3, <1>5
  <2>2. answer' = Queue!Ahead(rest, 0)
    <3>1. PICK b \in Seq(Tokens), r \in Seq(Tokens) : b = f.buffered /\ r = TokensFrom[f.ptr]
      BY <1>2, <1>3
    <3>2. /\ answer' = IF 0 < Len(b) THEN b[0 + 1] ELSE IF errors = 0 THEN sEOF ELSE sInvalid
          /\ 0 >= Len(b) => r = <<>>
      BY <1>1, <1>5, <2>1, <3>1 DEF Answered
    <3>3. answer' = Queue!Ahead(b \o r, 0)
      BY <3>2, AnswersQueue
    <3> QED BY <1>4, <3>1, <3>3
  <2>3. rest' = IF rest = <<>> THEN rest ELSE Tail(rest)
    <3>1. CASE f.buffered = <<>>
      <4>1. TokensFrom[f.ptr] = <<>>
        BY <3>1, <1>3, <2>1
      <4>2. rest = <<>> /\ rest' = <<>>
        BY <3>1, <4>1, <1>4, ConcatEmptySeq DEF Erased
      <4> QED BY <4>2
    <3>2. CASE f.buffered # <<>>
      <4>1. PICK b \in Seq(Tokens), r \in Seq(Tokens) : b = f.buffered /\ r = TokensFrom[f.ptr]
        BY <1>2, <1>3
      <4>2. b \o r # <<>> /\ Tail(b \o r) = Tail(b) \o r
        BY <3>2, <4>1, TailConcat
      <4>3. rest = b \o r /\ rest' = Tail(b) \o r
        BY <3>2, <4>1, <1>4 DEF Erased
      <4> HIDE DEF rest
      <4> QED BY <4>2, <4>3
    <3> QED BY <3>1, <3>2
  <2>4. Queue!Get
    BY <2>2, <2>3, <1>1, <1>5 DEF Queue!Get
  <2> QED BY <2>4 DEF Queue!Next
<1>6. CASE f.errors # errors
  <2>1. f.buffered = <<>> /\ f.errors = errors + 1 /\ f.errors # 0
    BY <1>2, <1>3, <1>6
  <2>2. answer' = sInvalid
    BY <2>1, <1>1, <1>3 DEF Answered
  <2>3. rest' = rest
    BY <2>1, <1>4 DEF Erased
  <2>4. Queue!Report
    BY <2>1, <2>2, <2>3, <1>1 DEF Queue!Report
  <2> QED BY <2>4 DEF Queue!Next
<1> QED BY <1>5, <1>6

\* Looking ahead changes nothing the parser will see later: for every text, any order
\* of peeks and takes reads the tokens of one queue.
THEOREM QueueImplemented == Spec => QueueSpec
<1>1. TokenInv /\ [Next]_vars => [Queue!Next]_(Queue!vars)
  <2> SUFFICES ASSUME TokenInv, [Next]_vars PROVE [Queue!Next]_(Queue!vars)
    OBVIOUS
  <2>1. CASE Get
    BY <2>1, GetRefines
  <2>2. CASE \E i \in 0..MaxAhead : Peek(i)
    BY <2>2, PeekRefines
  <2>3. CASE UNCHANGED vars
    <3>1. text' = text /\ ptr' = ptr /\ buffered' = buffered /\ errors' = errors /\ answer' = answer
      BY <2>3 DEF vars
    <3>2. TokensFrom' = TokensFrom
      BY <3>1, TextStays
    <3> QED BY <3>1, <3>2 DEF Queue!vars, Remaining
  <2> QED BY <2>1, <2>2, <2>3 DEF Next
<1> QED BY <1>1, QueueInit, InitInv, NextInv, PTL DEF Spec, QueueSpec, Queue!Spec

-----------------------------------------------------------------------------
(* Comments.  C's view of them, CommentAt, looks at one character after    *)
(* the other; ScanForToken searches for the end of each.                   *)

Comments == [kind : {"code", "line", "block"}, from : Nat]

\* CommentAt is what its definition says, at every position.
LEMMA CommentUnfolded ==
    ASSUME text \in Texts
    PROVE  \A p \in 1..End :
              CommentAt[p] = IF p = 1 \/ Over(CommentAt[p - 1], p)
                             THEN [kind |-> Opened(p), from |-> p] ELSE CommentAt[p - 1]
<1> DEFINE D == 1..End
           m == [p \in D |-> p]
           base == [p \in D |-> [kind |-> Opened(p), from |-> p]]
           nxt == [p \in D |-> IF p = 1 THEN p ELSE p - 1]
           comb == [p \in D |-> [v \in Comments |-> IF Over(v, p) THEN [kind |-> Opened(p), from |-> p] ELSE v]]
<1>1. \A p \in D : [kind |-> Opened(p), from |-> p] \in Comments
  BY TextTyped DEF Opened, Comments
<1>2. m \in [D -> Nat] /\ nxt \in [D -> D] /\ \A p \in D \ {1} : m[nxt[p]] < m[p]
  BY TextTyped
<1>3. base \in [D -> Comments] /\ comb \in [D -> [Comments -> Comments]]
  BY <1>1
<1>4. PICK S \in [D -> Comments] : Solves(S, D, {1}, base, nxt, comb)
  <2> HIDE DEF D, m, base, nxt, comb
  <2> QED BY <1>2, <1>3, Recursion
<1>5. \A p \in D : S[p] = IF p = 1 \/ Over(S[p - 1], p) THEN [kind |-> Opened(p), from |-> p] ELSE S[p - 1]
  <2> SUFFICES ASSUME NEW p \in D
               PROVE  S[p] = IF p = 1 \/ Over(S[p - 1], p) THEN [kind |-> Opened(p), from |-> p] ELSE S[p - 1]
    OBVIOUS
  <2>1. S[p] = IF p \in {1} THEN base[p] ELSE comb[p][S[nxt[p]]]
    BY <1>4 DEF Solves
  <2>2. p # 1 => p - 1 \in D
    BY TextTyped
  <2>3. p # 1 => nxt[p] = p - 1 /\ S[p - 1] \in Comments
    BY <1>4, <2>2
  <2> QED BY <2>1, <2>3
<1>6. S = [p \in D |-> IF p = 1 \/ Over(S[p - 1], p) THEN [kind |-> Opened(p), from |-> p] ELSE S[p - 1]]
  <2> HIDE DEF D, m, base, nxt, comb
  <2> QED BY <1>4, <1>5
<1>7. CommentAt = CHOOSE F : F = [p \in D |-> IF p = 1 \/ Over(F[p - 1], p)
                                            THEN [kind |-> Opened(p), from |-> p] ELSE F[p - 1]]
  BY DEF CommentAt
<1>8. CommentAt = [p \in D |-> IF p = 1 \/ Over(CommentAt[p - 1], p)
                              THEN [kind |-> Opened(p), from |-> p] ELSE CommentAt[p - 1]]
  <2> HIDE DEF D, m, base, nxt, comb
  <2> QED BY <1>6, <1>7
<1> QED BY <1>8

\* Nothing that began before p reaches p.
Fresh(p) == CommentAt[p] = [kind |-> Opened(p), from |-> p]

LEMMA FreshFirst == ASSUME text \in Texts PROVE Fresh(1)
BY CommentUnfolded, TextTyped DEF Fresh

\* From a fresh position on, text in which no comment opens is code.
LEMMA CodeRun ==
    ASSUME text \in Texts, NEW p \in 1..End, NEW q \in p..End, Fresh(p),
           \A k \in p..(q - 1) : Opened(k) = "code"
    PROVE  Fresh(q) /\ \A k \in p..(q - 1) : CommentAt[k].kind = "code"
<1> DEFINE D == p..q
           m == [k \in D |-> k]
           T == {k \in D : Fresh(k)}
<1>0. p \in Nat /\ q \in Nat /\ End \in Nat /\ p <= q
  BY TextTyped
<1>1. \A k \in D : (\A j \in D : m[j] < m[k] => j \in T) => k \in T
  <2> SUFFICES ASSUME NEW k \in D, \A j \in D : j < k => j \in T PROVE Fresh(k)
    OBVIOUS
  <2>1. CASE k = p
    BY <2>1
  <2>2. CASE k # p
    <3>1. k - 1 \in D /\ k - 1 < k /\ k - 1 \in p..(q - 1) /\ k \in 1..End /\ k # 1
      BY <2>2, <1>0
    <3>2. Fresh(k - 1) /\ Opened(k - 1) = "code"
      BY <3>1
    <3>3. CommentAt[k - 1].kind = "code"
      BY <3>2 DEF Fresh
    <3> QED BY <3>1, <3>3, CommentUnfolded DEF Over, Fresh
  <2> QED BY <2>1, <2>2
<1>2. D \subseteq T
  <2>1. m \in [D -> Nat]
    BY <1>0
  <2> HIDE DEF D, m, T
  <2> QED BY <2>1, <1>1, MeasureInduction
<1>3. q \in D /\ \A k \in p..(q - 1) : k \in D
  BY <1>0
<1>4. \A k \in p..(q - 1) : Fresh(k)
  BY <1>2, <1>3
<1>5. ASSUME NEW k \in p..(q - 1) PROVE CommentAt[k].kind = "code"
  <2>1. Opened(k) = "code" /\ CommentAt[k] = [kind |-> Opened(k), from |-> k]
    BY <1>4 DEF Fresh
  <2> QED BY <2>1
<1> QED BY <1>2, <1>3, <1>5

\* A comment that opens at b reaches e when nothing ends it before.
LEMMA CommentRun ==
    ASSUME text \in Texts, NEW b \in 1..End, NEW e \in b..End, Fresh(b),
           NEW c, c = [kind |-> Opened(b), from |-> b],
           \A k \in b..(e - 1) : ~Over(c, k + 1)
    PROVE  \A k \in b..e : CommentAt[k] = c
<1> DEFINE D == b..e
           m == [k \in D |-> k]
           T == {k \in D : CommentAt[k] = c}
<1>0. b \in Nat /\ e \in Nat /\ End \in Nat
  BY TextTyped
<1>1. \A k \in D : (\A j \in D : m[j] < m[k] => j \in T) => k \in T
  <2> SUFFICES ASSUME NEW k \in D, \A j \in D : j < k => j \in T PROVE CommentAt[k] = c
    OBVIOUS
  <2>1. CASE k = b
    BY <2>1 DEF Fresh
  <2>2. CASE k # b
    <3>1. /\ k - 1 \in D /\ k - 1 < k /\ k - 1 \in b..(e - 1) /\ k - 1 + 1 = k
          /\ k \in 1..End /\ k # 1
      BY <2>2, <1>0
    <3>2. CommentAt[k - 1] = c /\ ~Over(c, k)
      BY <3>1
    <3> QED BY <3>1, <3>2, CommentUnfolded
  <2> QED BY <2>1, <2>2
<1>2. D \subseteq T
  <2>1. m \in [D -> Nat]
    BY <1>0
  <2> HIDE DEF D, m, T
  <2> QED BY <2>1, <1>1, MeasureInduction
<1> QED BY <1>2

CodeAt(k) == CommentAt[k].kind = "code" /\ Char(k) \notin Blanks

\* A round that ends inside the text skips blanks and comments only, and all of these.
LEMMA RoundHidden ==
    ASSUME text \in Texts, PlainComments, NEW p \in 1..End, Fresh(p),
           NEW r, r = Round(p, FirstOut(p, Blanks)), ~r.open
    PROVE  /\ \A k \in p..(r.to - 1) : ~CodeAt(k)
           /\ r.to # End => Fresh(r.to)
<1> DEFINE b == FirstOut(p, Blanks)
           c == [kind |-> Opened(b), from |-> b]
<1>1. /\ b \in p..End /\ b \in 1..End /\ Char(b) \notin Blanks
      /\ \A k \in p..(b - 1) : Char(k) \in Blanks
  BY FirstOutFound, TextTyped DEF Blanks
<1>2. p \in Nat /\ b \in Nat /\ End \in Nat
  BY <1>1, TextTyped
<1>3. r = Round(p, b)
  OBVIOUS
<1> HIDE DEF b
<1>4. Fresh(b)
  <2>1. \A k \in p..(b - 1) : Opened(k) = "code"
    BY <1>1 DEF Opened, Blanks
  <2> QED BY <2>1, <1>1, CodeRun
<1>5. CASE Char(b) = "/" /\ Char(b + 1) = "*"
  <2> DEFINE s == FirstIn(b + 2, {"*"})
             q == FirstIn(s, {"/"})
  <2>1. b + 1 \in 1..End /\ b + 2 \in 1..End
    BY <1>1, <1>5, AtEnd
  <2>2. s \in (b + 2)..End /\ s \in 1..End /\ Char(s) \in {"*", "eof"} /\ \A k \in (b + 2)..(s - 1) : Char(k) # "*"
    BY <2>1, <1>2, FirstInFound
  <2> HIDE DEF s
  <2>3. q \in s..End /\ q \in 1..End /\ Char(q) \in {"/", "eof"} /\ \A k \in s..(q - 1) : Char(k) # "/"
    BY <2>2, <1>2, FirstInFound
  <2>4. q = CommentClose(b + 2)
    BY DEF CommentClose, s
  <2> HIDE DEF q
  <2>5. r = [to |-> IF q = End THEN q ELSE q + 1, lines |-> NewLines(p, q), open |-> q = End]
    BY <1>3, <1>5, <2>4 DEF Round
  <2>6. q # End /\ r.to = q + 1
    <3>1. r.open = (q = End)
      BY <2>5
    <3>2. q # End
      BY <3>1
    <3> QED BY <2>5, <3>2
  <2>7. c = [kind |-> "block", from |-> b]
    BY <1>5 DEF Opened
  <2>8. s \in Nat /\ q \in Nat /\ b + 2 <= s /\ s <= q /\ q < End /\ q \in b..End
    BY <2>2, <2>3, <2>6, <1>2
  <2>9. \A k \in b..(q - 1) : ~Over(c, k + 1)
    <3> SUFFICES ASSUME NEW k \in b..(q - 1), Over(c, k + 1) PROVE FALSE
      OBVIOUS
    <3>1. k + 1 > b + 3 /\ Char(k + 1 - 2) = "*" /\ Char(k + 1 - 1) = "/"
      BY <2>7 DEF Over
    <3>2. k \in Nat /\ k + 1 - 2 = k - 1 /\ k + 1 - 1 = k /\ k - 1 >= b + 2 /\ k <= q - 1
      BY <3>1, <2>8, <1>2
    <3>3. Char(k - 1) = "*" /\ Char(k) = "/"
      BY <3>1, <3>2
    <3>4. s <= k - 1
      <4> SUFFICES ASSUME ~(s <= k - 1) PROVE FALSE
        OBVIOUS
      <4>1. k - 1 \in (b + 2)..(s - 1)
        BY <3>2, <2>8, <1>2
      <4> QED BY <4>1, <3>3, <2>2
    <3>5. k \in s..(q - 1)
      BY <3>2, <3>4, <2>8
    <3> QED BY <3>3, <3>5, <2>3
  <2>10. \A k \in b..q : CommentAt[k] = c
    BY <2>8, <2>9, <1>1, <1>4, CommentRun
  <2>11. \A k \in p..(q + 1 - 1) : ~CodeAt(k)
    <3>1. \A k \in p..(q + 1 - 1) : k \in p..(b - 1) \/ k \in b..q
      BY <1>2, <2>8
    <3> QED BY <3>1, <2>7, <2>10, <1>1 DEF CodeAt
  <2>12. Fresh(q + 1)
    <3>1. Char(q) = "/" /\ q \in b..q
      BY <2>3, <2>8, AtEnd, <1>2
    <3>2. q # s /\ q > b + 2
      <4>1. Char(s) = "*" \/ s = End
        BY <2>2, AtEnd
      <4> QED BY <4>1, <3>1, <2>8, <1>2
    <3>3. CommentAt[q] = [kind |-> "block", from |-> b]
      BY <2>7, <2>10, <3>1
    <3>4. Char(q - 1) = "*"
      <4>1. q \in 1..Len(text)
        BY <2>3, <2>8, TextTyped DEF End
      <4>2. q = CommentAt[q].from \/ Char(q - 1) = "*"
        BY <4>1, <3>1, <3>3 DEF PlainComments
      <4> QED BY <4>2, <3>2, <3>3, <1>2, <2>8
    <3>5. q + 1 > b + 3 /\ q + 1 - 2 = q - 1 /\ q + 1 - 1 = q /\ q + 1 \in 1..End
      BY <3>2, <2>8, <1>2
    <3>6. Over(CommentAt[q], q + 1)
      BY <3>1, <3>3, <3>4, <3>5 DEF Over
    <3>7. PICK k \in 1..End : k = q + 1 /\ k - 1 = q
      BY <3>5, <2>8
    <3>8. CommentAt[k] = [kind |-> Opened(k), from |-> k]
      BY <3>6, <3>7, CommentUnfolded
    <3> QED BY <3>7, <3>8 DEF Fresh
  <2>13. \A k \in p..(r.to - 1) : ~CodeAt(k)
    <3>1. r.to - 1 = q + 1 - 1
      BY <2>6, <2>8
    <3> QED BY <2>11, <3>1, Zenon
  <2> QED BY <2>6, <2>12, <2>13
<1>6. CASE Char(b) = "/" /\ Char(b + 1) = "/"
  <2> DEFINE n == FirstIn(b + 2, {"nl"})
             One == IF n = End THEN 0 ELSE 1
  <2>1. b + 1 \in 1..End /\ b + 2 \in 1..End
    BY <1>1, <1>6, AtEnd
  <2>2. /\ n \in (b + 2)..End /\ n \in 1..End /\ Char(n) \in {"nl", "eof"}
        /\ \A k \in (b + 2)..(n - 1) : Char(k) # "nl"
    BY <2>1, <1>2, FirstInFound
  <2>3. r = [to |-> n + One, lines |-> NewLines(p, b) + One, open |-> FALSE]
    BY <1>3, <1>6 DEF Round
  <2> HIDE DEF n
  <2>4. n \in Nat /\ b + 2 <= n /\ n <= End /\ n \in b..End
    BY <2>2, <1>2
  <2>5. c = [kind |-> "line", from |-> b]
    BY <1>6 DEF Opened
  <2>6. \A k \in b..(n - 1) : ~Over(c, k + 1)
    <3> SUFFICES ASSUME NEW k \in b..(n - 1) PROVE Char(k + 1 - 1) # "nl"
      BY <2>5 DEF Over
    <3>1. k + 1 - 1 = k /\ (k = b \/ k = b + 1 \/ k \in (b + 2)..(n - 1))
      BY <1>2, <2>4
    <3> QED BY <3>1, <1>6, <2>2
  <2>7. \A k \in b..n : CommentAt[k] = c
    BY <2>4, <2>6, <1>1, <1>4, CommentRun
  <2>8. \A k \in p..n : ~CodeAt(k)
    <3>1. \A k \in p..n : k \in p..(b - 1) \/ k \in b..n
      BY <1>2, <2>4
    <3> QED BY <3>1, <2>5, <2>7, <1>1 DEF CodeAt
  <2>9. CASE n = End
    <3>1. r.to = n /\ \A k \in p..(n - 1) : k \in p..n
      BY <2>3, <2>4, <2>9, <1>2
    <3> QED BY <3>1, <2>8, <2>9
  <2>10. CASE n # End
    <3>1. r.to = n + 1 /\ \A k \in p..(n + 1 - 1) : k \in p..n
      BY <2>3, <2>4, <2>10, <1>2
    <3>2. Char(n) = "nl" /\ n + 1 \in 1..End /\ n + 1 - 1 = n /\ n + 1 # 1 /\ n \in b..n
      BY <2>2, <2>4, <2>10, <1>2, AtEnd
    <3>3. Over(CommentAt[n], n + 1)
      BY <3>2, <2>5, <2>7 DEF Over
    <3>4. Fresh(n + 1)
      BY <3>2, <3>3, CommentUnfolded DEF Fresh
    <3>5. \A k \in p..(r.to - 1) : ~CodeAt(k)
      <4>1. r.to - 1 = n
        BY <3>1, <2>4
      <4> QED BY <2>8, <4>1
    <3> QED BY <3>1, <3>4, <3>5
  <2> QED BY <2>9, <2>10
<1>7. CASE ~(Char(b) = "/" /\ Char(b + 1) \in {"*", "/"})
  <2>1. r.to = b
    BY <1>3, <1>7 DEF Round
  <2> QED BY <2>1, <1>1, <1>4 DEF CodeAt
<1> QED BY <1>5, <1>6, <1>7

LEMMA SkipHidden ==
    ASSUME text \in Texts, PlainComments, NEW p \in 1..End, Fresh(p), ~Skip[p].open
    PROVE  /\ \A k \in p..(Skip[p].to - 1) : ~CodeAt(k)
           /\ Skip[p].to # End => Fresh(Skip[p].to)
<1> DEFINE Good(q, to) == /\ \A k \in q..(to - 1) : ~CodeAt(k)
                          /\ to # End => Fresh(to)
           D == 1..End
           m == [q \in D |-> End - q]
           T == {q \in D : Fresh(q) /\ ~Skip[q].open => Good(q, Skip[q].to)}
<1>1. m \in [D -> Nat]
  BY TextTyped
<1>2. \A q \in D : (\A r \in D : m[r] < m[q] => r \in T) => q \in T
  <2> SUFFICES ASSUME NEW q \in D, Fresh(q), ~Skip[q].open, \A r \in D : m[r] < m[q] => r \in T
               PROVE  Good(q, Skip[q].to)
    OBVIOUS
  <2>1. PICK r : r = Round(q, FirstOut(q, Blanks))
    OBVIOUS
  <2>2. Skip[q] = Onwards(q, r, Skip)
    BY <2>1, SkipUnfolded
  <2>3. /\ r.to \in q..End /\ r.open \in BOOLEAN
        /\ r.open => r.to = End
        /\ r.to = q => ~r.open
    BY <2>1, RoundDone
  <2>4. CASE r.to = q \/ r.open
    <3>1. Skip[q] = r
      BY <2>2, <2>4 DEF Onwards
    <3>2. ~r.open
      BY <3>1
    <3>3. Good(q, r.to)
      BY <2>1, <3>2, RoundHidden
    <3> QED BY <3>1, <3>3
  <2>5. CASE ~(r.to = q \/ r.open)
    <3>1. r.to \in D /\ q < r.to /\ q \in Nat /\ r.to \in Nat
      BY <2>3, <2>5, TextTyped
    <3>2. m[r.to] < m[q]
      BY <3>1, TextTyped
    <3>3. Good(q, r.to)
      BY <2>1, <2>5, RoundHidden
    <3>4. PICK s : s = Skip[r.to]
      OBVIOUS
    <3>5. /\ s = [to |-> s.to, lines |-> s.lines, open |-> s.open] /\ s.to \in r.to..End
          /\ s.open \in BOOLEAN /\ (~s.open => Char(s.to) \notin Blanks)
      BY <3>1, <3>4, SkipDone
    <3>6. Skip[q] = [s EXCEPT !.lines = @ + r.lines]
      BY <2>2, <2>5, <3>4 DEF Onwards
    <3>7. Skip[q].to = s.to /\ ~s.open
      BY <3>5, <3>6
    <3>8. CASE r.to = End
      <4>1. s.to = End
        BY <3>5, <3>8, TextTyped
      <4> QED BY <3>3, <3>7, <3>8, <4>1
    <3>9. CASE r.to # End
      <4>1. Good(r.to, s.to)
        <5>1. r.to \in T /\ Fresh(r.to)
          BY <3>1, <3>2, <3>3, <3>9
        <5> QED BY <5>1, <3>4, <3>7
      <4>2. s.to \in Nat /\ \A k \in q..(s.to - 1) : k \in q..(r.to - 1) \/ k \in r.to..(s.to - 1)
        BY <3>1, <3>5, TextTyped
      <4>3. \A k \in q..(s.to - 1) : ~CodeAt(k)
        BY <3>3, <4>1, <4>2
      <4> QED BY <3>7, <4>1, <4>3
    <3> QED BY <3>8, <3>9
  <2> QED BY <2>4, <2>5
<1>3. D \subseteq T
  <2> HIDE DEF D, m, T
  <2> QED BY <1>1, <1>2, MeasureInduction
<1> QED BY <1>3

TokenRange(x) == x.from..(x.to - 1)

\* A scan that reports nothing hides what is no code and returns the rest as a token.
LEMMA ScanHidden ==
    ASSUME text \in Texts, PlainComments, NEW p \in 1..End, p # End => Fresh(p), NEW line \in Nat,
           NEW t, t = Scan(p, line), ~t.message
    PROVE  /\ t.ptr # End => Fresh(t.ptr)
           /\ \A k \in p..(t.ptr - 1) : CodeAt(k) <=> t.valid /\ k \in TokenRange(t.token)
<1> DEFINE s == Skip[p]
<1>1. /\ s.to \in p..End /\ s.open \in BOOLEAN
      /\ s.open => s.to = End
      /\ ~s.open => /\ Char(s.to) \notin Blanks
                    /\ ~(Char(s.to) = "/" /\ Char(s.to + 1) \in {"*", "/"})
  BY SkipDone
<1>2. p \in Nat /\ End \in Nat /\ s.to \in 1..End /\ p <= s.to /\ s.to <= End /\ s.to \in Nat
  BY <1>1, TextTyped
<1>3. t = ScanBehind(s, line)
  BY DEF Scan
<1>4. ~s.open /\ p # End => /\ \A k \in p..(s.to - 1) : ~CodeAt(k)
                            /\ s.to # End => Fresh(s.to)
  BY SkipHidden
<1> HIDE DEF s
<1>5. CASE s.open \/ s.to = End
  <2>1. t = [ptr |-> s.to, loc |-> line + s.lines, valid |-> FALSE, message |-> s.open, token |-> <<>>]
    BY <1>3, <1>5 DEF ScanBehind
  <2>2. s.to = End /\ t.ptr = End /\ ~t.valid /\ t.message = s.open
    BY <1>1, <1>5, <2>1
  <2>3. CASE p = End
    <3>1. p..(t.ptr - 1) = {}
      BY <1>2, <2>2, <2>3
    <3> QED BY <2>2, <3>1
  <2>4. CASE p # End
    <3>1. ~s.open
      BY <2>2
    <3>2. \A k \in p..(s.to - 1) : ~CodeAt(k)
      BY <1>4, <2>4, <3>1
    <3>3. s.to = t.ptr
      BY <2>2
    <3>4. \A k \in p..(t.ptr - 1) : ~CodeAt(k)
      BY <3>2, <3>3
    <3> QED BY <2>2, <3>4
  <2> QED BY <2>3, <2>4
<1>6. CASE ~(s.open \/ s.to = End)
  <2> DEFINE e == TokenEnd(s.to)
  <2>1. ~Misnamed(s.to)
    <3> SUFFICES ASSUME Misnamed(s.to) PROVE t.message = TRUE
      OBVIOUS
    <3>1. t = [ptr |-> WordEnd(s.to), loc |-> line + s.lines, valid |-> FALSE, message |-> TRUE, token |-> <<>>]
      BY <1>3, <1>6 DEF ScanBehind
    <3> QED BY <3>1
  <2>2. t = [ptr |-> e, loc |-> line + s.lines, valid |-> TRUE, message |-> s.open,
             token |-> [from |-> s.to, to |-> e, loc |-> line + s.lines]]
    BY <1>3, <1>6, <2>1 DEF ScanBehind
  <2>3. /\ e \in (s.to + 1)..End
        /\ \A k \in s.to..(e - 1) : Char(k) \notin Blanks /\ (k # s.to => Char(k) # "/")
    BY <1>1, <1>2, <1>6, TokenDone
  <2> HIDE DEF e
  <2>4. e \in Nat /\ e \in s.to..End /\ s.to < e
    BY <2>3, <1>2
  <2>5. p # End
    BY <1>1, <1>2, <1>6
  <2>6. \A k \in s.to..(e - 1) : Opened(k) = "code"
    BY <1>1, <1>6, <2>3 DEF Opened
  <2>7. Fresh(e) /\ \A k \in s.to..(e - 1) : CommentAt[k].kind = "code"
    <3>1. PICK b \in 1..End : b = s.to
      BY <1>2
    <3>2. Fresh(b)
      BY <1>4, <1>6, <2>5, <3>1
    <3>3. e \in b..End /\ \A k \in b..(e - 1) : Opened(k) = "code"
      BY <2>4, <2>6, <3>1
    <3>4. Fresh(e) /\ \A k \in b..(e - 1) : CommentAt[k].kind = "code"
      BY <3>2, <3>3, CodeRun
    <3> QED BY <3>1, <3>4
  <2>8. TokenRange(t.token) = s.to..(e - 1) /\ t.ptr = e /\ t.valid
    BY <2>2 DEF TokenRange
  <2>9. \A k \in p..(e - 1) : k \in p..(s.to - 1) \/ k \in s.to..(e - 1)
    BY <1>2, <2>4
  <2>10. \A k \in p..(s.to - 1) : k \notin s.to..(e - 1)
    BY <1>2, <2>4
  <2>11. \A k \in p..(e - 1) : CodeAt(k) <=> k \in s.to..(e - 1)
    <3>1. \A k \in p..(s.to - 1) : ~CodeAt(k)
      BY <1>4, <1>6, <2>5
    <3>2. \A k \in s.to..(e - 1) : CodeAt(k)
      BY <2>3, <2>7 DEF CodeAt
    <3> QED BY <3>1, <3>2, <2>9, <2>10
  <2> QED BY <2>7, <2>8, <2>11
<1> QED BY <1>5, <1>6

\* The characters of the tokens of s, and the code in front of p.
CoveredBy(s) == UNION {TokenRange(s[k]) : k \in 1..Len(s)}
CodeBefore(p) == {k \in 1..(p - 1) : CodeAt(k)}

LEMMA CoveredAppend ==
    ASSUME NEW s \in Seq(Tokens), NEW x \in Tokens
    PROVE  CoveredBy(Append(s, x)) = CoveredBy(s) \cup TokenRange(x)
<1>1. /\ Len(Append(s, x)) = Len(s) + 1 /\ Len(s) \in Nat /\ Append(s, x)[Len(s) + 1] = x
      /\ \A k \in 1..Len(s) : Append(s, x)[k] = s[k]
  BY AppendProperties
<1>2. 1..Len(Append(s, x)) = (1..Len(s)) \cup {Len(s) + 1}
  BY <1>1
<1> QED BY <1>1, <1>2 DEF CoveredBy

LEMMA CoveredTail ==
    ASSUME NEW s \in Seq(Tokens), s # <<>>
    PROVE  CoveredBy(s) = TokenRange(s[1]) \cup CoveredBy(Tail(s))
<1>1. /\ Tail(s) \in Seq(Tokens) /\ Len(Tail(s)) = Len(s) - 1 /\ Len(s) \in Nat /\ Len(s) # 0
      /\ \A k \in 1..Len(Tail(s)) : Tail(s)[k] = s[k + 1]
  BY HeadTailProperties
<1>2. 1 \in 1..Len(s) /\ \A k \in 1..Len(Tail(s)) : k + 1 \in 1..Len(s)
  BY <1>1
<1>3. \A k \in 1..Len(s) : k = 1 \/ (k - 1 \in 1..Len(Tail(s)) /\ Tail(s)[k - 1] = s[k])
  <2> SUFFICES ASSUME NEW k \in 1..Len(s), k # 1 PROVE k - 1 \in 1..Len(Tail(s)) /\ Tail(s)[k - 1] = s[k]
    OBVIOUS
  <2>1. k - 1 \in 1..Len(Tail(s)) /\ (k - 1) + 1 = k
    BY <1>1
  <2> QED BY <2>1, <1>1
<1>4. CoveredBy(s) \subseteq TokenRange(s[1]) \cup CoveredBy(Tail(s))
  BY <1>3 DEF CoveredBy
<1>5. TokenRange(s[1]) \subseteq CoveredBy(s)
  BY <1>2 DEF CoveredBy
<1>6. CoveredBy(Tail(s)) \subseteq CoveredBy(s)
  BY <1>1, <1>2 DEF CoveredBy
<1> QED BY <1>4, <1>5, <1>6

LEMMA CoveredConcat ==
    ASSUME NEW s \in Seq(Tokens), NEW t \in Seq(Tokens)
    PROVE  CoveredBy(s \o t) = CoveredBy(s) \cup CoveredBy(t)
<1>1. /\ Len(s \o t) = Len(s) + Len(t) /\ Len(s) \in Nat /\ Len(t) \in Nat
      /\ \A i \in 1..(Len(s) + Len(t)) : (s \o t)[i] = IF i <= Len(s) THEN s[i] ELSE t[i - Len(s)]
  BY ConcatProperties
<1>2. \A k \in 1..Len(s) : k \in 1..Len(s \o t) /\ (s \o t)[k] = s[k]
  BY <1>1
<1>3. \A k \in 1..Len(t) : k + Len(s) \in 1..Len(s \o t) /\ (s \o t)[k + Len(s)] = t[k]
  <2> SUFFICES ASSUME NEW k \in 1..Len(t)
               PROVE  k + Len(s) \in 1..Len(s \o t) /\ (s \o t)[k + Len(s)] = t[k]
    OBVIOUS
  <2>1. k + Len(s) \in 1..(Len(s) + Len(t)) /\ ~(k + Len(s) <= Len(s)) /\ (k + Len(s)) - Len(s) = k
    BY <1>1
  <2> QED BY <2>1, <1>1
<1>4. \A k \in 1..Len(s \o t) :
         \/ k \in 1..Len(s) /\ (s \o t)[k] = s[k]
         \/ k - Len(s) \in 1..Len(t) /\ (s \o t)[k] = t[k - Len(s)]
  <2> TAKE k \in 1..Len(s \o t)
  <2>1. k \in 1..(Len(s) + Len(t)) /\ k \in Nat
    BY <1>1
  <2>2. IF k <= Len(s) THEN k \in 1..Len(s) ELSE k - Len(s) \in 1..Len(t)
    BY <2>1, <1>1
  <2> QED BY <2>1, <2>2, <1>1
<1>5. CoveredBy(s \o t) \subseteq CoveredBy(s) \cup CoveredBy(t)
  BY <1>4 DEF CoveredBy
<1>6. CoveredBy(s) \subseteq CoveredBy(s \o t)
  BY <1>2 DEF CoveredBy
<1>7. CoveredBy(t) \subseteq CoveredBy(s \o t)
  BY <1>3 DEF CoveredBy
<1> QED BY <1>5, <1>6, <1>7

\* As long as no message is out: no comment goes on behind what is scanned, and the tokens
\* are its code.
Showing(f) ==
    f.errors = 0 => /\ f.ptr # End => Fresh(f.ptr)
                    /\ CoveredBy(taken) \cup CoveredBy(f.buffered) = CodeBefore(f.ptr)

LEMMA ShowingStep ==
    ASSUME text \in Texts, PlainComments, NEW f \in FillStates, Showing(f)
    PROVE  Showing(OneMore(f))
<1> SUFFICES ASSUME f.more PROVE Showing(OneMore(f))
  BY DEF OneMore
<1>1. /\ f.ptr \in 1..End /\ f.loc \in Nat /\ f.buffered \in Seq(Tokens) /\ f.errors \in Nat
      /\ OneMore(f) \in FillStates
  BY OneMoreTyped DEF FillStates
<1>2. PICK t : t = Scan(f.ptr, f.loc)
  OBVIOUS
<1>3. PICK g \in FillStates : g = OneMore(f)
  BY <1>1
<1>4. /\ g = Buffered(f, t) /\ g.ptr = t.ptr
      /\ g.buffered = IF t.valid THEN Append(f.buffered, t.token) ELSE f.buffered
      /\ g.errors = IF t.message THEN f.errors + 1 ELSE f.errors
  BY <1>2, <1>3 DEF OneMore, Buffered
<1> SUFFICES ASSUME g.errors = 0
             PROVE  /\ g.ptr # End => Fresh(g.ptr)
                    /\ CoveredBy(taken) \cup CoveredBy(g.buffered) = CodeBefore(g.ptr)
  BY <1>3 DEF Showing
<1>5. ~t.message /\ f.errors = 0
  BY <1>1, <1>4
<1>6. /\ f.ptr # End => Fresh(f.ptr)
      /\ CoveredBy(taken) \cup CoveredBy(f.buffered) = CodeBefore(f.ptr)
  BY <1>5 DEF Showing
<1>7. /\ t.ptr # End => Fresh(t.ptr)
      /\ \A k \in f.ptr..(t.ptr - 1) : CodeAt(k) <=> t.valid /\ k \in TokenRange(t.token)
  BY <1>1, <1>2, <1>5, <1>6, ScanHidden
<1>8. /\ t.ptr \in f.ptr..End /\ t.valid \in BOOLEAN
      /\ t.valid => /\ t.token = [from |-> t.token.from, to |-> t.ptr,
                                  loc |-> f.loc + NewLines(f.ptr, t.token.from)]
                    /\ t.token.from \in f.ptr..End /\ t.ptr > f.ptr
  BY <1>1, <1>2, ScanDone DEF Scanned
<1>9. f.ptr \in Nat /\ t.ptr \in Nat /\ f.ptr <= t.ptr /\ 1 <= f.ptr /\ End \in Nat
  BY <1>1, <1>8, TextTyped
<1>10. CodeBefore(t.ptr) = CodeBefore(f.ptr) \cup {k \in f.ptr..(t.ptr - 1) : CodeAt(k)}
  <2>1. PICK a \in Nat, b \in Nat : a = f.ptr /\ b = t.ptr /\ 1 <= a /\ a <= b
    BY <1>9
  <2>2. 1..(b - 1) = (1..(a - 1)) \cup (a..(b - 1))
    BY <2>1
  <2> QED BY <2>1, <2>2 DEF CodeBefore
<1>11. CASE t.valid
  <2>1. t.token.to = t.ptr /\ t.token.from \in f.ptr..End
    BY <1>8, <1>11
  <2>2. PICK a \in Nat : a = t.token.from /\ f.ptr <= a
    BY <2>1, <1>9
  <2>3. TokenRange(t.token) = a..(t.ptr - 1)
    BY <2>1, <2>2 DEF TokenRange
  <2>4. TokenRange(t.token) \subseteq f.ptr..(t.ptr - 1)
    BY <2>2, <2>3, <1>9
  <2>5. {k \in f.ptr..(t.ptr - 1) : CodeAt(k)} = TokenRange(t.token)
    BY <2>4, <1>7, <1>11
  <2>6. t.token \in Tokens
    <3>1. NewLines(f.ptr, a) \in Nat /\ a \in 1..End /\ t.ptr \in 2..End
      <4>1. a \in 1..End /\ t.ptr \in 2..End
        BY <2>1, <2>2, <1>8, <1>9, <1>11
      <4> QED BY <4>1, <1>1, LinesTyped
    <3>2. f.loc + NewLines(f.ptr, a) \in Nat
      BY <3>1, <1>1
    <3>3. t.token = [from |-> a, to |-> t.ptr, loc |-> f.loc + NewLines(f.ptr, a)]
      BY <1>8, <1>11, <2>2
    <3> QED BY <3>1, <3>2, <3>3 DEF Tokens
  <2>7. CoveredBy(g.buffered) = CoveredBy(f.buffered) \cup TokenRange(t.token)
    BY <1>1, <1>4, <1>11, <2>6, CoveredAppend
  <2> QED BY <1>4, <1>6, <1>7, <1>10, <2>5, <2>7
<1>12. CASE ~t.valid
  <2>1. {k \in f.ptr..(t.ptr - 1) : CodeAt(k)} = {}
    BY <1>7, <1>12
  <2> QED BY <1>4, <1>6, <1>7, <1>10, <1>12, <2>1
<1> QED BY <1>8, <1>11, <1>12

LEMMA ShowingDone ==
    ASSUME Typed, loc = 1 + NewLines(1, ptr), PlainComments, Showing(Current), NEW n \in Nat
    PROVE  Showing(AfterScans[n])
<1> DEFINE m == [k \in Nat |-> k]
           T == {k \in Nat : Showing(AfterScans[k])}
<1>1. 0 \in T
  BY ScansUnfolded
<1>2. \A k \in Nat : (\A j \in Nat : m[j] < m[k] => j \in T) => k \in T
  <2> SUFFICES ASSUME NEW k \in Nat, k # 0, \A j \in Nat : j < k => j \in T PROVE k \in T
    BY <1>1
  <2>1. k - 1 \in Nat /\ k - 1 < k
    OBVIOUS
  <2>2. Showing(AfterScans[k - 1]) /\ AfterScans[k - 1] \in FillStates
    BY <2>1, FillingDone DEF Filling
  <2>3. Showing(OneMore(AfterScans[k - 1]))
    BY <2>2, ShowingStep DEF Typed
  <2>4. AfterScans[k] = OneMore(AfterScans[k - 1])
    BY ScansUnfolded
  <2> QED BY <2>3, <2>4
<1>3. Nat \subseteq T
  <2>1. m \in [Nat -> Nat]
    OBVIOUS
  <2> HIDE DEF m, T
  <2> QED BY <2>1, <1>2, MeasureInduction
<1> QED BY <1>3

HiddenInv ==
    PlainComments /\ errors = 0 => /\ ptr # End => Fresh(ptr)
                                   /\ CoveredBy(taken) \cup CoveredBy(buffered) = CodeBefore(ptr)

\* Where the comments are depends on the text alone.
LEMMA CommentsStay ==
    ASSUME text' = text
    PROVE  /\ PlainComments' = PlainComments
           /\ \A p : Fresh(p)' = Fresh(p)
           /\ \A p : CodeBefore(p)' = CodeBefore(p)
<1>1. CommentAt' = CommentAt
  BY DEF CommentAt, Over, Opened, Char, End
<1>2. \A p : Char(p)' = Char(p)
  BY DEF Char, End
<1>3. PlainComments' = PlainComments
  BY <1>1, <1>2 DEF PlainComments
<1>4. \A p : Fresh(p)' = Fresh(p)
  BY <1>1 DEF Fresh, Opened, Char, End
<1>5. \A p : CodeBefore(p)' = CodeBefore(p)
  BY <1>1 DEF CodeBefore, CodeAt, Char, End, Blanks
<1> QED BY <1>3, <1>4, <1>5

LEMMA HiddenInit == Init => HiddenInv
<1> SUFFICES ASSUME Init PROVE HiddenInv
  OBVIOUS
<1>1. text \in Texts /\ ptr = 1 /\ buffered = <<>> /\ taken = <<>>
  BY DEF Init
<1>2. Fresh(1)
  BY <1>1, FreshFirst
<1>3. CodeBefore(1) = {} /\ CoveredBy(<<>>) = {}
  BY DEF CodeBefore, CoveredBy
<1> QED BY <1>1, <1>2, <1>3 DEF HiddenInv

\* What filling the buffer finds.
LEMMA FilledShows ==
    ASSUME TokenInv, HiddenInv, PlainComments, NEW i \in 0..MaxAhead, NEW f, f = Filled(i)
    PROVE  Showing(f)
<1>1. Typed /\ loc = 1 + NewLines(1, ptr) /\ Len(buffered) \in Nat
  <2>1. End \in Nat
    BY TextTyped DEF TokenInv, TypeOK
  <2> QED BY <2>1 DEF TokenInv, Placed, TypeOK, Typed
<1>2. Missing(i) \in Nat
  BY <1>1 DEF Missing
<1>3. Showing(Current)
  BY DEF HiddenInv, Showing, Current
<1> QED BY <1>1, <1>2, <1>3, ShowingDone DEF Filled

LEMMA HiddenNext == TokenInv /\ HiddenInv /\ [Next]_vars => HiddenInv'
<1> SUFFICES ASSUME TokenInv, HiddenInv, [Next]_vars, text' = text, PlainComments, errors' = 0
             PROVE  /\ ptr' # End => Fresh(ptr')
                    /\ CoveredBy(taken') \cup CoveredBy(buffered') = CodeBefore(ptr')
  <2>1. ASSUME [Next]_vars PROVE text' = text
    BY <2>1 DEF Next, Get, Peek, vars
  <2>2. ASSUME text' = text PROVE End' = End
    BY <2>2 DEF End
  <2> QED BY <2>1, <2>2, CommentsStay DEF HiddenInv, CoveredBy, TokenRange, Fresh, Opened, Char, CodeBefore, CodeAt, Blanks, CommentAt, Over, End
<1>1. ASSUME NEW i \in 0..MaxAhead, Peek(i)
      PROVE  /\ ptr' # End => Fresh(ptr')
             /\ CoveredBy(taken') \cup CoveredBy(buffered') = CodeBefore(ptr')
  <2>1. PICK f : /\ f = Filled(i) /\ ptr' = f.ptr /\ buffered' = f.buffered /\ errors' = f.errors
                 /\ taken' = taken
    BY <1>1 DEF Peek
  <2>2. Showing(f)
    BY <2>1, FilledShows
  <2> QED BY <2>1, <2>2 DEF Showing
<1>2. CASE Get
  <2>1. PICK f : /\ f = Filled(0) /\ ptr' = f.ptr /\ errors' = f.errors /\ buffered' = Erased(f.buffered)
                 /\ taken' = (IF f.buffered = <<>> THEN taken ELSE Append(taken, f.buffered[1]))
    BY <1>2 DEF Get
  <2>2. 0 \in 0..MaxAhead
    BY AheadAssumption
  <2>3. /\ f.ptr # End => Fresh(f.ptr)
        /\ CoveredBy(taken) \cup CoveredBy(f.buffered) = CodeBefore(f.ptr)
    BY <2>1, <2>2, FilledShows DEF Showing
  <2>4. f.buffered \in Seq(Tokens) /\ taken \in Seq(Tokens)
    BY <2>1, <2>2, FilledDone DEF TokenInv, TypeOK
  <2>5. CASE f.buffered = <<>>
    BY <2>1, <2>3, <2>5 DEF Erased
  <2>6. CASE f.buffered # <<>>
    <3>1. PICK b \in Seq(Tokens) : b = f.buffered /\ b # <<>>
      BY <2>4, <2>6
    <3>2. buffered' = Tail(b) /\ taken' = Append(taken, b[1]) /\ b[1] \in Tokens
      BY <2>1, <3>1 DEF Erased
    <3>3. CoveredBy(taken') = CoveredBy(taken) \cup TokenRange(b[1])
      BY <3>2, <2>4, CoveredAppend
    <3>4. CoveredBy(b) = TokenRange(b[1]) \cup CoveredBy(buffered')
      BY <3>1, <3>2, CoveredTail
    <3> QED BY <2>1, <2>3, <3>1, <3>3, <3>4
  <2> QED BY <2>5, <2>6
<1>3. CASE UNCHANGED vars
  BY <1>3 DEF vars, HiddenInv
<1> QED BY <1>1, <1>2, <1>3 DEF Next

\* In every text whose block comments hold no "/" but the one that ends them, the tokens
\* scanned so far are the code of the text and nothing of its comments, whatever order
\* the parser peeks and takes in, unless a message says that some of it is no token.
THEOREM CommentsStayHidden == Spec => []PlainCommentsHidden
<1>1. TokenInv /\ HiddenInv => PlainCommentsHidden
  <2> SUFFICES ASSUME TokenInv, HiddenInv, PlainComments, errors = 0 PROVE Covered = Code
    BY DEF PlainCommentsHidden, CommentsHidden
  <2>1. taken \in Seq(Tokens) /\ buffered \in Seq(Tokens)
    BY DEF TokenInv, TypeOK
  <2>2. CoveredBy(Known) = CodeBefore(ptr)
    BY <2>1, CoveredConcat DEF HiddenInv, Known
  <2>3. Covered = CoveredBy(Known)
    <3>1. Known \in Seq(Tokens) /\ DOMAIN Known = 1..Len(Known)
      BY <2>1 DEF Known
    <3> QED BY <3>1 DEF Covered, CoveredBy, TokenRange
  <2> QED BY <2>2, <2>3 DEF Code, CodeBefore, CodeAt
<1> QED BY <1>1, InitInv, NextInv, HiddenInit, HiddenNext, PTL DEF Spec
=============================================================================
