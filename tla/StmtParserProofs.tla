-------------------------- MODULE StmtParserProofs --------------------------
(***************************************************************************)
(* The statement parser on any text: the parse functions end, they stay    *)
(* within the text, they refuse nothing in silence, they accept every      *)
(* function body of the grammar and nothing else, and the trees of what    *)
(* they read are what stands there.                                        *)
(***************************************************************************)
EXTENDS StmtParser, SequenceTheorems, WellFoundedInduction, TLAPS

-----------------------------------------------------------------------------
(* Induction along a measure, with a set in the place of the predicate.    *)

\* A set of numbers that is not empty has a least one.
LEMMA LeastNumber ==
    ASSUME NEW T, T \subseteq Nat, T # {}
    PROVE  \E x \in T : \A y \in T : x <= y
<1>1. PICK x \in T : \A y \in T : <<y, x>> \notin OpToRel(<, Nat)
  BY NatLessThanWellFounded, WFMin
<1>2. ASSUME NEW y \in T PROVE x <= y
  <2>1. ~(y < x)
    BY <1>1 DEF OpToRel
  <2> QED BY <2>1
<1> QED BY <1>2

\* What holds at q if it holds wherever the measure is smaller holds everywhere.
LEMMA MeasureInduction ==
    ASSUME NEW D, NEW m \in [D -> Nat], NEW T,
           \A q \in D : (\A r \in D : m[r] < m[q] => r \in T) => q \in T
    PROVE  D \subseteq T
<1> SUFFICES ASSUME NEW p \in D, p \notin T PROVE FALSE
  OBVIOUS
<1> DEFINE Bad == {m[q] : q \in D \ T}
<1>1. Bad \subseteq Nat /\ Bad # {}
  OBVIOUS
<1>2. PICK x \in Bad : \A y \in Bad : x <= y
  BY <1>1, LeastNumber
<1>3. PICK q \in D \ T : x = m[q]
  BY <1>2
<1>4. \A r \in D : m[r] < m[q] => r \in T
  <2> TAKE r \in D
  <2> SUFFICES ASSUME r \notin T PROVE ~(m[r] < m[q])
    OBVIOUS
  <2>1. m[r] \in Bad /\ m[r] \in Nat /\ m[q] \in Nat
    OBVIOUS
  <2>2. m[q] <= m[r]
    <3> HIDE DEF Bad
    <3> QED BY <2>1, <1>2, <1>3
  <2> QED BY <2>1, <2>2
<1> QED BY <1>3, <1>4

-----------------------------------------------------------------------------
(* The parse functions end: a call only needs calls further on in the text, *)
(* or calls of a lower rank at the same token.                              *)

Kinds == {"inner", "alone", "rest", "domain"}
Rank(what) == IF what = "domain" THEN 2 ELSE IF what = "rest" THEN 1 ELSE 0
Left(p) == IF p <= Len(tokens) THEN Len(tokens) + 1 - p ELSE 0
Cost(c) == 4 * Left(c[2]) + Rank(c[1])

\* What holds of the result of every call: a statement that is read moves on.
Sound(p, r) ==
    /\ r.ok \in BOOLEAN /\ r.said \in BOOLEAN /\ r.wrong \in BOOLEAN
    /\ r.next \in Nat /\ p <= r.next /\ (p <= Len(tokens) + 1 => r.next <= Len(tokens) + 1)
Moves(p, r) == r.ok => p < r.next /\ p <= Len(tokens)
Fine(c, r) == Sound(c[2], r) /\ (c[1] \in {"inner", "alone"} => Moves(c[2], r))

\* Two functions give the calls behind p the same results.
Same(S, R, p) == \A d \in Calls : d[2] > p => S[d] = R[d] /\ Fine(d, S[d])

LEMMA CallIs ==
    ASSUME NEW what \in Kinds, NEW p \in Places
    PROVE  <<what, p>> \in Calls /\ <<what, p>>[1] = what /\ <<what, p>>[2] = p
BY DEF Calls, Kinds, Places

LEMMA CostIs ==
    ASSUME tokens \in Seq(Tokens), NEW what \in Kinds, NEW p \in Places
    PROVE  /\ Cost(<<what, p>>) \in Nat
           /\ \A k \in Kinds, q \in Places : p <= Len(tokens) /\ q > p => Cost(<<k, q>>) < Cost(<<what, p>>)
           /\ \A k \in Kinds : Rank(k) < Rank(what) => Cost(<<k, p>>) < Cost(<<what, p>>)
<1>1. Len(tokens) \in Nat
  OBVIOUS
<1>2. \A k \in Kinds : Rank(k) \in 0..2
  BY DEF Rank, Kinds
<1>3. \A q \in Places : Left(q) \in Nat
  BY <1>1 DEF Left, Places
<1>4. \A k \in Kinds, q \in Places : Cost(<<k, q>>) = 4 * Left(q) + Rank(k)
  BY DEF Cost
<1>5. \A q \in Places : p <= Len(tokens) /\ q > p => Left(q) < Left(p)
  BY <1>1 DEF Left, Places
<1>6. ASSUME NEW k \in Kinds, NEW q \in Places, Left(q) < Left(p)
      PROVE  Cost(<<k, q>>) < Cost(<<what, p>>)
  <2>1. PICK x \in Nat : x = Left(q)
    BY <1>3
  <2>2. PICK y \in Nat : y = Left(p)
    BY <1>3
  <2>3. Rank(k) \in 0..2 /\ Rank(what) \in 0..2
    BY <1>2
  <2>4. 4 * x + Rank(k) < 4 * y + Rank(what)
    BY <1>6, <2>1, <2>2, <2>3
  <2> QED BY <1>4, <2>1, <2>2, <2>4
<1>7. ASSUME NEW k \in Kinds, Rank(k) < Rank(what)
      PROVE  Cost(<<k, p>>) < Cost(<<what, p>>)
  <2>1. PICK y \in Nat : y = Left(p)
    BY <1>3
  <2>2. Rank(k) \in 0..2 /\ Rank(what) \in 0..2
    BY <1>2
  <2>3. 4 * y + Rank(k) < 4 * y + Rank(what)
    BY <1>7, <2>1, <2>2
  <2> QED BY <1>4, <2>1, <2>3
<1>8. Cost(<<what, p>>) \in Nat
  BY <1>2, <1>3, <1>4
<1> QED BY <1>5, <1>6, <1>7, <1>8

\* The results made from others.
LEMMA OkSound ==
    ASSUME NEW p \in Nat, NEW next \in Nat, NEW tree, NEW wrong \in BOOLEAN,
           p <= next, p <= Len(tokens) + 1 => next <= Len(tokens) + 1
    PROVE  /\ Sound(p, Ok(next, tree, wrong)) /\ Ok(next, tree, wrong).ok /\ ~Ok(next, tree, wrong).said
           /\ Ok(next, tree, wrong).next = next /\ Ok(next, tree, wrong).tree = tree
           /\ Ok(next, tree, wrong).wrong = wrong
           /\ p < next /\ p <= Len(tokens) => Moves(p, Ok(next, tree, wrong))
<1>1. PICK r : r = Ok(next, tree, wrong)
  OBVIOUS
<1>2. r.ok = TRUE /\ r.said = FALSE /\ r.next = next /\ r.tree = tree /\ r.wrong = wrong
  BY <1>1 DEF Ok
<1>3. Sound(p, r) /\ (p < next /\ p <= Len(tokens) => Moves(p, r))
  BY <1>2 DEF Sound, Moves
<1> QED BY <1>1, <1>2, <1>3

LEMMA FailedSound ==
    ASSUME NEW p \in Nat, NEW next \in Nat, NEW said \in BOOLEAN, NEW wrong \in BOOLEAN,
           p <= next, p <= Len(tokens) + 1 => next <= Len(tokens) + 1
    PROVE  /\ Sound(p, Failed(next, said, wrong)) /\ Moves(p, Failed(next, said, wrong))
           /\ ~Failed(next, said, wrong).ok /\ Failed(next, said, wrong).said = said
           /\ Failed(next, said, wrong).next = next /\ Failed(next, said, wrong).wrong = wrong
<1>1. PICK r : r = Failed(next, said, wrong)
  OBVIOUS
<1>2. r.ok = FALSE /\ r.said = said /\ r.next = next /\ r.wrong = wrong
  BY <1>1 DEF Failed
<1>3. Sound(p, r) /\ Moves(p, r)
  BY <1>2 DEF Sound, Moves
<1> QED BY <1>1, <1>2, <1>3

LEMMA TokenAt ==
    ASSUME tokens \in Seq(Tokens), NEW p \in Places
    PROVE  /\ Len(tokens) \in Nat
           /\ p <= Len(tokens) => Token(p) = tokens[p] /\ Token(p) \in Tokens /\ Token(p) # "eof"
           /\ p > Len(tokens) => Token(p) = "eof"
<1>1. Len(tokens) \in Nat
  OBVIOUS
<1>2. ASSUME p <= Len(tokens) PROVE tokens[p] \in Tokens
  <2>1. p \in 1..Len(tokens)
    BY <1>1, <1>2 DEF Places
  <2> QED BY <2>1
<1>3. "eof" \notin Tokens
  BY DEF Tokens
<1> QED BY <1>1, <1>2, <1>3 DEF Token, Places

LEMMA AloneSound ==
    ASSUME NEW p \in Places, NEW s, Sound(p, s), Moves(p, s)
    PROVE  Sound(p, Alone(s)) /\ Moves(p, Alone(s)) /\ (s.ok => Alone(s) = s) /\ (~s.ok => ~Alone(s).ok /\ Alone(s).said)
<1>1. CASE s.ok
  BY <1>1 DEF Alone
<1>2. CASE ~s.ok
  <2>1. Alone(s) = Failed(s.next, TRUE, s.wrong)
    BY <1>2 DEF Alone
  <2>2. p \in Nat /\ s.next \in Nat /\ s.wrong \in BOOLEAN /\ TRUE \in BOOLEAN
    BY DEF Sound, Places
  <2>3. p <= s.next /\ (p <= Len(tokens) + 1 => s.next <= Len(tokens) + 1)
    BY DEF Sound
  <2>4. PICK n \in Nat, w \in BOOLEAN : n = s.next /\ w = s.wrong
    BY <2>2
  <2>5. Alone(s) = Failed(n, TRUE, w)
    BY <2>1, <2>4
  <2>6. p <= n /\ (p <= Len(tokens) + 1 => n <= Len(tokens) + 1)
    BY <2>3, <2>4
  <2>7. /\ Sound(p, Failed(n, TRUE, w)) /\ Moves(p, Failed(n, TRUE, w)) /\ ~Failed(n, TRUE, w).ok
        /\ Failed(n, TRUE, w).said = TRUE
    BY <2>2, <2>6, FailedSound
  <2> QED BY <1>2, <2>5, <2>7
<1> QED BY <1>1, <1>2

LEMMA BranchEndSound ==
    ASSUME tokens \in Seq(Tokens), NEW p \in Places, p <= Len(tokens), NEW d, Sound(p + 1, d)
    PROVE  /\ Sound(p, BranchEnd(d)) /\ Moves(p, BranchEnd(d))
           /\ ~d.ok => BranchEnd(d) = d
           /\ d.ok => BranchEnd(d).ok
           /\ d.ok /\ ~BranchEnd(d).wrong => /\ ~d.wrong /\ Token(d.next) = "rbrace" /\ BranchEnd(d).next = d.next + 1
<1>1. Len(tokens) \in Nat /\ p \in Nat /\ d.next \in Nat /\ p + 1 <= d.next /\ d.next <= Len(tokens) + 1
  BY TokenAt DEF Sound, Places
<1>2. CASE ~d.ok
  <2>1. BranchEnd(d) = d
    BY <1>2 DEF BranchEnd
  <2>2. d.ok \in BOOLEAN /\ d.said \in BOOLEAN /\ d.wrong \in BOOLEAN
    BY DEF Sound
  <2>3. p <= d.next
    BY <1>1
  <2>4. Sound(p, d)
    BY <1>1, <2>2, <2>3 DEF Sound
  <2>5. Moves(p, d)
    BY <1>2 DEF Moves
  <2> QED BY <1>2, <2>1, <2>4, <2>5
<1>3. CASE d.ok
  <2> DEFINE next == Past(d.next)
             w == d.wrong \/ Token(d.next) # "rbrace"
  <2>1. BranchEnd(d) = Ok(next, <<"block", d.tree>>, w)
    BY <1>3 DEF BranchEnd
  <2>2. d.next \in Places /\ next \in Nat /\ p < next
    BY <1>1 DEF Places, Past
  <2>3. next <= Len(tokens) + 1
    <3>1. d.next > Len(tokens) => Token(d.next) = "eof"
      BY <2>2, TokenAt
    <3> QED BY <3>1, <1>1 DEF Past
  <2>4. d.wrong \in BOOLEAN
    BY DEF Sound
  <2>5. PICK o \in BOOLEAN : o <=> w
    OBVIOUS
  <2>6. w = o
    BY <2>4, <2>5
  <2>7. PICK t : t = <<"block", d.tree>>
    OBVIOUS
  <2>8. BranchEnd(d) = Ok(next, t, o)
    BY <2>1, <2>6, <2>7
  <2>9. ~w => ~d.wrong /\ Token(d.next) = "rbrace" /\ next = d.next + 1
    <3>1. "rbrace" # "eof"
      OBVIOUS
    <3> QED BY <3>1 DEF Past
  <2> HIDE DEF next, w
  <2>10. /\ Sound(p, BranchEnd(d)) /\ BranchEnd(d).ok /\ BranchEnd(d).next = next /\ BranchEnd(d).wrong = o
         /\ Moves(p, BranchEnd(d))
    BY <1>1, <2>2, <2>3, <2>8, OkSound
  <2> QED BY <1>3, <2>5, <2>9, <2>10
<1> QED BY <1>2, <1>3

LEMMA BranchSound ==
    ASSUME tokens \in Seq(Tokens), NEW p0 \in Places, NEW p \in Places, p > p0, NEW S, NEW R, Same(S, R, p0)
    PROVE  Branch(S, p) = Branch(R, p) /\ Sound(p, Branch(S, p)) /\ Moves(p, Branch(S, p))
<1>1. p + 1 \in Places /\ p + 1 > p0
  BY DEF Places
<1>2. CASE Token(p) = "lbrace"
  <2>1. <<"domain", p + 1>> \in Calls /\ <<"domain", p + 1>>[2] = p + 1
    BY <1>1, CallIs DEF Kinds
  <2>2. S[<<"domain", p + 1>>] = R[<<"domain", p + 1>>] /\ Sound(p + 1, S[<<"domain", p + 1>>])
    BY <1>1, <2>1 DEF Same, Fine
  <2>3. p <= Len(tokens)
    <3>1. "lbrace" # "eof"
      OBVIOUS
    <3>2. p \in Nat /\ Len(tokens) \in Nat
      BY TokenAt DEF Places
    <3>3. ~(p > Len(tokens))
      BY <1>2, <3>1, TokenAt
    <3> QED BY <3>2, <3>3
  <2> QED BY <1>2, <2>2, <2>3, BranchEndSound DEF Branch
<1>3. CASE Token(p) # "lbrace"
  <2>1. <<"alone", p>> \in Calls /\ <<"alone", p>>[1] = "alone" /\ <<"alone", p>>[2] = p
    BY CallIs DEF Kinds
  <2>2. S[<<"alone", p>>] = R[<<"alone", p>>] /\ Sound(p, S[<<"alone", p>>]) /\ Moves(p, S[<<"alone", p>>])
    BY <2>1 DEF Same, Fine
  <2> QED BY <1>3, <2>2, AloneSound DEF Branch
<1> QED BY <1>2, <1>3

\* A result made at p, of something that began before.
LEMMA SoundBefore ==
    ASSUME NEW p0 \in Places, NEW p \in Places, p0 < p, p <= Len(tokens) + 1, Len(tokens) \in Nat,
           NEW r, Sound(p, r)
    PROVE  Sound(p0, r) /\ Moves(p0, r)
BY DEF Sound, Moves, Places

LEMMA IfSound ==
    ASSUME tokens \in Seq(Tokens), NEW p0 \in Places, p0 <= Len(tokens), NEW S, NEW R, Same(S, R, p0)
    PROVE  /\ IfParse(S, p0 + 1) = IfParse(R, p0 + 1)
           /\ Sound(p0, IfParse(S, p0 + 1)) /\ Moves(p0, IfParse(S, p0 + 1))
<1>1. Len(tokens) \in Nat /\ p0 + 1 \in Places /\ p0 + 1 > p0 /\ p0 + 1 <= Len(tokens) + 1
  BY TokenAt DEF Places
<1>2. PICK t : t = Branch(S, p0 + 1)
  OBVIOUS
<1>3. t = Branch(R, p0 + 1) /\ Sound(p0 + 1, t) /\ Moves(p0 + 1, t)
  BY <1>1, <1>2, BranchSound
<1>4. Sound(p0, t) /\ Moves(p0, t)
  BY <1>1, <1>3, SoundBefore
<1>5. t.next \in Places /\ t.next <= Len(tokens) + 1 /\ t.next >= p0 + 1 /\ t.wrong \in BOOLEAN
  BY <1>1, <1>3 DEF Sound, Places
<1>6. CASE ~t.ok
  <2>1. IfParse(S, p0 + 1) = t /\ IfParse(R, p0 + 1) = t
    BY <1>2, <1>3, <1>6 DEF IfParse
  <2> QED BY <1>4, <2>1
<1>7. CASE t.ok /\ Token(t.next) # "else"
  <2>1. PICK x : x = <<"if", t.tree>>
    OBVIOUS
  <2>2. IfParse(S, p0 + 1) = Ok(t.next, x, t.wrong) /\ IfParse(R, p0 + 1) = Ok(t.next, x, t.wrong)
    BY <1>2, <1>3, <1>7, <2>1 DEF IfParse
  <2>3. p0 \in Nat /\ t.next \in Nat /\ p0 <= t.next /\ p0 < t.next
    BY <1>5 DEF Places
  <2> QED BY <1>5, <2>2, <2>3, OkSound
<1>8. CASE t.ok /\ Token(t.next) = "else"
  <2>1. t.next <= Len(tokens)
    <3>1. "else" # "eof"
      OBVIOUS
    <3> QED BY <1>1, <1>5, <1>8, <3>1, TokenAt DEF Places
  <2>2. t.next + 1 \in Places /\ t.next + 1 > p0 /\ t.next + 1 <= Len(tokens) + 1
    BY <1>1, <1>5, <2>1 DEF Places
  <2>3. PICK e : e = Branch(S, t.next + 1)
    OBVIOUS
  <2>4. e = Branch(R, t.next + 1) /\ Sound(t.next + 1, e)
    BY <2>2, <2>3, BranchSound
  <2>5. Sound(p0, e) /\ Moves(p0, e)
    BY <1>1, <2>2, <2>4, SoundBefore
  <2>6. IfParse(S, p0 + 1) = IfElse(t, e) /\ IfParse(R, p0 + 1) = IfElse(t, e)
    BY <1>2, <1>3, <1>8, <2>3, <2>4 DEF IfParse
  <2>7. CASE ~e.ok
    <3>1. IfElse(t, e) = e
      BY <2>7 DEF IfElse
    <3> QED BY <2>5, <2>6, <3>1
  <2>8. CASE e.ok
    <3>1. PICK x : x = <<"if", t.tree, e.tree>>
      OBVIOUS
    <3>2. e.wrong \in BOOLEAN /\ e.next \in Nat /\ p0 < e.next /\ e.next <= Len(tokens) + 1
      BY <2>2, <2>4 DEF Sound, Places
    <3>3. PICK o \in BOOLEAN : o = (t.wrong \/ e.wrong)
      BY <1>5, <3>2
    <3>4. IfElse(t, e) = Ok(e.next, x, o)
      BY <2>8, <3>1, <3>3 DEF IfElse
    <3>5. p0 \in Nat /\ p0 <= e.next
      BY <3>2 DEF Places
    <3> QED BY <2>6, <3>2, <3>4, <3>5, OkSound
  <2> QED BY <2>7, <2>8
<1> QED BY <1>6, <1>7, <1>8

LEMMA ForSound ==
    ASSUME tokens \in Seq(Tokens), NEW p0 \in Places, p0 <= Len(tokens), NEW S, NEW R, Same(S, R, p0)
    PROVE  /\ ForParse(S, p0 + 1) = ForParse(R, p0 + 1)
           /\ Sound(p0, ForParse(S, p0 + 1)) /\ Moves(p0, ForParse(S, p0 + 1))
<1>1. Len(tokens) \in Nat /\ p0 + 1 \in Places /\ p0 + 1 > p0 /\ p0 + 1 <= Len(tokens) + 1
  BY TokenAt DEF Places
<1>2. <<"alone", p0 + 1>> \in Calls /\ <<"alone", p0 + 1>>[1] = "alone" /\ <<"alone", p0 + 1>>[2] = p0 + 1
  BY <1>1, CallIs DEF Kinds
<1>3. PICK s : s = S[<<"alone", p0 + 1>>]
  OBVIOUS
<1>4. s = R[<<"alone", p0 + 1>>] /\ Sound(p0 + 1, s) /\ Moves(p0 + 1, s)
  BY <1>1, <1>2, <1>3 DEF Same, Fine
<1>5. Sound(p0, s) /\ Moves(p0, s)
  BY <1>1, <1>4, SoundBefore
<1>6. /\ p0 \in Nat /\ s.next \in Places /\ p0 < s.next /\ p0 <= s.next /\ s.next <= Len(tokens) + 1
      /\ s.wrong \in BOOLEAN
  BY <1>1, <1>4 DEF Sound, Places
<1>7. PICK n \in Places, w \in BOOLEAN : n = s.next /\ w = s.wrong
  BY <1>6
<1>8. CASE ~s.ok
  <2>1. ForParse(S, p0 + 1) = Failed(Past(n), TRUE, w) /\ ForParse(R, p0 + 1) = Failed(Past(n), TRUE, w)
    BY <1>3, <1>4, <1>7, <1>8 DEF ForParse
  <2>2. n > Len(tokens) => Token(n) = "eof"
    BY TokenAt
  <2>3. n \in Nat /\ n <= Len(tokens) + 1 /\ p0 <= n
    BY <1>6, <1>7 DEF Places
  <2>4. PICK m : m = Past(n)
    OBVIOUS
  <2>5. m \in Nat /\ p0 <= m /\ m <= Len(tokens) + 1
    BY <1>1, <1>6, <2>2, <2>3, <2>4 DEF Past
  <2>6. Sound(p0, Failed(m, TRUE, w)) /\ Moves(p0, Failed(m, TRUE, w))
    BY <1>6, <2>5, FailedSound
  <2> QED BY <2>1, <2>4, <2>6
<1>9. CASE s.ok
  <2>1. PICK x : x = <<"for", s.tree>>
    OBVIOUS
  <2>2. ForParse(S, p0 + 1) = Ok(n, x, w) /\ ForParse(R, p0 + 1) = Ok(n, x, w)
    BY <1>3, <1>4, <1>7, <1>9, <2>1 DEF ForParse
  <2>3. n \in Nat /\ p0 < n /\ p0 <= n /\ n <= Len(tokens) + 1 /\ p0 <= Len(tokens)
    BY <1>6, <1>7 DEF Places
  <2> QED BY <1>6, <2>2, <2>3, OkSound
<1> QED BY <1>8, <1>9

LEMMA SingleSound ==
    ASSUME tokens \in Seq(Tokens), NEW p \in Places, NEW e \in {"rbrace", "semicolon"}, NEW S, NEW R,
           p <= Len(tokens) => Same(S, R, p)
    PROVE  /\ Single(S, p, e) = Single(R, p, e)
           /\ Sound(p, Single(S, p, e)) /\ Moves(p, Single(S, p, e))
<1>0. Len(tokens) \in Nat
  OBVIOUS
<1>1. Len(tokens) \in Nat /\ p \in Nat /\ p + 1 \in Nat
  BY <1>0 DEF Places
<1>2. Token(p) \in Tokens => p <= Len(tokens)
  <2>1. "eof" \notin Tokens
    BY DEF Tokens
  <2>2. p > Len(tokens) => Token(p) = "eof"
    BY TokenAt
  <2> QED BY <1>1, <2>1, <2>2
<1>3. PICK r : r = Single(S, p, e)
  OBVIOUS
<1>4. CASE Token(p) \in {"eof", e} \/ Token(p) \notin {"stmt", "cut", "if", "for"}
  <2>1. PICK said \in BOOLEAN : said <=> Token(p) \notin {"eof", e}
    OBVIOUS
  <2>2. r = Failed(p, said, FALSE) /\ Single(R, p, e) = Failed(p, said, FALSE)
    BY <1>3, <1>4, <2>1 DEF Single
  <2>3. p <= p /\ FALSE \in BOOLEAN /\ (p <= Len(tokens) + 1 => p <= Len(tokens) + 1)
    BY <1>1
  <2>4. Sound(p, Failed(p, said, FALSE)) /\ Moves(p, Failed(p, said, FALSE))
    BY <1>1, <2>1, <2>3, FailedSound
  <2> QED BY <1>3, <2>2, <2>4
<1>5. CASE Token(p) = "stmt"
  <2>1. PICK x : x = <<"stmt">>
    OBVIOUS
  <2>2. r = Ok(p + 1, x, FALSE) /\ Single(R, p, e) = Ok(p + 1, x, FALSE)
    BY <1>3, <1>5, <2>1 DEF Single
  <2>3. p <= Len(tokens)
    BY <1>2, <1>5 DEF Tokens
  <2>4. p <= p + 1 /\ p < p + 1 /\ p + 1 <= Len(tokens) + 1 /\ FALSE \in BOOLEAN
    BY <1>1, <2>3
  <2>5. Sound(p, Ok(p + 1, x, FALSE)) /\ Moves(p, Ok(p + 1, x, FALSE))
    BY <1>1, <2>3, <2>4, OkSound
  <2> QED BY <1>3, <2>2, <2>5
<1>6. CASE Token(p) = "cut"
  <2>1. r = Failed(p + 1, FALSE, FALSE) /\ Single(R, p, e) = Failed(p + 1, FALSE, FALSE)
    BY <1>3, <1>6 DEF Single
  <2>2. p <= Len(tokens)
    BY <1>2, <1>6 DEF Tokens
  <2>3. p <= p + 1 /\ p + 1 <= Len(tokens) + 1 /\ FALSE \in BOOLEAN
    BY <1>1, <2>2
  <2>4. Sound(p, Failed(p + 1, FALSE, FALSE)) /\ Moves(p, Failed(p + 1, FALSE, FALSE))
    BY <1>1, <2>3, FailedSound
  <2> QED BY <1>3, <2>1, <2>4
<1>7. CASE Token(p) = "if"
  <2>1. r = IfParse(S, p + 1) /\ Single(R, p, e) = IfParse(R, p + 1)
    BY <1>3, <1>7 DEF Single
  <2>2. p <= Len(tokens)
    BY <1>2, <1>7 DEF Tokens
  <2> QED BY <1>3, <2>1, <2>2, IfSound
<1>8. CASE Token(p) = "for"
  <2>1. r = ForParse(S, p + 1) /\ Single(R, p, e) = ForParse(R, p + 1)
    BY <1>3, <1>8 DEF Single
  <2>2. p <= Len(tokens)
    BY <1>2, <1>8 DEF Tokens
  <2> QED BY <1>3, <2>1, <2>2, ForSound
<1> QED BY <1>4, <1>5, <1>6, <1>7, <1>8

\* The calls that c needs.
Agree(S, R, c) == \A d \in Calls : Cost(d) < Cost(c) => S[d] = R[d] /\ Fine(d, S[d])

LEMMA AgreeIs ==
    ASSUME tokens \in Seq(Tokens), NEW what \in Kinds, NEW p \in Places, NEW S, NEW R, Agree(S, R, <<what, p>>)
    PROVE  /\ p <= Len(tokens) => Same(S, R, p)
           /\ \A k \in Kinds : Rank(k) < Rank(what) =>
                 S[<<k, p>>] = R[<<k, p>>] /\ Sound(p, S[<<k, p>>]) /\ (k = "inner" => Moves(p, S[<<k, p>>]))
<1>1. ASSUME p <= Len(tokens), NEW d \in Calls, d[2] > p PROVE S[d] = R[d] /\ Fine(d, S[d])
  <2>1. PICK k \in Kinds, q \in Places : d = <<k, q>>
    BY DEF Calls, Kinds, Places
  <2>2. q > p
    BY <1>1, <2>1
  <2>3. Cost(d) < Cost(<<what, p>>)
    BY <1>1, <2>1, <2>2, CostIs
  <2> QED BY <2>3 DEF Agree
<1>2. ASSUME NEW k \in Kinds, Rank(k) < Rank(what)
      PROVE  S[<<k, p>>] = R[<<k, p>>] /\ Sound(p, S[<<k, p>>]) /\ (k = "inner" => Moves(p, S[<<k, p>>]))
  <2>1. Cost(<<k, p>>) < Cost(<<what, p>>)
    BY <1>2, CostIs
  <2>2. <<k, p>> \in Calls /\ <<k, p>>[1] = k /\ <<k, p>>[2] = p
    BY CallIs
  <2>3. S[<<k, p>>] = R[<<k, p>>] /\ Fine(<<k, p>>, S[<<k, p>>])
    BY <2>1, <2>2 DEF Agree
  <2> QED BY <2>2, <2>3 DEF Fine
<1> QED BY <1>1, <1>2 DEF Same

LEMMA BehindSound ==
    ASSUME NEW p \in Places, Len(tokens) \in Nat, NEW s, Sound(p, s), NEW rest, Sound(s.next, rest)
    PROVE  Sound(p, Behind(s, rest))
<1>1. PICK w \in BOOLEAN : w = (s.wrong \/ rest.wrong)
  BY DEF Sound
<1>2. PICK n \in Nat, o \in BOOLEAN : n = rest.next /\ o = rest.said
  BY DEF Sound
<1>3. p \in Nat /\ p <= n /\ (p <= Len(tokens) + 1 => n <= Len(tokens) + 1)
  BY <1>2 DEF Sound, Places
<1>4. CASE rest.ok
  <2>1. PICK t : t = <<s.tree>> \o rest.tree
    OBVIOUS
  <2>2. Behind(s, rest) = Ok(n, t, w)
    BY <1>1, <1>2, <1>4, <2>1 DEF Behind
  <2>3. Sound(p, Ok(n, t, w))
    BY <1>3, OkSound
  <2> QED BY <2>2, <2>3
<1>5. CASE ~rest.ok
  <2>1. Behind(s, rest) = Failed(n, o, w)
    BY <1>1, <1>2, <1>5 DEF Behind
  <2>2. Sound(p, Failed(n, o, w))
    BY <1>3, FailedSound
  <2> QED BY <2>1, <2>2
<1> QED BY <1>4, <1>5

LEMMA StatementsSound ==
    ASSUME tokens \in Seq(Tokens), NEW p \in Places, NEW S, NEW R, Agree(S, R, <<"rest", p>>)
    PROVE  Statements(S, p) = Statements(R, p) /\ Sound(p, Statements(S, p))
<1>1. Len(tokens) \in Nat /\ p \in Nat
  BY TokenAt DEF Places
<1>2. PICK s : s = S[<<"inner", p>>]
  OBVIOUS
<1>3. s = R[<<"inner", p>>] /\ Sound(p, s) /\ Moves(p, s)
  <2>1. "inner" \in Kinds /\ "rest" \in Kinds /\ Rank("inner") < Rank("rest")
    BY DEF Kinds, Rank
  <2> QED BY <1>2, <2>1, AgreeIs
<1>4. PICK n \in Nat, w \in BOOLEAN : n = s.next /\ w = s.wrong
  BY <1>3 DEF Sound
<1>5. p <= n /\ (p <= Len(tokens) + 1 => n <= Len(tokens) + 1) /\ n \in Places
  BY <1>1, <1>3, <1>4 DEF Sound, Places
<1>6. CASE s.ok
  <2>1. p < n /\ p <= Len(tokens)
    BY <1>3, <1>4, <1>6 DEF Moves
  <2>2. <<"rest", n>> \in Calls /\ <<"rest", n>>[2] = n
    BY <1>5, CallIs DEF Kinds
  <2>3. Same(S, R, p)
    <3>1. "rest" \in Kinds
      BY DEF Kinds
    <3> QED BY <2>1, <3>1, AgreeIs
  <2>4. PICK t : t = S[<<"rest", n>>]
    OBVIOUS
  <2>5. t = R[<<"rest", n>>] /\ Sound(n, t)
    BY <2>1, <2>2, <2>3, <2>4 DEF Same, Fine
  <2>6. Statements(S, p) = Behind(s, t) /\ Statements(R, p) = Behind(s, t)
    BY <1>2, <1>3, <1>4, <1>6, <2>4, <2>5 DEF Statements
  <2> QED BY <1>1, <1>3, <1>4, <2>5, <2>6, BehindSound
<1>7. CASE ~s.ok /\ s.said
  <2>1. Statements(S, p) = Failed(n, TRUE, w) /\ Statements(R, p) = Failed(n, TRUE, w)
    BY <1>2, <1>3, <1>4, <1>7 DEF Statements
  <2>2. Sound(p, Failed(n, TRUE, w))
    BY <1>1, <1>5, FailedSound
  <2> QED BY <2>1, <2>2
<1>8. CASE ~s.ok /\ ~s.said
  <2>1. PICK t : t = <<>>
    OBVIOUS
  <2>2. Statements(S, p) = Ok(n, t, w) /\ Statements(R, p) = Ok(n, t, w)
    BY <1>2, <1>3, <1>4, <1>8, <2>1 DEF Statements
  <2>3. Sound(p, Ok(n, t, w))
    BY <1>1, <1>5, OkSound
  <2> QED BY <2>2, <2>3
<1> QED BY <1>6, <1>7, <1>8

LEMMA BracedSound ==
    ASSUME tokens \in Seq(Tokens), NEW p \in Places, p <= Len(tokens), NEW d, Sound(p + 1, d)
    PROVE  Sound(p, Braced(d))
<1>1. Len(tokens) \in Nat /\ p \in Nat
  BY TokenAt DEF Places
<1>2. PICK n \in Nat, w \in BOOLEAN : n = d.next /\ w = d.wrong
  BY DEF Sound
<1>3. p + 1 <= n /\ n <= Len(tokens) + 1 /\ n \in Places /\ p <= n
  BY <1>1, <1>2 DEF Sound, Places
<1>4. CASE ~d.ok
  <2>1. Braced(d) = d
    BY <1>4 DEF Braced
  <2>2. d.ok \in BOOLEAN /\ d.said \in BOOLEAN /\ d.wrong \in BOOLEAN
    BY DEF Sound
  <2> QED BY <1>1, <1>2, <1>3, <2>1, <2>2 DEF Sound
<1>5. CASE d.ok /\ Token(d.next) # "rbrace"
  <2>1. Braced(d) = Failed(n, TRUE, w)
    BY <1>2, <1>5 DEF Braced
  <2>2. Sound(p, Failed(n, TRUE, w))
    BY <1>1, <1>3, FailedSound
  <2> QED BY <2>1, <2>2
<1>6. CASE d.ok /\ Token(d.next) = "rbrace"
  <2>1. PICK t : t = << <<"block", d.tree>> >>
    OBVIOUS
  <2>2. Braced(d) = Ok(n + 1, t, w)
    BY <1>2, <1>6, <2>1 DEF Braced
  <2>3. n <= Len(tokens)
    BY <1>1, <1>2, <1>3, <1>6, TokenAt
  <2>4. n + 1 \in Nat /\ p <= n + 1 /\ n + 1 <= Len(tokens) + 1
    BY <1>1, <1>3, <2>3
  <2>5. Sound(p, Ok(n + 1, t, w))
    BY <1>1, <2>4, OkSound
  <2> QED BY <2>2, <2>5
<1> QED BY <1>4, <1>5, <1>6

LEMMA DomainSound ==
    ASSUME tokens \in Seq(Tokens), NEW p \in Places, NEW S, NEW R, Agree(S, R, <<"domain", p>>)
    PROVE  Domain(S, p) = Domain(R, p) /\ Sound(p, Domain(S, p))
<1>1. Len(tokens) \in Nat /\ p \in Nat /\ p + 1 \in Places /\ p + 1 > p
  BY TokenAt DEF Places
<1>2. "domain" \in Kinds /\ "rest" \in Kinds /\ Rank("rest") < Rank("domain")
  BY DEF Kinds, Rank
<1>3. CASE IsEOF(p)
  <2>1. Domain(S, p) = Failed(p, FALSE, FALSE) /\ Domain(R, p) = Failed(p, FALSE, FALSE)
    BY <1>3 DEF Domain
  <2>2. p <= p /\ FALSE \in BOOLEAN
    BY <1>1
  <2>3. Sound(p, Failed(p, FALSE, FALSE))
    BY <1>1, <2>2, FailedSound
  <2> QED BY <2>1, <2>3
<1>4. CASE ~IsEOF(p) /\ Token(p) = "lbrace"
  <2>1. p <= Len(tokens)
    BY <1>1, <1>4, TokenAt
  <2>2. Same(S, R, p)
    BY <1>2, <2>1, AgreeIs
  <2>3. <<"domain", p + 1>> \in Calls /\ <<"domain", p + 1>>[2] = p + 1
    BY <1>1, <1>2, CallIs
  <2>4. PICK d : d = S[<<"domain", p + 1>>]
    OBVIOUS
  <2>5. d = R[<<"domain", p + 1>>] /\ Sound(p + 1, d)
    BY <1>1, <2>2, <2>3, <2>4 DEF Same, Fine
  <2>6. Domain(S, p) = Braced(d) /\ Domain(R, p) = Braced(d)
    BY <1>4, <2>4, <2>5 DEF Domain
  <2>7. Sound(p, Braced(d))
    BY <2>1, <2>5, BracedSound
  <2> QED BY <2>6, <2>7
<1>5. CASE ~IsEOF(p) /\ Token(p) # "lbrace"
  <2>1. S[<<"rest", p>>] = R[<<"rest", p>>] /\ Sound(p, S[<<"rest", p>>])
    BY <1>2, AgreeIs
  <2> QED BY <1>5, <2>1 DEF Domain
<1> QED BY <1>3, <1>4, <1>5

LEMMA CallSound ==
    ASSUME tokens \in Seq(Tokens), NEW c \in Calls, NEW S, NEW R, Agree(S, R, c)
    PROVE  Call(S, c[1], c[2]) = Call(R, c[1], c[2]) /\ Fine(c, Call(S, c[1], c[2]))
<1>1. PICK what \in Kinds, p \in Places : c = <<what, p>>
  BY DEF Calls, Kinds, Places
<1>2. Agree(S, R, <<what, p>>) /\ c[1] = what /\ c[2] = p
  BY <1>1
<1>3. p <= Len(tokens) => Same(S, R, p)
  BY <1>2, AgreeIs
<1> SUFFICES /\ Call(S, what, p) = Call(R, what, p) /\ Sound(p, Call(S, what, p))
             /\ what \in {"inner", "alone"} => Moves(p, Call(S, what, p))
  BY <1>2 DEF Fine
<1>4. CASE what = "inner"
  <2>1. Call(S, what, p) = Single(S, p, "rbrace") /\ Call(R, what, p) = Single(R, p, "rbrace")
    BY <1>4 DEF Call
  <2> QED BY <1>3, <2>1, SingleSound
<1>5. CASE what = "alone"
  <2>1. Call(S, what, p) = Single(S, p, "semicolon") /\ Call(R, what, p) = Single(R, p, "semicolon")
    BY <1>5 DEF Call
  <2> QED BY <1>3, <2>1, SingleSound
<1>6. CASE what = "rest"
  <2>1. Call(S, what, p) = Statements(S, p) /\ Call(R, what, p) = Statements(R, p)
    BY <1>6 DEF Call
  <2> QED BY <1>2, <1>6, <2>1, StatementsSound
<1>7. CASE what = "domain"
  <2>1. Call(S, what, p) = Domain(S, p) /\ Call(R, what, p) = Domain(R, p)
    BY <1>7 DEF Call
  <2> QED BY <1>2, <1>7, <2>1, DomainSound
<1> QED BY <1>4, <1>5, <1>6, <1>7 DEF Kinds

\* So the definition of Parsed has a solution, and every result is as it should be.
LEMMA ParsedUnfolded ==
    ASSUME tokens \in Seq(Tokens)
    PROVE  \A c \in Calls : Parsed[c] = Call(Parsed, c[1], c[2]) /\ Fine(c, Parsed[c])
<1> DEFINE m == [c \in Calls |-> Cost(c)]
           Low(n) == {c \in Calls : Cost(c) < n}
           Solved(S, n) == /\ S = [c \in Low(n) |-> S[c]]
                           /\ \A c \in Low(n) : S[c] = Call(S, c[1], c[2]) /\ Fine(c, S[c])
<1>1. \A c \in Calls : Cost(c) \in Nat
  <2> TAKE c \in Calls
  <2>1. PICK what \in Kinds, p \in Places : c = <<what, p>>
    BY DEF Calls, Kinds, Places
  <2> QED BY <2>1, CostIs
<1>2. m \in [Calls -> Nat] /\ \A c \in Calls : m[c] = Cost(c)
  BY <1>1
<1> HIDE DEF m
<1>3. ASSUME NEW n \in Nat, NEW k \in Nat, n <= k, NEW S, Solved(S, n), NEW R, Solved(R, k), NEW x \in Low(n)
      PROVE  S[x] = R[x]
  <2> DEFINE T == {c \in Calls : c \in Low(n) => S[c] = R[c]}
  <2>1. \A c \in Calls : (\A d \in Calls : m[d] < m[c] => d \in T) => c \in T
    <3> SUFFICES ASSUME NEW c \in Calls, c \in Low(n), \A d \in Calls : m[d] < m[c] => d \in T PROVE S[c] = R[c]
      OBVIOUS
    <3>1. c \in Low(k) /\ Cost(c) \in Nat /\ Cost(c) < n
      BY <1>1, <1>3
    <3>2. ASSUME NEW d \in Calls, Cost(d) < Cost(c) PROVE S[d] = R[d] /\ Fine(d, S[d])
      <4>1. Cost(d) \in Nat
        BY <1>1
      <4>2. d \in Low(n)
        BY <3>1, <3>2, <4>1
      <4>3. d \in T
        BY <1>2, <3>2
      <4> QED BY <4>2, <4>3, <1>3
    <3>3. Agree(S, R, c)
      BY <3>2 DEF Agree
    <3>4. Call(S, c[1], c[2]) = Call(R, c[1], c[2])
      BY <3>3, CallSound
    <3>5. S[c] = Call(S, c[1], c[2]) /\ R[c] = Call(R, c[1], c[2])
      BY <3>1, <1>3
    <3> QED BY <3>4, <3>5
  <2>2. Calls \subseteq T
    <3> HIDE DEF T, Low, Solved
    <3> QED BY <1>2, <2>1, MeasureInduction
  <2>3. x \in Calls
    BY <1>3
  <2> QED BY <2>2, <2>3, <1>3
<1>4. \A n \in Nat : \E S : Solved(S, n)
  <2> DEFINE G == {n \in Nat : \E S : Solved(S, n)}
             id == [n \in Nat |-> n]
  <2>1. \A n \in Nat : (\A k \in Nat : id[k] < id[n] => k \in G) => n \in G
    <3> SUFFICES ASSUME NEW n \in Nat, \A k \in Nat : k < n => k \in G PROVE \E S : Solved(S, n)
      OBVIOUS
    <3>1. CASE n = 0
      <4> DEFINE S == [c \in Low(n) |-> 0]
      <4>1. \A c \in Calls : ~(Cost(c) < n)
        BY <1>1, <3>1
      <4>2. Low(n) = {}
        BY <4>1
      <4>3. Solved(S, n)
        BY <4>2
      <4> HIDE DEF S, Solved
      <4> QED BY <4>3
    <3>2. CASE n # 0
      <4>1. n - 1 \in Nat /\ n - 1 < n
        BY <3>2
      <4>2. PICK S : Solved(S, n - 1)
        BY <4>1
      <4> DEFINE R == [c \in Low(n) |-> Call(S, c[1], c[2])]
      <4>3. \A c \in Low(n - 1) : c \in Low(n)
        <5> TAKE c \in Low(n - 1)
        <5>1. c \in Calls /\ Cost(c) \in Nat /\ Cost(c) < n - 1
          BY <1>1
        <5> QED BY <4>1, <5>1
      <4>4. \A c \in Low(n - 1) : R[c] = S[c] /\ Fine(c, S[c])
        BY <4>2, <4>3
      <4>5. ASSUME NEW c \in Low(n) PROVE R[c] = Call(R, c[1], c[2]) /\ Fine(c, R[c])
        <5>1. c \in Calls /\ Cost(c) \in Nat /\ Cost(c) < n
          BY <1>1
        <5>2. ASSUME NEW d \in Calls, Cost(d) < Cost(c) PROVE S[d] = R[d] /\ Fine(d, S[d])
          <6>1. Cost(d) \in Nat
            BY <1>1
          <6>2. d \in Low(n - 1)
            BY <5>1, <5>2, <6>1
          <6> HIDE DEF R
          <6> QED BY <4>4, <6>2
        <5>3. Agree(S, R, c)
          <6> HIDE DEF R
          <6> QED BY <5>2 DEF Agree
        <5>4. R[c] = Call(S, c[1], c[2])
          OBVIOUS
        <5> HIDE DEF R
        <5>5. Call(S, c[1], c[2]) = Call(R, c[1], c[2]) /\ Fine(c, Call(S, c[1], c[2]))
          BY <5>1, <5>3, CallSound
        <5> QED BY <5>4, <5>5
      <4>6. R = [c \in Low(n) |-> R[c]]
        OBVIOUS
      <4>7. Solved(R, n)
        <5> HIDE DEF R
        <5> QED BY <4>5, <4>6
      <4> HIDE DEF R, Solved
      <4> QED BY <4>7
    <3> QED BY <3>1, <3>2
  <2>2. Nat \subseteq G
    <3>1. id \in [Nat -> Nat]
      OBVIOUS
    <3> HIDE DEF G, id
    <3> QED BY <2>1, <3>1, MeasureInduction
  <2> QED BY <2>2
<1> DEFINE At(n) == CHOOSE S : Solved(S, n)
           F == [c \in Calls |-> At(Cost(c) + 1)[c]]
<1>5. \A n \in Nat : Solved(At(n), n)
  BY <1>4
<1>6. ASSUME NEW c \in Calls, NEW d \in Calls, Cost(d) <= Cost(c)
      PROVE  F[d] = At(Cost(c) + 1)[d] /\ Fine(d, F[d])
  <2>1. Cost(d) \in Nat /\ Cost(c) \in Nat
    BY <1>1
  <2>2. /\ Cost(d) + 1 \in Nat /\ Cost(c) + 1 \in Nat /\ Cost(d) + 1 <= Cost(c) + 1
        /\ d \in Low(Cost(d) + 1)
    BY <1>6, <2>1
  <2>3. Solved(At(Cost(d) + 1), Cost(d) + 1) /\ Solved(At(Cost(c) + 1), Cost(c) + 1)
    BY <2>2, <1>5
  <2>4. F[d] = At(Cost(d) + 1)[d]
    OBVIOUS
  <2> HIDE DEF At, F
  <2>5. Fine(d, At(Cost(d) + 1)[d])
    BY <2>2, <2>3
  <2> HIDE DEF Solved, Low
  <2>6. At(Cost(d) + 1)[d] = At(Cost(c) + 1)[d]
    BY <2>2, <2>3, <1>3
  <2> QED BY <2>4, <2>5, <2>6
<1>7. ASSUME NEW c \in Calls PROVE F[c] = Call(F, c[1], c[2]) /\ Fine(c, F[c])
  <2>1. Cost(c) \in Nat /\ Cost(c) + 1 \in Nat /\ c \in Low(Cost(c) + 1) /\ Cost(c) <= Cost(c)
    <3>1. Cost(c) \in Nat
      BY <1>1
    <3> QED BY <3>1
  <2>2. Solved(At(Cost(c) + 1), Cost(c) + 1)
    BY <2>1, <1>5
  <2> HIDE DEF F, At
  <2>3. At(Cost(c) + 1)[c] = Call(At(Cost(c) + 1), c[1], c[2])
    BY <2>1, <2>2
  <2> HIDE DEF Low, Solved
  <2>4. F[c] = At(Cost(c) + 1)[c] /\ Fine(c, F[c])
    BY <2>1, <1>6
  <2>5. ASSUME NEW d \in Calls, Cost(d) < Cost(c) PROVE F[d] = At(Cost(c) + 1)[d] /\ Fine(d, F[d])
    <3>1. Cost(d) \in Nat
      BY <1>1
    <3>2. Cost(d) <= Cost(c)
      BY <2>1, <2>5, <3>1
    <3> QED BY <3>2, <1>6
  <2>6. Agree(F, At(Cost(c) + 1), c)
    BY <2>5 DEF Agree
  <2>7. Call(F, c[1], c[2]) = Call(At(Cost(c) + 1), c[1], c[2])
    BY <2>6, CallSound
  <2> QED BY <2>3, <2>4, <2>7
<1>8. F = [c \in Calls |-> Call(F, c[1], c[2])]
  <2>1. F = [c \in Calls |-> F[c]]
    OBVIOUS
  <2> HIDE DEF F
  <2> QED BY <1>7, <2>1
<1> HIDE DEF F
<1>9. Parsed = CHOOSE G : G = [c \in Calls |-> Call(G, c[1], c[2])]
  BY DEF Parsed
<1>10. Parsed = [c \in Calls |-> Call(Parsed, c[1], c[2])]
  <2> HIDE DEF Low, Solved
  <2> QED BY <1>8, <1>9
<1>11. \A c \in Calls : Parsed[c] = Call(Parsed, c[1], c[2])
  <2>1. PICK P : P = Parsed
    OBVIOUS
  <2>2. P = [c \in Calls |-> Call(P, c[1], c[2])]
    BY <1>10, <2>1
  <2>3. \A c \in Calls : P[c] = Call(P, c[1], c[2])
    BY <2>2
  <2> QED BY <2>1, <2>3
\* The solution is the only one.
<1>12. \A c \in Calls : Parsed[c] = F[c]
  <2> DEFINE T == {c \in Calls : Parsed[c] = F[c]}
  <2>1. \A c \in Calls : (\A d \in Calls : m[d] < m[c] => d \in T) => c \in T
    <3> SUFFICES ASSUME NEW c \in Calls, \A d \in Calls : m[d] < m[c] => d \in T PROVE Parsed[c] = F[c]
      OBVIOUS
    <3>1. \A d \in Calls : Cost(d) < Cost(c) => F[d] = Parsed[d] /\ Fine(d, F[d])
      BY <1>2, <1>7
    <3>2. Agree(F, Parsed, c)
      BY <3>1 DEF Agree
    <3>3. Call(F, c[1], c[2]) = Call(Parsed, c[1], c[2])
      BY <3>2, CallSound
    <3> QED BY <3>3, <1>7, <1>11
  <2>2. Calls \subseteq T
    <3> HIDE DEF T, Low, Solved
    <3> QED BY <1>2, <2>1, MeasureInduction
  <2> QED BY <2>2
<1> QED BY <1>7, <1>11, <1>12

-----------------------------------------------------------------------------
(* The state variables hold values of their types.                         *)

LEMMA ParsedSound ==
    ASSUME tokens \in Seq(Tokens), NEW what \in Kinds, NEW p \in Places
    PROVE  /\ Parsed[<<what, p>>] = Call(Parsed, what, p)
           /\ Sound(p, Parsed[<<what, p>>])
           /\ what \in {"inner", "alone"} => Moves(p, Parsed[<<what, p>>])
<1>1. <<what, p>> \in Calls /\ <<what, p>>[1] = what /\ <<what, p>>[2] = p
  BY CallIs
<1> QED BY <1>1, ParsedUnfolded DEF Fine

LEMMA BodySound ==
    ASSUME tokens \in Seq(Tokens), tokens # <<>>
    PROVE  Sound(1, FunctionBody)
<1>1. Len(tokens) \in Nat /\ Len(tokens) >= 1
  BY EmptySeq
<1>2. CASE IsEOF(2)
  <2>1. FunctionBody = Failed(2, FALSE, FALSE)
    BY <1>2 DEF FunctionBody
  <2>2. 1 \in Nat /\ 2 \in Nat /\ FALSE \in BOOLEAN /\ 1 <= 2 /\ 2 <= Len(tokens) + 1
    BY <1>1
  <2>3. Sound(1, Failed(2, FALSE, FALSE))
    BY <2>2, FailedSound
  <2> QED BY <2>1, <2>3
<1>3. CASE ~IsEOF(2)
  <2>1. "domain" \in Kinds /\ 1 \in Places
    BY DEF Kinds, Places
  <2>2. Sound(1, Parsed[<<"domain", 1>>])
    BY <2>1, ParsedSound
  <2> QED BY <1>3, <2>2 DEF FunctionBody
<1> QED BY <1>2, <1>3

\* The result of CompilingContext::Parse on any function body is a result, and the
\* parser stands at a token of the text or at its end, never further.
THEOREM TypeCorrect == Spec => []TypeOK
<1> DEFINE Inv == TypeOK /\ tokens # <<>>
<1>1. Init => Inv
  <2> SUFFICES ASSUME Init PROVE Inv
    OBVIOUS
  <2>1. tokens \in Inputs /\ tokens # <<>> /\ blank \in BOOLEAN /\ phase = "start" /\ result = Failed(1, FALSE, FALSE)
    BY DEF Init
  <2>2. tokens \in Seq(Tokens) /\ Len(tokens) \in Nat
    BY <2>1, InputsAssumption
  <2>3. result.ok = FALSE /\ result.said = FALSE /\ result.wrong = FALSE /\ result.next = 1
    BY <2>1 DEF Failed
  <2>4. result.ok \in BOOLEAN /\ result.said \in BOOLEAN /\ result.wrong \in BOOLEAN
    BY <2>3
  <2>5. result.next \in 1..(Len(tokens) + 1)
    BY <2>2, <2>3
  <2>6. phase \in {"start", "done"}
    BY <2>1
  <2> QED BY <2>1, <2>4, <2>5, <2>6 DEF TypeOK
<1>2. Inv /\ [Next]_vars => Inv'
  <2> SUFFICES ASSUME Inv, [Next]_vars PROVE Inv'
    OBVIOUS
  <2>1. CASE Next
    <3>1. /\ tokens' = tokens /\ blank' = blank /\ phase' = "done" /\ result' = FunctionBody
      BY <2>1 DEF Next, Parse
    <3>2. tokens \in Seq(Tokens) /\ tokens # <<>> /\ Len(tokens) \in Nat
      BY InputsAssumption DEF TypeOK
    <3>3. Sound(1, FunctionBody)
      BY <3>2, BodySound
    <3>4. PICK r : r = FunctionBody
      OBVIOUS
    <3>5. /\ r.ok \in BOOLEAN /\ r.said \in BOOLEAN /\ r.wrong \in BOOLEAN /\ r.next \in 1..(Len(tokens) + 1)
      BY <3>2, <3>3, <3>4 DEF Sound
    <3> QED BY <3>1, <3>4, <3>5 DEF TypeOK
  <2>2. CASE UNCHANGED vars
    BY <2>2 DEF vars, TypeOK
  <2> QED BY <2>1, <2>2
<1>3. Inv => TypeOK
  OBVIOUS
<1> QED BY <1>1, <1>2, <1>3, PTL DEF Spec

-----------------------------------------------------------------------------
(* A body that is given up is given up with a message, or at the end.      *)

\* T holds of what a call of `what' at p may need.
Below(T, what, p) ==
    /\ p <= Len(tokens) => \A k \in Kinds, q \in Places : q > p => <<k, q>> \in T
    /\ \A k \in Kinds : Rank(k) < Rank(what) => <<k, p>> \in T

LEMMA CallInduction ==
    ASSUME tokens \in Seq(Tokens), NEW T,
           \A what \in Kinds, p \in Places : Below(T, what, p) => <<what, p>> \in T
    PROVE  \A what \in Kinds, p \in Places : <<what, p>> \in T
<1> DEFINE m == [c \in Calls |-> Cost(c)]
<1>1. \A what \in Kinds, p \in Places : <<what, p>> \in Calls /\ Cost(<<what, p>>) \in Nat
  BY CallIs, CostIs
<1>2. \A c \in Calls : \E what \in Kinds, p \in Places : c = <<what, p>>
  BY DEF Calls, Kinds, Places
<1>3. m \in [Calls -> Nat] /\ \A c \in Calls : m[c] = Cost(c)
  BY <1>1, <1>2
<1> HIDE DEF m
<1>4. ASSUME NEW c \in Calls, \A d \in Calls : m[d] < m[c] => d \in T PROVE c \in T
  <2>1. PICK what \in Kinds, p \in Places : c = <<what, p>>
    BY <1>2
  <2>2. ASSUME p <= Len(tokens), NEW k \in Kinds, NEW q \in Places, q > p PROVE <<k, q>> \in T
    <3>1. Cost(<<k, q>>) < Cost(<<what, p>>)
      BY <2>2, CostIs
    <3> QED BY <1>1, <1>3, <1>4, <2>1, <3>1
  <2>3. ASSUME NEW k \in Kinds, Rank(k) < Rank(what) PROVE <<k, p>> \in T
    <3>1. Cost(<<k, p>>) < Cost(<<what, p>>)
      BY <2>3, CostIs
    <3> QED BY <1>1, <1>3, <1>4, <2>1, <3>1
  <2>4. Below(T, what, p)
    BY <2>2, <2>3 DEF Below
  <2> QED BY <2>1, <2>4
<1>5. Calls \subseteq T
  BY <1>3, <1>4, MeasureInduction
<1> QED BY <1>1, <1>5

\* A statement list never fails without a message; a block does only at the end of the text,
\* with nothing but "lbrace" before it.
Opens(p) == \A q \in p..Len(tokens) : tokens[q] = "lbrace"
Audible(what, p, r) ==
    ~r.ok /\ ~r.said => CASE what = "rest" -> FALSE
                          [] what = "domain" -> IsEOF(r.next) /\ Opens(p)
                          [] OTHER -> TRUE

LEMMA RestAudible ==
    ASSUME tokens \in Seq(Tokens), NEW p \in Places,
           \A q \in Places : p <= Len(tokens) /\ q > p => Audible("rest", q, Parsed[<<"rest", q>>])
    PROVE  Audible("rest", p, Parsed[<<"rest", p>>])
<1>1. "inner" \in Kinds /\ "rest" \in Kinds
  BY DEF Kinds
<1>2. PICK s : s = Parsed[<<"inner", p>>]
  OBVIOUS
<1>3. Sound(p, s) /\ Moves(p, s)
  BY <1>1, <1>2, ParsedSound
<1>4. PICK r : r = Parsed[<<"rest", p>>]
  OBVIOUS
<1>5. r = Statements(Parsed, p)
  BY <1>1, <1>4, ParsedSound DEF Call
<1>6. CASE s.ok
  <2>1. p <= Len(tokens) /\ s.next \in Places /\ s.next > p
    BY <1>3, <1>6 DEF Sound, Moves, Places
  <2>2. PICK t : t = Parsed[<<"rest", s.next>>]
    OBVIOUS
  <2>3. ~t.ok => t.said
    BY <2>1, <2>2 DEF Audible
  <2>4. r = Behind(s, t)
    BY <1>2, <1>5, <1>6, <2>2 DEF Statements
  <2>5. CASE t.ok
    BY <1>4, <2>4, <2>5 DEF Behind, Ok, Audible
  <2>6. CASE ~t.ok
    BY <1>4, <2>3, <2>4, <2>6 DEF Behind, Failed, Audible
  <2> QED BY <2>5, <2>6
<1>7. CASE ~s.ok /\ s.said
  <2>1. r = Failed(s.next, TRUE, s.wrong)
    BY <1>2, <1>5, <1>7 DEF Statements
  <2> QED BY <1>4, <2>1 DEF Failed, Audible
<1>8. CASE ~s.ok /\ ~s.said
  <2>1. r = Ok(s.next, <<>>, s.wrong)
    BY <1>2, <1>5, <1>8 DEF Statements
  <2> QED BY <1>4, <2>1 DEF Ok, Audible
<1> QED BY <1>6, <1>7, <1>8

LEMMA DomainAudible ==
    ASSUME tokens \in Seq(Tokens), NEW p \in Places,
           Audible("rest", p, Parsed[<<"rest", p>>]),
           p <= Len(tokens) => Audible("domain", p + 1, Parsed[<<"domain", p + 1>>])
    PROVE  Audible("domain", p, Parsed[<<"domain", p>>])
<1>1. Len(tokens) \in Nat /\ p \in Nat /\ p + 1 \in Places
  BY TokenAt DEF Places
<1>2. PICK r : r = Parsed[<<"domain", p>>]
  OBVIOUS
<1>3. r = Domain(Parsed, p)
  <2>1. "domain" \in Kinds
    BY DEF Kinds
  <2> QED BY <1>2, <2>1, ParsedSound DEF Call
<1>4. CASE IsEOF(p)
  <2>1. r = Failed(p, FALSE, FALSE)
    BY <1>3, <1>4 DEF Domain
  <2>2. r.next = p
    BY <2>1 DEF Failed
  <2>3. Opens(p)
    BY <1>1, <1>4 DEF Opens, IsEOF
  <2> QED BY <1>2, <1>4, <2>2, <2>3 DEF Audible
<1>5. CASE ~IsEOF(p) /\ Token(p) = "lbrace"
  <2>1. p <= Len(tokens) /\ tokens[p] = "lbrace"
    <3>1. p <= Len(tokens)
      BY <1>1, <1>5, TokenAt
    <3> QED BY <1>5, <3>1, TokenAt
  <2>2. PICK d : d = Parsed[<<"domain", p + 1>>]
    OBVIOUS
  <2>3. r = Braced(d)
    BY <1>3, <1>5, <2>2 DEF Domain
  <2>4. CASE d.ok /\ Token(d.next) # "rbrace"
    <3>1. r = Failed(d.next, TRUE, d.wrong)
      BY <2>3, <2>4 DEF Braced
    <3> QED BY <1>2, <3>1 DEF Failed, Audible
  <2>5. CASE d.ok /\ Token(d.next) = "rbrace"
    <3>1. r = Ok(d.next + 1, << <<"block", d.tree>> >>, d.wrong)
      BY <2>3, <2>5 DEF Braced
    <3> QED BY <1>2, <3>1 DEF Ok, Audible
  <2>6. CASE ~d.ok
    <3>1. r = d
      BY <2>3, <2>6 DEF Braced
    <3>2. Opens(p + 1) => Opens(p)
      BY <1>1, <2>1 DEF Opens
    <3>3. ~r.said => IsEOF(r.next) /\ Opens(p + 1)
      BY <2>1, <2>2, <2>6, <3>1 DEF Audible
    <3> QED BY <1>2, <3>2, <3>3 DEF Audible
  <2> QED BY <2>4, <2>5, <2>6
<1>6. CASE ~IsEOF(p) /\ Token(p) # "lbrace"
  <2>1. r = Parsed[<<"rest", p>>]
    BY <1>3, <1>6 DEF Domain
  <2> QED BY <1>2, <2>1 DEF Audible
<1> QED BY <1>4, <1>5, <1>6

LEMMA ParsedAudible ==
    ASSUME tokens \in Seq(Tokens)
    PROVE  \A what \in Kinds, p \in Places : Audible(what, p, Parsed[<<what, p>>])
<1> DEFINE T == {c \in Kinds \X Places : Audible(c[1], c[2], Parsed[c])}
<1>1. ASSUME NEW what \in Kinds, NEW p \in Places, Below(T, what, p) PROVE <<what, p>> \in T
  <2> SUFFICES Audible(what, p, Parsed[<<what, p>>])
    OBVIOUS
  <2>1. "rest" \in Kinds /\ "domain" \in Kinds /\ Rank("rest") < Rank("domain")
    BY DEF Kinds, Rank
  <2>2. \A k \in Kinds, q \in Places : <<k, q>> \in T => Audible(k, q, Parsed[<<k, q>>])
    OBVIOUS
  <2> HIDE DEF T
  <2>3. CASE what = "rest"
    <3>1. \A q \in Places : p <= Len(tokens) /\ q > p => Audible("rest", q, Parsed[<<"rest", q>>])
      BY <1>1, <2>1, <2>2 DEF Below
    <3> QED BY <2>3, <3>1, RestAudible
  <2>4. CASE what = "domain"
    <3>1. Audible("rest", p, Parsed[<<"rest", p>>])
      BY <1>1, <2>1, <2>2, <2>4 DEF Below
    <3>2. p + 1 \in Places /\ p + 1 > p
      BY DEF Places
    <3>3. p <= Len(tokens) => Audible("domain", p + 1, Parsed[<<"domain", p + 1>>])
      BY <1>1, <2>1, <2>2, <3>2 DEF Below
    <3> QED BY <2>4, <3>1, <3>3, DomainAudible
  <2>5. CASE what \notin {"rest", "domain"}
    BY <2>5 DEF Audible
  <2> QED BY <2>3, <2>4, <2>5
<1>2. \A what \in Kinds, p \in Places : <<what, p>> \in T
  <2> HIDE DEF T
  <2> QED BY <1>1, CallInduction
<1> QED BY <1>2

LEMMA BodyAudible ==
    ASSUME tokens \in Seq(Tokens)
    PROVE  ~FunctionBody.ok /\ ~FunctionBody.said => IsEOF(FunctionBody.next)
<1>1. CASE IsEOF(2)
  <2>1. FunctionBody.next = 2
    BY <1>1 DEF FunctionBody, Failed
  <2> QED BY <1>1, <2>1
<1>2. CASE ~IsEOF(2)
  <2>1. "domain" \in Kinds /\ 1 \in Places
    BY DEF Kinds, Places
  <2>2. FunctionBody = Parsed[<<"domain", 1>>]
    BY <1>2 DEF FunctionBody
  <2> QED BY <2>1, <2>2, ParsedAudible DEF Audible
<1> QED BY <1>1, <1>2

\* CompilingContext::Parse refuses no function body in silence: where ParseCodeDomain gives
\* up without a message it stands at the end of the text.
THEOREM MessagesForRefusals == Spec => []RefusalsHaveMessages
<1>1. Init => RefusalsHaveMessages
  BY DEF Init, RefusalsHaveMessages, Done
<1>2. TypeOK /\ RefusalsHaveMessages /\ [Next]_vars => RefusalsHaveMessages'
  <2> SUFFICES ASSUME TypeOK, RefusalsHaveMessages, [Next]_vars PROVE RefusalsHaveMessages'
    OBVIOUS
  <2>1. CASE Next
    <3>1. tokens' = tokens /\ blank' = blank /\ result' = FunctionBody
      BY <2>1 DEF Next, Parse
    <3>2. tokens \in Seq(Tokens)
      BY InputsAssumption DEF TypeOK
    <3>3. ~result'.ok /\ ~result'.said => IsEOF(result'.next)
      BY <3>1, <3>2, BodyAudible
    <3>4. ~result'.ok /\ ~result'.said => IsEOF(result.next)'
      BY <3>1, <3>3 DEF IsEOF
    <3> QED BY <3>1, <3>4 DEF RefusalsHaveMessages, Accepted, Silent
  <2>2. CASE UNCHANGED vars
    BY <2>2 DEF vars, RefusalsHaveMessages, Done, Accepted, Silent, IsEOF
  <2> QED BY <2>1, <2>2
<1> QED BY <1>1, <1>2, TypeCorrect, PTL DEF Spec
-----------------------------------------------------------------------------
(* The grammar: what its definition by length says of whole sentences.     *)

LEMMA NatSet ==
    ASSUME NEW T, 0 \in T, \A n \in Nat \ {0} : n - 1 \in T => n \in T
    PROVE  Nat \subseteq T
<1> DEFINE id == [n \in Nat |-> n]
<1>1. id \in [Nat -> Nat] /\ \A n \in Nat : id[n] = n
  OBVIOUS
<1> HIDE DEF id
<1>2. ASSUME NEW n \in Nat, \A k \in Nat : id[k] < id[n] => k \in T PROVE n \in T
  <2>1. CASE n = 0
    BY <2>1
  <2>2. CASE n # 0
    <3>1. n - 1 \in Nat /\ n - 1 < n /\ n \in Nat \ {0}
      BY <2>2
    <3> QED BY <1>1, <1>2, <3>1
  <2> QED BY <2>1, <2>2
<1> QED BY <1>1, <1>2, MeasureInduction

Sentences == Grammar

LEMMA GrammarUnfolded ==
    Sentences[0] = NoSentences /\ \A n \in Nat \ {0} : Sentences[n] = Longer(Sentences[n - 1], n)
<1> DEFINE Solved(S, n) == S[0] = NoSentences /\ \A k \in 1..n : S[k] = Longer(S[k - 1], k)
<1>1. ASSUME NEW n \in Nat, NEW k \in Nat, n <= k, NEW S, Solved(S, n), NEW R, Solved(R, k), NEW x \in 0..n
      PROVE  S[x] = R[x]
  <2> DEFINE T == {y \in Nat : y <= n => S[y] = R[y]}
  <2>1. 0 \in T
    BY <1>1
  <2>2. ASSUME NEW y \in Nat \ {0}, y - 1 \in T PROVE y \in T
    <3> SUFFICES ASSUME y <= n PROVE S[y] = R[y]
      OBVIOUS
    <3>1. y \in 1..n /\ y \in 1..k /\ y - 1 <= n
      BY <1>1
    <3>2. S[y - 1] = R[y - 1]
      BY <2>2, <3>1
    <3>3. S[y] = Longer(S[y - 1], y) /\ R[y] = Longer(R[y - 1], y)
      BY <1>1, <3>1
    <3> QED BY <3>2, <3>3
  <2>3. Nat \subseteq T
    <3> HIDE DEF T, Solved
    <3> QED BY <2>1, <2>2, NatSet
  <2>4. x \in Nat /\ x <= n
    BY <1>1
  <2> QED BY <2>3, <2>4
<1>2. \A n \in Nat : \E S : Solved(S, n)
  <2> DEFINE T == {n \in Nat : \E S : Solved(S, n)}
  <2>1. 0 \in T
    <3> DEFINE S == [k \in Nat |-> NoSentences]
    <3>1. S[0] = NoSentences
      OBVIOUS
    <3> HIDE DEF S
    <3>2. Solved(S, 0)
      BY <3>1
    <3> HIDE DEF Solved
    <3> QED BY <3>2
  <2>2. ASSUME NEW n \in Nat \ {0}, n - 1 \in T PROVE n \in T
    <3>1. PICK S : Solved(S, n - 1)
      BY <2>2
    <3> DEFINE R == [k \in Nat |-> IF k = n THEN Longer(S[n - 1], n) ELSE S[k]]
    <3>2. R[0] = NoSentences
      BY <3>1
    <3>3. \A k \in 0..(n - 1) : R[k] = S[k]
      <4> TAKE k \in 0..(n - 1)
      <4>1. k \in Nat /\ k # n
        OBVIOUS
      <4> QED BY <4>1
    <3>4. R[n] = Longer(S[n - 1], n)
      OBVIOUS
    <3> HIDE DEF R
    <3>5. ASSUME NEW k \in 1..n PROVE R[k] = Longer(R[k - 1], k)
      <4>1. k - 1 \in 0..(n - 1) /\ n - 1 \in 0..(n - 1)
        OBVIOUS
      <4>2. R[k - 1] = S[k - 1]
        BY <3>3, <4>1
      <4>3. CASE k = n
        BY <3>4, <4>2, <4>3
      <4>4. CASE k # n
        <5>1. k \in 1..(n - 1) /\ k \in 0..(n - 1)
          BY <4>4
        <5>2. S[k] = Longer(S[k - 1], k)
          BY <3>1, <5>1
        <5> QED BY <3>3, <4>2, <5>1, <5>2
      <4> QED BY <4>3, <4>4
    <3>6. Solved(R, n)
      BY <3>2, <3>5
    <3> HIDE DEF Solved
    <3> QED BY <3>6
  <2>3. Nat \subseteq T
    <3> HIDE DEF T, Solved
    <3> QED BY <2>1, <2>2, NatSet
  <2> QED BY <2>3
<1> DEFINE At(n) == CHOOSE S : Solved(S, n)
           F == [n \in Nat |-> At(n)[n]]
<1>3. \A n \in Nat : Solved(At(n), n)
  BY <1>2
<1>4. F[0] = NoSentences
  <2>1. Solved(At(0), 0)
    BY <1>3
  <2>2. At(0)[0] = NoSentences
    BY <2>1
  <2> HIDE DEF At
  <2> QED BY <2>2
<1>5. ASSUME NEW n \in Nat \ {0} PROVE F[n] = Longer(F[n - 1], n)
  <2>1. n \in Nat /\ n - 1 \in Nat /\ n - 1 <= n /\ n - 1 \in 0..(n - 1) /\ n \in 1..n
    OBVIOUS
  <2>2. Solved(At(n), n) /\ Solved(At(n - 1), n - 1)
    BY <1>3, <2>1
  <2> HIDE DEF At
  <2>3. At(n)[n] = Longer(At(n)[n - 1], n)
    BY <2>1, <2>2
  <2>4. At(n - 1)[n - 1] = At(n)[n - 1]
    <3> HIDE DEF Solved
    <3> QED BY <1>1, <2>1, <2>2
  <2>5. F[n] = At(n)[n] /\ F[n - 1] = At(n - 1)[n - 1]
    BY <2>1
  <2> QED BY <2>3, <2>4, <2>5
<1> DEFINE Step(G) == [n \in Nat |-> IF n = 0 THEN NoSentences ELSE Longer(G[n - 1], n)]
<1>6. F = Step(F)
  <2>1. F = [n \in Nat |-> F[n]]
    OBVIOUS
  <2> HIDE DEF F
  <2>2. \A n \in Nat : F[n] = IF n = 0 THEN NoSentences ELSE Longer(F[n - 1], n)
    BY <1>4, <1>5
  <2> QED BY <2>1, <2>2
<1>7. Sentences = CHOOSE G : G = Step(G)
  BY DEF Sentences, Grammar
<1>8. Sentences = Step(Sentences)
  <2> HIDE DEF F, Step
  <2> QED BY <1>6, <1>7
<1>9. PICK G : G = Sentences
  OBVIOUS
<1>10. G = Step(G)
  BY <1>8, <1>9
<1>11. G[0] = NoSentences /\ \A n \in Nat \ {0} : G[n] = Longer(G[n - 1], n)
  BY <1>10
<1> QED BY <1>9, <1>11

\* The sentences of n tokens.
Stmts(n) == Sentences[n].stmt[n]
Blocks(n) == Bodies(n)
Lists(n) == Sentences[n].list[n]

\* A longer table keeps what a shorter one holds.
LEMMA SentencesKept ==
    ASSUME NEW n \in Nat, NEW m \in 0..n
    PROVE  /\ Sentences[n].stmt[m] = Stmts(m)
           /\ Sentences[n].list[m] = Lists(m)
<1> DEFINE Kept(k) == \A i \in 0..k : /\ Sentences[k].stmt[i] = Stmts(i)
                                      /\ Sentences[k].list[i] = Lists(i)
           T == {k \in Nat : Kept(k)}
<1>1. 0 \in T
  <2>1. \A i \in 0..0 : i = 0
    OBVIOUS
  <2> QED BY <2>1 DEF Stmts, Lists
<1>2. ASSUME NEW k \in Nat \ {0}, k - 1 \in T PROVE k \in T
  <2> SUFFICES ASSUME NEW i \in 0..k
               PROVE  Sentences[k].stmt[i] = Stmts(i) /\ Sentences[k].list[i] = Lists(i)
    OBVIOUS
  <2>1. CASE i = k
    BY <2>1 DEF Stmts, Lists
  <2>2. CASE i # k
    <3>1. i < k /\ i \in 0..(k - 1)
      BY <2>2
    <3>2. Sentences[k] = Longer(Sentences[k - 1], k)
      BY GrammarUnfolded
    <3>3. PICK X, Z : /\ X = StatementsOf(Sentences[k - 1], k)
                      /\ Z = ListsOf(Sentences[k - 1], k, StatementsOf(Sentences[k - 1], k))
      OBVIOUS
    <3>4. PICK G : G = Sentences[k - 1]
      OBVIOUS
    <3>5. Sentences[k] = [stmt |-> [j \in 0..k |-> IF j < k THEN G.stmt[j] ELSE X],
                          list |-> [j \in 0..k |-> IF j < k THEN G.list[j] ELSE Z]]
      BY <3>2, <3>3, <3>4 DEF Longer
    <3>6. Sentences[k].stmt[i] = G.stmt[i] /\ Sentences[k].list[i] = G.list[i]
      BY <3>1, <3>5
    <3>7. Kept(k - 1)
      BY <1>2
    <3> QED BY <3>1, <3>4, <3>6, <3>7
  <2> QED BY <2>1, <2>2
<1>3. Nat \subseteq T
  <2> HIDE DEF T
  <2> QED BY <1>1, <1>2, NatSet
<1> QED BY <1>3

LEMMA SentencesOf ==
    ASSUME NEW n \in Nat \ {0}
    PROVE  /\ Stmts(n) = StatementsOf(Sentences[n - 1], n)
           /\ Lists(n) = ListsOf(Sentences[n - 1], n, Stmts(n))
<1>1. Sentences[n] = Longer(Sentences[n - 1], n)
  BY GrammarUnfolded
<1>2. PICK X, Z : /\ X = StatementsOf(Sentences[n - 1], n)
                  /\ Z = ListsOf(Sentences[n - 1], n, StatementsOf(Sentences[n - 1], n))
  OBVIOUS
<1>3. PICK G : G = Sentences[n - 1]
  OBVIOUS
<1>4. Sentences[n] = [stmt |-> [j \in 0..n |-> IF j < n THEN G.stmt[j] ELSE X],
                      list |-> [j \in 0..n |-> IF j < n THEN G.list[j] ELSE Z]]
  BY <1>1, <1>2, <1>3 DEF Longer
<1>5. n \in 0..n /\ ~(n < n)
  OBVIOUS
<1>6. Sentences[n].stmt[n] = X /\ Sentences[n].list[n] = Z
  BY <1>4, <1>5
<1> QED BY <1>2, <1>6 DEF Stmts, Lists

LEMMA NoneEmpty == Stmts(0) = {} /\ Blocks(0) = {} /\ Lists(0) = {<<>>}
BY GrammarUnfolded DEF Stmts, Blocks, Lists, NoSentences, Bodies, BlocksOf

\* A block is a list in braces, in whatever table its list is looked up.
LEMMA BlocksAre ==
    ASSUME NEW n \in Nat, NEW k \in Nat, n <= k + 1
    PROVE  BlocksOf(Sentences[k], n) = Blocks(n)
<1>1. CASE n < 2
  BY <1>1 DEF BlocksOf, Blocks, Bodies
<1>2. CASE ~(n < 2)
  <2>1. n - 2 \in 0..k /\ n - 2 \in 0..n
    BY <1>2
  <2>2. Sentences[k].list[n - 2] = Lists(n - 2) /\ Sentences[n].list[n - 2] = Lists(n - 2)
    BY <2>1, SentencesKept
  <2> QED BY <2>2 DEF BlocksOf, Blocks, Bodies, Sentences
<1> QED BY <1>1, <1>2

-----------------------------------------------------------------------------
(* Its productions, for sentences of any length.                           *)

IsStmt(s) == s \in Stmts(Len(s))
IsBlock(s) == s \in Blocks(Len(s))
IsList(s) == s \in Lists(Len(s))

LEMMA StmtIn ==
    ASSUME NEW n \in Nat, NEW b \in Seq(Tokens), Len(b) <= n, IsStmt(b)
    PROVE  b \in Sentences[n].stmt[Len(b)]
<1>1. Len(b) \in 0..n
  OBVIOUS
<1> QED BY <1>1, SentencesKept DEF IsStmt

LEMMA JoinedHas ==
    ASSUME NEW A, NEW B, NEW a \in A, NEW b \in B
    PROVE  a \o b \in Joined(A, B)
BY DEF Joined

LEMMA StmtAlone == IsStmt(<<"stmt">>)
<1>1. Len(<<"stmt">>) = 1 /\ 1 \in Nat \ {0}
  OBVIOUS
<1>2. <<"stmt">> \in StatementsOf(Sentences[1 - 1], 1)
  BY DEF StatementsOf
<1> QED BY <1>1, <1>2, SentencesOf DEF IsStmt

LEMMA IfAlone ==
    ASSUME NEW b \in Seq(Tokens), IsStmt(b)
    PROVE  IsStmt(<<"if">> \o b)
<1> DEFINE n == Len(b) + 1
<1>1. Len(b) \in Nat /\ n \in Nat \ {0} /\ n - 1 = Len(b) /\ Len(b) <= Len(b) /\ Len(<<"if">> \o b) = n
  OBVIOUS
<1> HIDE DEF n
<1>2. b \in Sentences[n - 1].stmt[n - 1]
  BY <1>1, StmtIn
<1>3. <<"if">> \o b \in Joined({<<"if">>}, Sentences[n - 1].stmt[n - 1]
            \cup Splits(Sentences[n - 1].stmt, ElsesOf(Sentences[n - 1], n - 1), n - 1))
  BY <1>2, JoinedHas
<1>4. <<"if">> \o b \in StatementsOf(Sentences[n - 1], n)
  BY <1>3 DEF StatementsOf
<1> QED BY <1>1, <1>4, SentencesOf DEF IsStmt

LEMMA IfWithElse ==
    ASSUME NEW b \in Seq(Tokens), NEW c \in Seq(Tokens), IsStmt(b), IsStmt(c)
    PROVE  IsStmt(<<"if">> \o (b \o (<<"else">> \o c)))
<1> DEFINE e == <<"else">> \o c
           n == Len(b) + Len(e) + 1
<1>1. e \in Seq(Tokens)
  BY DEF Tokens
<1>2. Len(b) \in Nat /\ Len(c) \in Nat /\ Len(e) = Len(c) + 1
  OBVIOUS
<1>3. b \o e \in Seq(Tokens) /\ Len(b \o e) = Len(b) + Len(e)
  BY <1>1
<1>4. Len(<<"if">> \o (b \o e)) = n
  BY <1>1, <1>3
<1>5. n \in Nat \ {0} /\ n - 1 \in Nat /\ Len(b) <= n - 1 /\ Len(c) <= n - 1 /\ n - 1 - Len(b) = Len(e)
  BY <1>2
<1> HIDE DEF n
<1>6. b \in Sentences[n - 1].stmt[Len(b)] /\ c \in Sentences[n - 1].stmt[Len(c)]
  BY <1>5, StmtIn
<1>7. e \in ElsesOf(Sentences[n - 1], n - 1)[Len(e)]
  <2>1. e \in Joined({<<"else">>}, Sentences[n - 1].stmt[Len(c)])
    BY <1>6, JoinedHas
  <2>2. Len(e) \in 0..(n - 1) /\ Len(e) # 0 /\ Len(e) - 1 = Len(c)
    BY <1>2, <1>5
  <2> HIDE DEF e
  <2> QED BY <2>1, <2>2 DEF ElsesOf
<1> HIDE DEF e
<1>8. b \o e \in Splits(Sentences[n - 1].stmt, ElsesOf(Sentences[n - 1], n - 1), n - 1)
  <2>1. Len(b) \in 0..(n - 1)
    BY <1>2, <1>5
  <2>2. b \o e \in Joined(Sentences[n - 1].stmt[Len(b)],
                          ElsesOf(Sentences[n - 1], n - 1)[n - 1 - Len(b)])
    BY <1>5, <1>6, <1>7, JoinedHas
  <2> QED BY <2>1, <2>2 DEF Splits
<1>9. <<"if">> \o (b \o e) \in Joined({<<"if">>}, Sentences[n - 1].stmt[n - 1]
            \cup Splits(Sentences[n - 1].stmt, ElsesOf(Sentences[n - 1], n - 1), n - 1))
  BY <1>8, JoinedHas
<1>10. <<"if">> \o (b \o e) \in StatementsOf(Sentences[n - 1], n)
  BY <1>9 DEF StatementsOf
<1>11. <<"if">> \o (b \o e) \in Stmts(n)
  BY <1>5, <1>10, SentencesOf
<1>12. IsStmt(<<"if">> \o (b \o e))
  BY <1>4, <1>11 DEF IsStmt
<1> QED BY <1>12 DEF e

LEMMA ForAlone ==
    ASSUME NEW s \in Seq(Tokens), IsStmt(s)
    PROVE  IsStmt(<<"for">> \o s)
<1> DEFINE n == Len(s) + 1
<1>1. Len(s) \in Nat /\ n \in Nat \ {0} /\ n - 1 = Len(s) /\ Len(<<"for">> \o s) = n
  OBVIOUS
<1> HIDE DEF n
<1>2. s \in Sentences[n - 1].stmt[n - 1]
  BY <1>1 DEF IsStmt, Stmts
<1>3. <<"for">> \o s \in Joined({<<"for">>}, Sentences[n - 1].stmt[n - 1])
  BY <1>2, JoinedHas
<1>4. <<"for">> \o s \in StatementsOf(Sentences[n - 1], n)
  BY <1>3 DEF StatementsOf
<1> QED BY <1>1, <1>4, SentencesOf DEF IsStmt

LEMMA BlockOf ==
    ASSUME NEW s \in Seq(Tokens), IsList(s)
    PROVE  IsBlock((<<"lbrace">> \o s) \o <<"rbrace">>)
<1> DEFINE n == Len(s) + 2
           b == (<<"lbrace">> \o s) \o <<"rbrace">>
<1>1. Len(s) \in Nat /\ n \in Nat /\ ~(n < 2) /\ n - 2 = Len(s) /\ n - 2 \in 0..n /\ Len(b) = n
  OBVIOUS
<1>2. s \in Sentences[n].list[n - 2]
  <2> HIDE DEF n
  <2> QED BY <1>1, SentencesKept DEF IsList
<1>3. b \in Joined(Joined({<<"lbrace">>}, Sentences[n].list[n - 2]), {<<"rbrace">>})
  <2> HIDE DEF n
  <2>1. <<"lbrace">> \o s \in Joined({<<"lbrace">>}, Sentences[n].list[n - 2])
    BY <1>2, JoinedHas
  <2>2. <<"rbrace">> \in {<<"rbrace">>}
    OBVIOUS
  <2> QED BY <2>1, <2>2, JoinedHas
<1> HIDE DEF n, b
<1>4. b \in BlocksOf(Sentences[n], n)
  BY <1>1, <1>3 DEF BlocksOf
<1>5. b \in Blocks(n)
  BY <1>4 DEF Blocks, Bodies, Sentences
<1>6. IsBlock(b)
  BY <1>1, <1>5 DEF IsBlock
<1> QED BY <1>6 DEF b

\* A block is a statement, and a statement a list.
LEMMA BlockIsStmt ==
    ASSUME NEW s \in Seq(Tokens), IsBlock(s)
    PROVE  IsStmt(s)
<1>1. Len(s) \in Nat
  OBVIOUS
<1>2. Len(s) \in Nat \ {0}
  BY <1>1, NoneEmpty DEF IsBlock
<1>3. BlocksOf(Sentences[Len(s) - 1], Len(s)) = Blocks(Len(s))
  <2>1. Len(s) - 1 \in Nat /\ Len(s) <= (Len(s) - 1) + 1
    BY <1>2
  <2> QED BY <1>1, <2>1, BlocksAre
<1>4. s \in StatementsOf(Sentences[Len(s) - 1], Len(s))
  BY <1>3 DEF IsBlock, StatementsOf
<1> QED BY <1>2, <1>4, SentencesOf DEF IsStmt

LEMMA StmtIsList ==
    ASSUME NEW s \in Seq(Tokens), IsStmt(s)
    PROVE  IsList(s)
<1>1. Len(s) \in Nat
  OBVIOUS
<1>2. Len(s) \in Nat \ {0}
  BY <1>1, NoneEmpty DEF IsStmt
<1>3. s \in ListsOf(Sentences[Len(s) - 1], Len(s), Stmts(Len(s)))
  BY DEF IsStmt, ListsOf
<1> QED BY <1>2, <1>3, SentencesOf DEF IsList

LEMMA ListEmpty == IsList(<<>>)
BY NoneEmpty DEF IsList

LEMMA ListBehind ==
    ASSUME NEW s \in Seq(Tokens), NEW l \in Seq(Tokens), IsStmt(s), IsList(l)
    PROVE  IsList(s \o l)
<1> DEFINE n == Len(s) + Len(l)
<1>1. Len(s) \in Nat /\ Len(l) \in Nat /\ Len(s \o l) = n
  OBVIOUS
<1>2. Len(s) # 0
  BY NoneEmpty DEF IsStmt
<1>3. n \in Nat \ {0} /\ Len(s) \in 1..n /\ n - Len(s) = Len(l) /\ n - 1 \in Nat
  BY <1>1, <1>2
<1>4. CASE l = <<>>
  <2>1. s \o l = s /\ n = Len(s)
    BY <1>1, <1>4
  <2> HIDE DEF n
  <2>2. s \in ListsOf(Sentences[n - 1], n, Stmts(n))
    BY <2>1 DEF ListsOf, IsStmt
  <2> QED BY <1>3, <2>1, <2>2, SentencesOf DEF IsList
<1>5. CASE l # <<>>
  <2>1. Len(l) # 0
    BY <1>5, EmptySeq
  <2>2. Len(s) \in 1..(n - 1) /\ Len(s) \in 0..(n - 1) /\ Len(l) \in 0..(n - 1)
    BY <1>1, <1>2, <2>1
  <2> HIDE DEF n
  <2>3. s \in Sentences[n - 1].stmt[Len(s)] /\ l \in Sentences[n - 1].list[n - Len(s)]
    BY <1>3, <2>2, SentencesKept DEF IsStmt, IsList
  <2>4. s \o l \in Joined(Sentences[n - 1].stmt[Len(s)], Sentences[n - 1].list[n - Len(s)])
    BY <2>3, JoinedHas
  <2>5. s \o l \in ListsOf(Sentences[n - 1], n, Stmts(n))
    BY <2>2, <2>4 DEF ListsOf
  <2>6. s \o l \in Lists(n)
    BY <1>3, <2>5, SentencesOf
  <2> QED BY <1>1, <2>6 DEF IsList
<1> QED BY <1>4, <1>5

-----------------------------------------------------------------------------
(* What the parse functions read is what the grammar says.                 *)

Piece(p, q) == SubSeq(tokens, p, q - 1)

LEMMA PieceIs ==
    ASSUME tokens \in Seq(Tokens), NEW p \in Places, NEW q \in Places, p <= q, q <= Len(tokens) + 1
    PROVE  /\ Piece(p, q) \in Seq(Tokens)
           /\ \A r \in Places : q <= r /\ r <= Len(tokens) + 1 => Piece(p, q) \o Piece(q, r) = Piece(p, r)
<1>1. Len(tokens) \in Nat /\ \A i \in 1..Len(tokens) : tokens[i] \in Tokens
  OBVIOUS
<1>2. p \in Int /\ q - 1 \in Int /\ p \in 1..(Len(tokens) + 1) /\ q - 1 \in (p - 1)..Len(tokens) /\ (q - 1) + 1 = q
  BY <1>1 DEF Places
<1>3. \A i \in p..(q - 1) : tokens[i] \in Tokens
  BY <1>1, <1>2 DEF Places
<1>4. Piece(p, q) \in Seq(Tokens)
  BY <1>2, <1>3, SubSeqProperties DEF Piece
<1>5. ASSUME NEW r \in Places, q <= r, r <= Len(tokens) + 1 PROVE Piece(p, q) \o Piece(q, r) = Piece(p, r)
  <2>1. r - 1 \in (q - 1)..Len(tokens)
    BY <1>1, <1>2, <1>5 DEF Places
  <2>2. SubSeq(tokens, p, q - 1) \o SubSeq(tokens, (q - 1) + 1, r - 1) = SubSeq(tokens, p, r - 1)
    BY ONLY <1>2, <2>1, tokens \in Seq(Tokens), ConcatAdjacentSubSeq
  <2> QED BY <1>2, <2>2 DEF Piece
<1> QED BY <1>4, <1>5

LEMMA PieceOne ==
    ASSUME tokens \in Seq(Tokens), NEW p \in Places, p <= Len(tokens)
    PROVE  /\ Piece(p, p + 1) = <<tokens[p]>> /\ Piece(p, p) = <<>>
           /\ p + 1 \in Places /\ p <= p + 1 /\ p + 1 <= Len(tokens) + 1
<1>1. p \in 1..Len(tokens) /\ p \in p..Len(tokens) /\ p \in Int /\ (p + 1) - 1 = p /\ p - 1 \in Int /\ p - 1 < p /\ p + 1 \in Int /\ p < p + 1
  BY DEF Places
<1>2. SubSeq(tokens, p, p) = <<tokens[p]>> \o SubSeq(tokens, p + 1, p)
  BY <1>1, SubSeqRecursiveFirst
<1>3. SubSeq(tokens, p + 1, p) = <<>> /\ SubSeq(tokens, p, p - 1) = <<>>
  BY <1>1, SubSeqEmpty
<1>4. tokens[p] \in Tokens
  BY <1>1
<1>5. <<tokens[p]>> \o <<>> = <<tokens[p]>>
  BY <1>4
<1>6. Piece(p, p + 1) = <<tokens[p]>>
  BY <1>1, <1>2, <1>3, <1>5 DEF Piece
<1>7. Piece(p, p) = <<>>
  BY <1>3 DEF Piece
<1>8. p + 1 \in Places /\ p <= p + 1 /\ p + 1 <= Len(tokens) + 1
  BY <1>1 DEF Places
<1> QED BY <1>6, <1>7, <1>8

\* A call whose braces are all braces has read a sentence; one for a statement that fails
\* silently has read nothing, or everything.
Faithful(what, p, r) ==
    /\ r.ok /\ ~r.wrong /\ p <= Len(tokens) + 1 =>
          CASE what \in {"inner", "alone"} -> IsStmt(Piece(p, r.next))
            [] what = "rest" -> Token(r.next) = "rbrace" => IsList(Piece(p, r.next))
            [] what = "domain" ->
                  IF Token(p) = "lbrace" THEN IsBlock(Piece(p, r.next))
                  ELSE Token(r.next) = "rbrace" => IsList(Piece(p, r.next))
    /\ ~r.ok /\ ~r.said /\ what \in {"inner", "alone"} => r.next = p \/ Token(r.next) = "eof"

LEMMA BlockPiece ==
    ASSUME tokens \in Seq(Tokens), NEW p \in Places, NEW q \in Places, p + 1 <= q,
           Token(p) = "lbrace", Token(q) = "rbrace",
           IsList(Piece(p + 1, q)) \/ IsBlock(Piece(p + 1, q))
    PROVE  IsBlock(Piece(p, q + 1))
<1>1. Len(tokens) \in Nat /\ q <= Len(tokens) /\ p <= Len(tokens) /\ tokens[p] = "lbrace" /\ tokens[q] = "rbrace"
  <2>1. Len(tokens) \in Nat /\ ~(q > Len(tokens))
    BY TokenAt
  <2>2. p <= Len(tokens) /\ q <= Len(tokens)
    BY <2>1 DEF Places
  <2> QED BY <2>1, <2>2, TokenAt
<1>2. p + 1 \in Places /\ q + 1 \in Places /\ p <= p + 1 /\ p + 1 <= Len(tokens) + 1 /\ q + 1 <= Len(tokens) + 1
      /\ p <= q /\ q <= q + 1 /\ q <= Len(tokens) + 1
  BY <1>1 DEF Places
<1>3. Piece(p, p + 1) = <<"lbrace">> /\ Piece(q, q + 1) = <<"rbrace">>
  BY <1>1, PieceOne
<1>4. Piece(p + 1, q) \in Seq(Tokens) /\ Piece(p, p + 1) \o Piece(p + 1, q) = Piece(p, q)
  BY <1>2, PieceIs
<1>5. Piece(p, q) \o Piece(q, q + 1) = Piece(p, q + 1)
  BY <1>2, PieceIs
<1>6. IsList(Piece(p + 1, q))
  BY <1>4, BlockIsStmt, StmtIsList
<1>7. IsBlock((<<"lbrace">> \o Piece(p + 1, q)) \o <<"rbrace">>)
  BY <1>4, <1>6, BlockOf
<1> QED BY <1>3, <1>4, <1>5, <1>7

LEMMA ParsedSame ==
    ASSUME tokens \in Seq(Tokens), NEW p \in Places
    PROVE  Same(Parsed, Parsed, p)
BY ParsedUnfolded DEF Same

LEMMA BranchFaithful ==
    ASSUME tokens \in Seq(Tokens), NEW p0 \in Places, NEW p \in Places, p > p0, p <= Len(tokens) + 1,
           \A k \in Kinds, q \in Places : q > p0 => Faithful(k, q, Parsed[<<k, q>>])
    PROVE  /\ Sound(p, Branch(Parsed, p)) /\ Moves(p, Branch(Parsed, p))
           /\ Branch(Parsed, p).ok /\ ~Branch(Parsed, p).wrong => IsStmt(Piece(p, Branch(Parsed, p).next))
           /\ ~Branch(Parsed, p).ok /\ ~Branch(Parsed, p).said => Token(Branch(Parsed, p).next) = "eof"
<1>1. Len(tokens) \in Nat /\ p + 1 \in Places /\ p + 1 > p0 /\ p0 \in Nat /\ p \in Nat
  BY TokenAt DEF Places
<1>2. PICK b : b = Branch(Parsed, p)
  OBVIOUS
<1>3. Sound(p, b) /\ Moves(p, b)
  BY <1>2, ParsedSame, BranchSound
<1>4. CASE Token(p) = "lbrace"
  <2>0. "domain" \in Kinds
    BY DEF Kinds
  <2>1. PICK d : d = Parsed[<<"domain", p + 1>>]
    OBVIOUS
  <2>2. Sound(p + 1, d) /\ Faithful("domain", p + 1, d) /\ Audible("domain", p + 1, d)
    BY <1>1, <2>0, <2>1, ParsedSound, ParsedAudible
  <2>3. b = BranchEnd(d)
    BY <1>2, <1>4, <2>1 DEF Branch
  <2>4. p <= Len(tokens)
    BY <1>1, <1>4, TokenAt
  <2>5. /\ ~d.ok => b = d
        /\ d.ok => b.ok
        /\ d.ok /\ ~b.wrong => ~d.wrong /\ Token(d.next) = "rbrace" /\ b.next = d.next + 1
    BY <2>2, <2>3, <2>4, BranchEndSound
  <2>6. ASSUME b.ok, ~b.wrong PROVE IsStmt(Piece(p, b.next))
    <3>1. d.ok /\ ~d.wrong /\ Token(d.next) = "rbrace" /\ b.next = d.next + 1
      BY <2>5, <2>6
    <3>2. d.next \in Places /\ p + 1 <= d.next /\ p + 1 <= Len(tokens) + 1
      BY <1>1, <2>2, <2>4 DEF Sound, Places
    <3>3. IsList(Piece(p + 1, d.next)) \/ IsBlock(Piece(p + 1, d.next))
      BY <2>2, <3>1, <3>2 DEF Faithful
    <3>4. IsBlock(Piece(p, d.next + 1))
      BY <1>4, <3>1, <3>2, <3>3, BlockPiece
    <3>5. Piece(p, d.next + 1) \in Seq(Tokens)
      <4>1. d.next + 1 \in Places /\ p <= d.next + 1 /\ d.next <= Len(tokens) + 1
        BY <1>1, <2>2, <2>4, <3>2 DEF Sound, Places
      <4>2. d.next <= Len(tokens)
        <5>1. PICK n \in Places : n = d.next
          BY <3>2
        <5>2. Token(n) = "rbrace" /\ ~(n > Len(tokens))
          BY <3>1, <5>1, TokenAt
        <5>3. n \in Nat
          BY DEF Places
        <5> QED BY <1>1, <5>1, <5>2, <5>3
      <4>3. d.next + 1 <= Len(tokens) + 1
        BY <1>1, <3>2, <4>2 DEF Places
      <4> QED BY <4>1, <4>3, PieceIs
    <3> QED BY <3>1, <3>4, <3>5, BlockIsStmt
  <2>7. ASSUME ~b.ok, ~b.said PROVE Token(b.next) = "eof"
    <3>1. ~d.ok /\ b = d
      BY <2>5, <2>7
    <3>2. IsEOF(d.next)
      BY <2>2, <2>7, <3>1 DEF Audible
    <3>3. d.next \in Places
      BY <1>1, <2>2 DEF Sound, Places
    <3> QED BY <3>1, <3>2, <3>3, TokenAt DEF IsEOF
  <2> QED BY <1>2, <1>3, <2>6, <2>7
<1>5. CASE Token(p) # "lbrace"
  <2>0. "alone" \in Kinds
    BY DEF Kinds
  <2>1. PICK s : s = Parsed[<<"alone", p>>]
    OBVIOUS
  <2>2. Sound(p, s) /\ Moves(p, s) /\ Faithful("alone", p, s)
    BY <1>1, <2>0, <2>1, ParsedSound
  <2>3. b = Alone(s)
    BY <1>2, <1>5, <2>1 DEF Branch
  <2>4. (s.ok => b = s) /\ (~s.ok => ~b.ok /\ b.said)
    BY <2>2, <2>3, AloneSound
  <2>5. b.ok /\ ~b.wrong => IsStmt(Piece(p, b.next))
    BY <2>2, <2>4 DEF Faithful
  <2> QED BY <1>2, <1>3, <2>4, <2>5
<1> QED BY <1>4, <1>5

LEMMA IfFaithful ==
    ASSUME tokens \in Seq(Tokens), NEW p \in Places, p <= Len(tokens), Token(p) = "if",
           \A k \in Kinds, q \in Places : q > p => Faithful(k, q, Parsed[<<k, q>>])
    PROVE  LET r == IfParse(Parsed, p + 1)
           IN  /\ r.ok /\ ~r.wrong => IsStmt(Piece(p, r.next))
               /\ ~r.ok /\ ~r.said => Token(r.next) = "eof"
<1>1. Len(tokens) \in Nat /\ p + 1 \in Places /\ p + 1 > p /\ p + 1 <= Len(tokens) + 1 /\ p <= p + 1
  BY TokenAt DEF Places
<1>2. PICK r : r = IfParse(Parsed, p + 1)
  OBVIOUS
<1>3. PICK t : t = Branch(Parsed, p + 1)
  OBVIOUS
<1>4. /\ Sound(p + 1, t) /\ Moves(p + 1, t)
      /\ t.ok /\ ~t.wrong => IsStmt(Piece(p + 1, t.next))
      /\ ~t.ok /\ ~t.said => Token(t.next) = "eof"
  BY <1>1, <1>3, BranchFaithful
<1>5. /\ t.next \in Places /\ p + 1 <= t.next /\ t.next <= Len(tokens) + 1 /\ p <= t.next /\ t.wrong \in BOOLEAN
      /\ p < t.next
  BY <1>1, <1>4 DEF Sound, Places
<1>6. Piece(p, p + 1) = <<"if">>
  <2>1. tokens[p] = "if"
    BY TokenAt
  <2> QED BY <2>1, PieceOne
<1>7. Piece(p + 1, t.next) \in Seq(Tokens)
  BY <1>1, <1>5, PieceIs
<1>8. \A q \in Places : p + 1 <= q /\ q <= Len(tokens) + 1 => <<"if">> \o Piece(p + 1, q) = Piece(p, q)
  BY <1>1, <1>6, PieceIs, ZenonT(40)
<1>9. CASE ~t.ok
  <2>1. r = t
    BY <1>2, <1>3, <1>9 DEF IfParse
  <2> QED BY <1>2, <1>4, <1>9, <2>1
<1>10. CASE t.ok /\ Token(t.next) # "else"
  <2>1. PICK x : x = <<"if", t.tree>>
    OBVIOUS
  <2>2. r = Ok(t.next, x, t.wrong)
    BY <1>2, <1>3, <1>10, <2>1 DEF IfParse
  <2>3. r.ok /\ r.next = t.next /\ r.wrong = t.wrong
    BY <2>2 DEF Ok
  <2>4. ~t.wrong => IsStmt(<<"if">> \o Piece(p + 1, t.next))
    BY <1>4, <1>7, <1>10, IfAlone
  <2> QED BY <1>2, <1>5, <1>8, <2>3, <2>4
<1>11. CASE t.ok /\ Token(t.next) = "else"
  <2>1. t.next <= Len(tokens) /\ tokens[t.next] = "else"
    <3>1. t.next <= Len(tokens)
      BY <1>1, <1>5, <1>11, TokenAt DEF Places
    <3> QED BY <1>5, <1>11, <3>1, TokenAt
  <2>2. t.next + 1 \in Places /\ t.next + 1 > p /\ t.next + 1 <= Len(tokens) + 1 /\ t.next <= t.next + 1
    BY <1>1, <1>5, <2>1 DEF Places
  <2>3. PICK e : e = Branch(Parsed, t.next + 1)
    OBVIOUS
  <2>4. /\ Sound(t.next + 1, e)
        /\ e.ok /\ ~e.wrong => IsStmt(Piece(t.next + 1, e.next))
        /\ ~e.ok /\ ~e.said => Token(e.next) = "eof"
    BY <2>2, <2>3, BranchFaithful
  <2>5. r = IfElse(t, e)
    BY <1>2, <1>3, <1>11, <2>3 DEF IfParse
  <2>6. CASE ~e.ok
    <3>1. r = e
      BY <2>5, <2>6 DEF IfElse
    <3> QED BY <1>2, <2>4, <2>6, <3>1
  <2>7. CASE e.ok
    <3>1. PICK x : x = <<"if", t.tree, e.tree>>
      OBVIOUS
    <3>2. e.wrong \in BOOLEAN /\ e.next \in Places /\ t.next + 1 <= e.next /\ e.next <= Len(tokens) + 1
      BY <1>5, <2>2, <2>4 DEF Sound, Places
    <3>3. PICK o \in BOOLEAN : o = (t.wrong \/ e.wrong)
      BY <1>5, <3>2
    <3>4. r = Ok(e.next, x, o)
      BY <2>5, <2>7, <3>1, <3>3 DEF IfElse
    <3>5. r.ok /\ r.next = e.next /\ r.wrong = o
      BY <3>4 DEF Ok
    <3>6. ASSUME ~o PROVE IsStmt(Piece(p, e.next))
      <4>1. IsStmt(Piece(p + 1, t.next)) /\ IsStmt(Piece(t.next + 1, e.next))
        BY <1>4, <1>11, <2>4, <2>7, <3>3, <3>6
      <4>2. Piece(t.next + 1, e.next) \in Seq(Tokens)
        BY <2>2, <3>2, PieceIs
      <4>3. IsStmt(<<"if">> \o (Piece(p + 1, t.next) \o (<<"else">> \o Piece(t.next + 1, e.next))))
        BY <1>7, <4>1, <4>2, IfWithElse
      <4>4. Piece(t.next, t.next + 1) = <<"else">>
        BY <1>5, <2>1, PieceOne
      <4>5. <<"else">> \o Piece(t.next + 1, e.next) = Piece(t.next, e.next)
        <5>1. PICK n \in Places, m \in Places : n = t.next /\ m = e.next
          BY <1>5, <3>2
        <5>2. n + 1 \in Places /\ n <= n + 1 /\ n + 1 <= Len(tokens) + 1 /\ n + 1 <= m /\ m <= Len(tokens) + 1
          BY <2>2, <3>2, <5>1
        <5>3. Piece(n, n + 1) \o Piece(n + 1, m) = Piece(n, m)
          BY <5>2, PieceIs
        <5> QED BY <4>4, <5>1, <5>3
      <4>6. t.next <= e.next /\ p + 1 <= e.next
        BY <1>1, <1>5, <2>2, <3>2 DEF Places
      <4>7. Piece(p + 1, t.next) \o Piece(t.next, e.next) = Piece(p + 1, e.next)
        BY <1>1, <1>5, <3>2, <4>6, PieceIs
      <4>8. <<"if">> \o Piece(p + 1, e.next) = Piece(p, e.next)
        BY <1>8, <3>2, <4>6
      <4> QED BY <4>3, <4>5, <4>7, <4>8
    <3> QED BY <1>2, <3>5, <3>6
  <2> QED BY <2>6, <2>7
<1> QED BY <1>9, <1>10, <1>11

LEMMA ForFaithful ==
    ASSUME tokens \in Seq(Tokens), NEW p \in Places, p <= Len(tokens), Token(p) = "for",
           \A k \in Kinds, q \in Places : q > p => Faithful(k, q, Parsed[<<k, q>>])
    PROVE  LET r == ForParse(Parsed, p + 1)
           IN  /\ r.ok /\ ~r.wrong => IsStmt(Piece(p, r.next))
               /\ ~r.ok => r.said
<1>1. Len(tokens) \in Nat /\ p + 1 \in Places /\ p + 1 > p /\ p + 1 <= Len(tokens) + 1 /\ p <= p + 1
  BY TokenAt DEF Places
<1>2. PICK r : r = ForParse(Parsed, p + 1)
  OBVIOUS
<1>3. PICK s : s = Parsed[<<"alone", p + 1>>]
  OBVIOUS
<1>4. "alone" \in Kinds
  BY DEF Kinds
<1>5. Sound(p + 1, s) /\ Moves(p + 1, s) /\ Faithful("alone", p + 1, s)
  BY <1>1, <1>3, <1>4, ParsedSound
<1>7. CASE ~s.ok
  <2>1. r = Failed(Past(s.next), TRUE, s.wrong)
    BY <1>2, <1>3, <1>7 DEF ForParse
  <2>2. ~r.ok /\ r.said
    BY <2>1 DEF Failed
  <2> QED BY <1>2, <2>2
<1>8. CASE s.ok
  <2>1. PICK x : x = <<"for", s.tree>>
    OBVIOUS
  <2>2. r = Ok(s.next, x, s.wrong)
    BY <1>2, <1>3, <1>8, <2>1 DEF ForParse
  <2>3. r.ok /\ r.next = s.next /\ r.wrong = s.wrong
    BY <2>2 DEF Ok
  <2>4. ASSUME ~s.wrong PROVE IsStmt(Piece(p, s.next))
    <3>1. IsStmt(Piece(p + 1, s.next))
      BY <1>1, <1>5, <1>8, <2>4 DEF Faithful
    <3>2. s.next \in Places /\ p + 1 <= s.next /\ s.next <= Len(tokens) + 1
      BY <1>1, <1>5 DEF Sound, Places
    <3>3. Piece(p + 1, s.next) \in Seq(Tokens)
      BY <1>1, <3>2, PieceIs
    <3>4. Piece(p, p + 1) = <<"for">>
      <4>1. tokens[p] = "for"
        BY TokenAt
      <4> QED BY <4>1, PieceOne
    <3>5. Piece(p, p + 1) \o Piece(p + 1, s.next) = Piece(p, s.next)
      BY <1>1, <3>2, PieceIs
    <3>6. IsStmt(<<"for">> \o Piece(p + 1, s.next))
      BY <3>1, <3>3, ForAlone
    <3> QED BY <3>4, <3>5, <3>6
  <2> QED BY <1>2, <2>3, <2>4
<1> QED BY <1>7, <1>8

LEMMA SingleFaithful ==
    ASSUME tokens \in Seq(Tokens), Whole, NEW p \in Places, NEW what \in {"inner", "alone"},
           p <= Len(tokens) => \A k \in Kinds, q \in Places : q > p => Faithful(k, q, Parsed[<<k, q>>])
    PROVE  Faithful(what, p, Parsed[<<what, p>>])
<1> DEFINE e == IF what = "inner" THEN "rbrace" ELSE "semicolon"
<1>1. what \in Kinds /\ Len(tokens) \in Nat /\ p \in Nat
  BY TokenAt DEF Kinds, Places
<1>2. PICK r : r = Parsed[<<what, p>>]
  OBVIOUS
<1>3. r = Single(Parsed, p, e)
  BY <1>1, <1>2, ParsedSound DEF Call
<1>4. e \in {"rbrace", "semicolon"}
  OBVIOUS
<1> HIDE DEF e
<1> SUFFICES /\ r.ok /\ ~r.wrong => IsStmt(Piece(p, r.next))
             /\ ~r.ok /\ ~r.said => r.next = p \/ Token(r.next) = "eof"
  BY <1>2 DEF Faithful
<1>5. Token(p) \in Tokens => p <= Len(tokens)
  <2>1. "eof" \notin Tokens
    BY DEF Tokens
  <2>2. p > Len(tokens) => Token(p) = "eof"
    BY TokenAt
  <2> QED BY <1>1, <2>1, <2>2
<1>6. CASE Token(p) \in {"eof", e} \/ Token(p) \notin {"stmt", "cut", "if", "for"}
  <2>1. PICK said \in BOOLEAN : said <=> Token(p) \notin {"eof", e}
    OBVIOUS
  <2>2. r = Failed(p, said, FALSE)
    BY <1>3, <1>4, <1>6, <2>1 DEF Single
  <2> QED BY <2>2 DEF Failed
<1>7. CASE Token(p) = "stmt"
  <2>1. p <= Len(tokens)
    BY <1>5, <1>7 DEF Tokens
  <2>2. tokens[p] = "stmt"
    BY <1>7, <2>1, TokenAt
  <2>3. r.ok /\ r.next = p + 1
    BY <1>3, <1>4, <1>7 DEF Single, Ok
  <2> QED BY <2>1, <2>2, <2>3, PieceOne, StmtAlone
<1>8. CASE Token(p) = "cut"
  <2>1. p <= Len(tokens)
    BY <1>5, <1>8 DEF Tokens
  <2>2. tokens[p] = "cut" /\ p \in DOMAIN tokens
    BY <1>1, <1>8, <2>1, TokenAt DEF Places
  <2> QED BY <2>2 DEF Whole
<1>9. CASE Token(p) = "if"
  <2>1. p <= Len(tokens)
    BY <1>5, <1>9 DEF Tokens
  <2>2. r = IfParse(Parsed, p + 1)
    BY <1>3, <1>4, <1>9 DEF Single
  <2> QED BY <1>9, <2>1, <2>2, IfFaithful
<1>10. CASE Token(p) = "for"
  <2>1. p <= Len(tokens)
    BY <1>5, <1>10 DEF Tokens
  <2>2. r = ForParse(Parsed, p + 1)
    BY <1>3, <1>4, <1>10 DEF Single
  <2> QED BY <1>10, <2>1, <2>2, ForFaithful
<1> QED BY <1>6, <1>7, <1>8, <1>9, <1>10

LEMMA RestFaithful ==
    ASSUME tokens \in Seq(Tokens), Whole, NEW p \in Places, Faithful("inner", p, Parsed[<<"inner", p>>]),
           \A q \in Places : p <= Len(tokens) /\ q > p => Faithful("rest", q, Parsed[<<"rest", q>>])
    PROVE  Faithful("rest", p, Parsed[<<"rest", p>>])
<1>1. "inner" \in Kinds /\ "rest" \in Kinds /\ Len(tokens) \in Nat /\ p \in Nat
  BY TokenAt DEF Kinds, Places
<1>2. PICK s : s = Parsed[<<"inner", p>>]
  OBVIOUS
<1>3. Sound(p, s) /\ Moves(p, s)
  BY <1>1, <1>2, ParsedSound
<1>4. PICK r : r = Parsed[<<"rest", p>>]
  OBVIOUS
<1>5. r = Statements(Parsed, p)
  BY <1>1, <1>4, ParsedSound DEF Call
<1> SUFFICES ASSUME r.ok, ~r.wrong, p <= Len(tokens) + 1, Token(r.next) = "rbrace"
             PROVE  IsList(Piece(p, r.next))
  BY <1>4 DEF Faithful
<1>6. CASE s.ok
  <2>1. p <= Len(tokens) /\ s.next \in Places /\ s.next > p /\ p <= s.next /\ s.next <= Len(tokens) + 1
    BY <1>1, <1>3, <1>6 DEF Sound, Moves, Places
  <2>2. PICK t : t = Parsed[<<"rest", s.next>>]
    OBVIOUS
  <2>3. Sound(s.next, t) /\ Faithful("rest", s.next, t)
    BY <1>1, <2>1, <2>2, ParsedSound
  <2>4. r = Behind(s, t)
    BY <1>2, <1>5, <1>6, <2>2 DEF Statements
  <2>5. t.ok
    <3>1. ASSUME ~t.ok PROVE FALSE
      BY <2>4, <3>1 DEF Behind, Failed
    <3> QED BY <3>1
  <2>6. r.next = t.next /\ r.wrong = (s.wrong \/ t.wrong)
    BY <2>4, <2>5 DEF Behind, Ok
  <2>7. ~s.wrong /\ ~t.wrong
    BY <2>6
  <2>8. IsStmt(Piece(p, s.next))
    BY <1>2, <1>6, <2>7 DEF Faithful
  <2>9. IsList(Piece(s.next, t.next))
    BY <2>1, <2>3, <2>5, <2>6, <2>7 DEF Faithful
  <2>10. t.next \in Places /\ s.next <= t.next /\ t.next <= Len(tokens) + 1
    BY <1>1, <2>1, <2>3 DEF Sound, Places
  <2>11. PICK n \in Places, m \in Places : n = s.next /\ m = t.next
    BY <2>1, <2>10
  <2>12. Piece(p, n) \in Seq(Tokens) /\ Piece(n, m) \in Seq(Tokens) /\ Piece(p, n) \o Piece(n, m) = Piece(p, m)
    BY <2>1, <2>10, <2>11, PieceIs
  <2>13. IsList(Piece(p, n) \o Piece(n, m))
    BY <2>8, <2>9, <2>11, <2>12, ListBehind
  <2> QED BY <2>6, <2>11, <2>12, <2>13
<1>7. CASE ~s.ok /\ s.said
  <2>1. r = Failed(s.next, TRUE, s.wrong)
    BY <1>2, <1>5, <1>7 DEF Statements
  <2> QED BY <2>1 DEF Failed
<1>8. CASE ~s.ok /\ ~s.said
  <2>1. r = Ok(s.next, <<>>, s.wrong)
    BY <1>2, <1>5, <1>8 DEF Statements
  <2>2. r.next = s.next
    BY <2>1 DEF Ok
  <2>3. s.next = p
    BY <1>2, <1>8, <2>2 DEF Faithful
  <2>4. Piece(p, p) = <<>>
    <3>1. p <= Len(tokens)
      BY <1>1, <2>2, <2>3, TokenAt
    <3> QED BY <3>1, PieceOne
  <2> QED BY <2>2, <2>3, <2>4, ListEmpty
<1> QED BY <1>6, <1>7, <1>8

LEMMA DomainFaithful ==
    ASSUME tokens \in Seq(Tokens), NEW p \in Places, Faithful("rest", p, Parsed[<<"rest", p>>]),
           p <= Len(tokens) => Faithful("domain", p + 1, Parsed[<<"domain", p + 1>>])
    PROVE  Faithful("domain", p, Parsed[<<"domain", p>>])
<1>1. "domain" \in Kinds /\ Len(tokens) \in Nat /\ p \in Nat /\ p + 1 \in Places
  BY TokenAt DEF Kinds, Places
<1>2. PICK r : r = Parsed[<<"domain", p>>]
  OBVIOUS
<1>3. r = Domain(Parsed, p)
  BY <1>1, <1>2, ParsedSound DEF Call
<1>4. CASE IsEOF(p)
  <2>1. r = Failed(p, FALSE, FALSE)
    BY <1>3, <1>4 DEF Domain
  <2> QED BY <1>2, <2>1 DEF Failed, Faithful
<1>5. CASE ~IsEOF(p) /\ Token(p) = "lbrace"
  <2> SUFFICES ASSUME r.ok, ~r.wrong, p <= Len(tokens) + 1
               PROVE  IsBlock(Piece(p, r.next))
    BY <1>2, <1>5 DEF Faithful
  <2>1. p <= Len(tokens)
    BY <1>1, <1>5, TokenAt
  <2>2. PICK d : d = Parsed[<<"domain", p + 1>>]
    OBVIOUS
  <2>3. r = Braced(d)
    BY <1>3, <1>5, <2>2 DEF Domain
  <2>4. Sound(p + 1, d) /\ Faithful("domain", p + 1, d)
    BY <1>1, <2>1, <2>2, ParsedSound
  <2>5. CASE d.ok /\ Token(d.next) # "rbrace"
    BY <2>3, <2>5 DEF Braced, Failed
  <2>6. CASE d.ok /\ Token(d.next) = "rbrace"
    <3>1. r = Ok(d.next + 1, << <<"block", d.tree>> >>, d.wrong)
      BY <2>3, <2>6 DEF Braced
    <3>2. r.next = d.next + 1 /\ r.wrong = d.wrong
      BY <3>1 DEF Ok
    <3>3. d.next \in Places /\ p + 1 <= d.next /\ p + 1 <= Len(tokens) + 1
      BY <1>1, <2>1, <2>4 DEF Sound, Places
    <3>4. IsList(Piece(p + 1, d.next)) \/ IsBlock(Piece(p + 1, d.next))
      BY <2>4, <2>6, <3>2, <3>3 DEF Faithful
    <3> QED BY <1>5, <2>6, <3>2, <3>3, <3>4, BlockPiece
  <2>7. CASE ~d.ok
    BY <2>3, <2>7 DEF Braced
  <2> QED BY <2>5, <2>6, <2>7
<1>6. CASE ~IsEOF(p) /\ Token(p) # "lbrace"
  <2>1. r = Parsed[<<"rest", p>>]
    BY <1>3, <1>6 DEF Domain
  <2> QED BY <1>2, <1>6, <2>1 DEF Faithful
<1> QED BY <1>4, <1>5, <1>6

LEMMA ParsedFaithful ==
    ASSUME tokens \in Seq(Tokens), Whole
    PROVE  \A what \in Kinds, p \in Places : Faithful(what, p, Parsed[<<what, p>>])
<1> DEFINE T == {c \in Kinds \X Places : Faithful(c[1], c[2], Parsed[c])}
<1>1. ASSUME NEW what \in Kinds, NEW p \in Places, Below(T, what, p) PROVE <<what, p>> \in T
  <2> SUFFICES Faithful(what, p, Parsed[<<what, p>>])
    OBVIOUS
  <2>1. \A k \in Kinds, q \in Places : <<k, q>> \in T => Faithful(k, q, Parsed[<<k, q>>])
    OBVIOUS
  <2> HIDE DEF T
  <2>2. p <= Len(tokens) => \A k \in Kinds, q \in Places : q > p => Faithful(k, q, Parsed[<<k, q>>])
    BY <1>1, <2>1 DEF Below
  <2>3. /\ "inner" \in Kinds /\ "rest" \in Kinds /\ "domain" \in Kinds
        /\ Rank("inner") < Rank("rest") /\ Rank("rest") < Rank("domain")
    BY DEF Kinds, Rank
  <2>4. CASE what \in {"inner", "alone"}
    BY <2>2, <2>4, SingleFaithful
  <2>5. CASE what = "rest"
    <3>1. Faithful("inner", p, Parsed[<<"inner", p>>])
      BY <1>1, <2>1, <2>3, <2>5 DEF Below
    <3> QED BY <2>2, <2>3, <2>5, <3>1, RestFaithful
  <2>6. CASE what = "domain"
    <3>1. Faithful("rest", p, Parsed[<<"rest", p>>])
      BY <1>1, <2>1, <2>3, <2>6 DEF Below
    <3>2. p + 1 \in Places /\ p + 1 > p
      BY DEF Places
    <3>3. p <= Len(tokens) => Faithful("domain", p + 1, Parsed[<<"domain", p + 1>>])
      BY <2>2, <2>3, <3>2
    <3> QED BY <2>6, <3>1, <3>3, DomainFaithful
  <2> QED BY <2>4, <2>5, <2>6 DEF Kinds
<1>2. \A what \in Kinds, p \in Places : <<what, p>> \in T
  <2> HIDE DEF T
  <2> QED BY <1>1, CallInduction
<1> QED BY <1>2

LEMMA BodyFaithful ==
    ASSUME tokens \in Seq(Tokens), tokens # <<>>, tokens[1] = "lbrace", Whole, ~OnlyOpens,
           IF FunctionBody.ok THEN FunctionBody.next > Len(tokens) /\ ~FunctionBody.wrong ELSE ~FunctionBody.said
    PROVE  tokens \in Bodies(Len(tokens))
<1>1. Len(tokens) \in Nat /\ Len(tokens) >= 1
  BY EmptySeq
<1>2. ~IsEOF(2)
  <2>1. ASSUME IsEOF(2) PROVE OnlyOpens
    <3>1. \A q \in DOMAIN tokens : q = 1
      BY <1>1, <2>1 DEF IsEOF
    <3> QED BY <3>1 DEF OnlyOpens
  <2> QED BY <2>1
<1>3. "domain" \in Kinds /\ 1 \in Places
  BY DEF Kinds, Places
<1>4. PICK r : r = FunctionBody
  OBVIOUS
<1>5. r = Parsed[<<"domain", 1>>]
  BY <1>2, <1>4 DEF FunctionBody
<1>6. Sound(1, r) /\ Audible("domain", 1, r) /\ Faithful("domain", 1, r)
  BY <1>3, <1>5, ParsedSound, ParsedAudible, ParsedFaithful
<1>7. r.ok
  <2>1. ASSUME ~r.ok PROVE FALSE
    <3>1. Opens(1)
      BY <1>4, <1>6, <2>1 DEF Audible
    <3>2. OnlyOpens
      BY <1>1, <3>1 DEF Opens, OnlyOpens
    <3> QED BY <3>2
  <2> QED BY <2>1
<1>8. r.next = Len(tokens) + 1
  BY <1>1, <1>4, <1>6, <1>7 DEF Sound
<1>9. Token(1) = "lbrace"
  BY <1>1 DEF Token
<1>10. IsBlock(Piece(1, Len(tokens) + 1))
  BY <1>1, <1>4, <1>6, <1>7, <1>8, <1>9 DEF Faithful
<1>11. Piece(1, Len(tokens) + 1) = tokens
  <2>1. (Len(tokens) + 1) - 1 = Len(tokens)
    BY <1>1
  <2>2. SubSeq(tokens, 1, Len(tokens)) = tokens
    BY SubSeqFull
  <2> QED BY <2>1, <2>2 DEF Piece
<1> QED BY <1>10, <1>11 DEF IsBlock, Blocks

-----------------------------------------------------------------------------
(* The grammar read backwards: what a sentence is made of.                 *)

LEMMA JoinedIs ==
    ASSUME NEW A, NEW B, NEW s \in Joined(A, B)
    PROVE  \E a \in A, b \in B : s = a \o b
BY DEF Joined

LEMMA JoinedHead ==
    ASSUME NEW x, NEW B, NEW s \in Joined({x}, B)
    PROVE  \E b \in B : s = x \o b
BY DEF Joined

LEMMA JoinedTail ==
    ASSUME NEW A, NEW x, NEW s \in Joined(A, {x})
    PROVE  \E a \in A : s = a \o x
BY DEF Joined

LEMMA JoinedUnion ==
    ASSUME NEW A, NEW B, NEW C, NEW s \in Joined(A, B \cup C)
    PROVE  s \in Joined(A, B) \/ s \in Joined(A, C)
<1>1. PICK a \in A, b \in B \cup C : s = a \o b
  BY JoinedIs
<1> QED BY <1>1, JoinedHas

LEMMA StmtsIn ==
    ASSUME NEW n \in Nat, NEW m \in 0..n
    PROVE  Sentences[n].stmt[m] = Stmts(m)
BY SentencesKept

LEMMA StmtCases ==
    ASSUME NEW n \in Nat \ {0}, NEW s \in Stmts(n)
    PROVE  \/ n = 1 /\ s = <<"stmt">>
           \/ s \in Blocks(n)
           \/ \E b \in Stmts(n - 1) : s = <<"if">> \o b
           \/ \E m \in 0..(n - 1), k \in 0..(n - 1) : \E b \in Stmts(m), c \in Stmts(k) :
                 m + k + 2 = n /\ s = <<"if">> \o (b \o (<<"else">> \o c))
           \/ \E b \in Stmts(n - 1) : s = <<"for">> \o b
<1>1. n - 1 \in Nat /\ n - 1 \in 0..(n - 1)
  OBVIOUS
<1>2. s \in StatementsOf(Sentences[n - 1], n)
  BY SentencesOf
<1>3. CASE n = 1 /\ s = <<"stmt">>
  BY <1>3
<1>4. CASE s \in Joined({<<"if">>}, Sentences[n - 1].stmt[n - 1])
  <2>1. PICK b \in Sentences[n - 1].stmt[n - 1] : s = <<"if">> \o b
    BY <1>4, JoinedHead
  <2> QED BY <1>1, <2>1, StmtsIn
<1>5. CASE s \in Joined({<<"if">>}, Splits(Sentences[n - 1].stmt, ElsesOf(Sentences[n - 1], n - 1), n - 1))
  <2>1. PICK t \in Splits(Sentences[n - 1].stmt, ElsesOf(Sentences[n - 1], n - 1), n - 1) :
                s = <<"if">> \o t
    BY <1>5, JoinedHead
  <2>2. PICK m \in 0..(n - 1) : t \in Joined(Sentences[n - 1].stmt[m],
                                             ElsesOf(Sentences[n - 1], n - 1)[n - 1 - m])
    BY <2>1 DEF Splits
  <2>3. PICK b \in Sentences[n - 1].stmt[m], e \in ElsesOf(Sentences[n - 1], n - 1)[n - 1 - m] :
                t = b \o e
    <3>1. PICK A, B : A = Sentences[n - 1].stmt[m] /\ B = ElsesOf(Sentences[n - 1], n - 1)[n - 1 - m]
      OBVIOUS
    <3>2. t \in Joined(A, B)
      BY <2>2, <3>1
    <3>3. \E b \in A, e \in B : t = b \o e
      BY <3>2, JoinedIs
    <3> QED BY <3>1, <3>3
  <2>4. n - 1 - m \in 0..(n - 1)
    OBVIOUS
  <2>5. n - 1 - m # 0 /\ e \in Joined({<<"else">>}, Sentences[n - 1].stmt[(n - 1 - m) - 1])
    BY <2>3, <2>4 DEF ElsesOf
  <2>6. PICK c \in Sentences[n - 1].stmt[(n - 1 - m) - 1] : e = <<"else">> \o c
    BY <2>5, JoinedHead
  <2>7. (n - 1 - m) - 1 \in 0..(n - 1) /\ m + ((n - 1 - m) - 1) + 2 = n
    BY <2>4, <2>5
  <2>8. PICK k \in 0..(n - 1) : k = (n - 1 - m) - 1
    BY <2>7
  <2>9. b \in Stmts(m) /\ c \in Stmts(k)
    BY <1>1, <2>3, <2>6, <2>8, StmtsIn
  <2> QED BY <2>1, <2>3, <2>6, <2>7, <2>8, <2>9
<1>6. CASE s \in Joined({<<"for">>}, Sentences[n - 1].stmt[n - 1])
  <2>1. PICK b \in Sentences[n - 1].stmt[n - 1] : s = <<"for">> \o b
    BY <1>6, JoinedHead
  <2> QED BY <2>1 DEF Stmts
<1>7. \/ n = 1 /\ s = <<"stmt">>
      \/ s \in Blocks(n)
      \/ s \in Joined({<<"if">>}, Sentences[n - 1].stmt[n - 1])
      \/ s \in Joined({<<"if">>}, Splits(Sentences[n - 1].stmt, ElsesOf(Sentences[n - 1], n - 1), n - 1))
      \/ s \in Joined({<<"for">>}, Sentences[n - 1].stmt[n - 1])
  <2> DEFINE A == Sentences[n - 1].stmt[n - 1]
             B == Splits(Sentences[n - 1].stmt, ElsesOf(Sentences[n - 1], n - 1), n - 1)
  <2>0. BlocksOf(Sentences[n - 1], n) = Blocks(n)
    BY <1>1, BlocksAre
  <2>1. \/ n = 1 /\ s = <<"stmt">>
        \/ s \in Blocks(n)
        \/ s \in Joined({<<"if">>}, A \cup B)
        \/ s \in Joined({<<"for">>}, Sentences[n - 1].stmt[n - 1])
    BY <1>2, <2>0 DEF StatementsOf
  <2> HIDE DEF A, B
  <2>2. s \in Joined({<<"if">>}, A \cup B) => s \in Joined({<<"if">>}, A) \/ s \in Joined({<<"if">>}, B)
    BY JoinedUnion
  <2> QED BY <2>1, <2>2 DEF A, B
<1> QED BY <1>3, <1>4, <1>5, <1>6, <1>7

LEMMA BlockCases ==
    ASSUME NEW n \in Nat, NEW s \in Blocks(n)
    PROVE  n - 2 \in Nat /\ \E l \in Lists(n - 2) : s = (<<"lbrace">> \o l) \o <<"rbrace">>
<1>1. ~(n < 2) /\ s \in Joined(Joined({<<"lbrace">>}, Sentences[n].list[n - 2]), {<<"rbrace">>})
  BY DEF Blocks, Bodies, BlocksOf, Sentences
<1>2. PICK t \in Joined({<<"lbrace">>}, Sentences[n].list[n - 2]) : s = t \o <<"rbrace">>
  BY <1>1, JoinedTail
<1>3. PICK l \in Sentences[n].list[n - 2] : t = <<"lbrace">> \o l
  BY <1>2, JoinedHead
<1>4. n - 2 \in Nat /\ n - 2 \in 0..n
  BY <1>1
<1>5. l \in Lists(n - 2)
  BY <1>3, <1>4, SentencesKept
<1> QED BY <1>2, <1>3, <1>4, <1>5

LEMMA ListCases ==
    ASSUME NEW n \in Nat, NEW s \in Lists(n)
    PROVE  \/ n = 0 /\ s = <<>>
           \/ s \in Stmts(n)
           \/ \E m \in 1..(n - 1) : \E a \in Stmts(m), l \in Lists(n - m) : s = a \o l
<1>1. CASE n = 0
  BY <1>1, NoneEmpty
<1>2. CASE n # 0
  <2>1. s \in ListsOf(Sentences[n - 1], n, Stmts(n))
    BY <1>2, SentencesOf
  <2>2. s \in Stmts(n) \/ \E m \in 1..(n - 1) : s \in Joined(Sentences[n - 1].stmt[m], Sentences[n - 1].list[n - m])
    BY <2>1 DEF ListsOf
  <2>3. ASSUME NEW m \in 1..(n - 1), s \in Joined(Sentences[n - 1].stmt[m], Sentences[n - 1].list[n - m])
        PROVE  \E a \in Stmts(m), l \in Lists(n - m) : s = a \o l
    <3>1. n - 1 \in Nat /\ m \in 0..(n - 1) /\ n - m \in 0..(n - 1)
      BY <1>2
    <3>2. Sentences[n - 1].stmt[m] = Stmts(m) /\ Sentences[n - 1].list[n - m] = Lists(n - m)
      BY <3>1, SentencesKept
    <3> QED BY <2>3, <3>2, JoinedIs
  <2> QED BY <2>2, <2>3
<1> QED BY <1>1, <1>2

LEMMA SentencesTyped ==
    ASSUME NEW n \in Nat, NEW s \in Stmts(n) \cup Blocks(n) \cup Lists(n)
    PROVE  s \in Seq(Tokens) /\ Len(s) = n
<1> DEFINE Typed(k) == \A t \in Stmts(k) \cup Blocks(k) \cup Lists(k) : t \in Seq(Tokens) /\ Len(t) = k
           T == {k \in Nat : \A i \in 0..k : Typed(i)}
<1>1. 0 \in T
  <2>1. Typed(0)
    <3>1. <<>> \in Seq(Tokens) /\ Len(<<>>) = 0
      OBVIOUS
    <3> QED BY <3>1, NoneEmpty
  <2>2. \A i \in 0..0 : i = 0
    OBVIOUS
  <2> QED BY <2>1, <2>2
<1>2. ASSUME NEW k \in Nat \ {0}, k - 1 \in T PROVE k \in T
  <2>1. \A i \in 0..(k - 1) : Typed(i)
    BY <1>2
  <2>2. ASSUME NEW t \in Blocks(k) PROVE t \in Seq(Tokens) /\ Len(t) = k
    <3>1. PICK l \in Lists(k - 2) : t = (<<"lbrace">> \o l) \o <<"rbrace">>
      BY BlockCases
    <3>2. k - 2 \in 0..(k - 1)
      BY BlockCases
    <3>3. l \in Seq(Tokens) /\ Len(l) = k - 2
      BY <2>1, <3>1, <3>2
    <3> HIDE DEF T, Typed
    <3>4. /\ <<"lbrace">> \in Seq(Tokens) /\ Len(<<"lbrace">>) = 1
          /\ <<"rbrace">> \in Seq(Tokens) /\ Len(<<"rbrace">>) = 1
      BY DEF Tokens
    <3>5. PICK o : o = <<"lbrace">> \o l
      OBVIOUS
    <3>6. o \in Seq(Tokens) /\ Len(o) = 1 + (k - 2)
      BY <3>3, <3>4, <3>5, ConcatProperties
    <3>7. t = o \o <<"rbrace">>
      BY <3>1, <3>5
    <3>8. t \in Seq(Tokens) /\ Len(t) = (1 + (k - 2)) + 1
      BY <3>4, <3>6, <3>7, ConcatProperties
    <3> QED BY <3>8
  <2>3. ASSUME NEW t \in Stmts(k) PROVE t \in Seq(Tokens) /\ Len(t) = k
    <3>1. /\ k - 1 \in 0..(k - 1)
          /\ <<"stmt">> \in Seq(Tokens) /\ Len(<<"stmt">>) = 1 /\ <<"if">> \in Seq(Tokens) /\ Len(<<"if">>) = 1
          /\ <<"else">> \in Seq(Tokens) /\ Len(<<"else">>) = 1 /\ <<"for">> \in Seq(Tokens) /\ Len(<<"for">>) = 1
      BY DEF Tokens
    <3>2. CASE k = 1 /\ t = <<"stmt">>
      BY <3>1, <3>2
    <3>3. ASSUME NEW b \in Stmts(k - 1), t = <<"if">> \o b PROVE t \in Seq(Tokens) /\ Len(t) = k
      <4>1. b \in Seq(Tokens) /\ Len(b) = k - 1
        BY <2>1, <3>1
      <4> HIDE DEF T, Typed
      <4>2. t \in Seq(Tokens) /\ Len(t) = 1 + (k - 1)
        BY <3>1, <3>3, <4>1, ConcatProperties
      <4> QED BY <4>2
    <3>4. ASSUME NEW m \in 0..(k - 1), NEW i \in 0..(k - 1), NEW b \in Stmts(m), NEW c \in Stmts(i),
                 m + i + 2 = k, t = <<"if">> \o (b \o (<<"else">> \o c))
          PROVE  t \in Seq(Tokens) /\ Len(t) = k
      <4>1. b \in Seq(Tokens) /\ Len(b) = m /\ c \in Seq(Tokens) /\ Len(c) = i
        BY <2>1
      <4> HIDE DEF T, Typed
      <4>2. PICK e : e = <<"else">> \o c
        OBVIOUS
      <4>3. e \in Seq(Tokens) /\ Len(e) = 1 + i
        BY <3>1, <4>1, <4>2, ConcatProperties
      <4>4. PICK f : f = b \o e
        OBVIOUS
      <4>5. f \in Seq(Tokens) /\ Len(f) = m + (1 + i)
        BY <4>1, <4>3, <4>4, ConcatProperties
      <4>6. t = <<"if">> \o f
        BY <3>4, <4>2, <4>4
      <4>7. PICK o : o = <<"if">>
        OBVIOUS
      <4>8. o \in Seq(Tokens) /\ Len(o) = 1 /\ t = o \o f
        BY <3>1, <4>6, <4>7
      <4>11. o \o f \in Seq(Tokens) /\ Len(o \o f) = Len(o) + Len(f)
        BY <4>5, <4>8, ConcatProperties, Zenon
      <4>9. t \in Seq(Tokens) /\ Len(t) = 1 + (m + (1 + i))
        BY ONLY <4>5, <4>8, <4>11
      <4>10. 1 + (m + (1 + i)) = k
        BY <3>4
      <4> QED BY <4>9, <4>10
    <3>5. ASSUME NEW b \in Stmts(k - 1), t = <<"for">> \o b PROVE t \in Seq(Tokens) /\ Len(t) = k
      <4>1. b \in Seq(Tokens) /\ Len(b) = k - 1
        BY <2>1, <3>1
      <4> HIDE DEF T, Typed
      <4>2. t \in Seq(Tokens) /\ Len(t) = 1 + (k - 1)
        BY <3>1, <3>5, <4>1, ConcatProperties
      <4> QED BY <4>2
    <3> HIDE DEF T, Typed
    <3> QED BY <2>2, <3>2, <3>3, <3>4, <3>5, StmtCases
  <2>4. ASSUME NEW t \in Lists(k) PROVE t \in Seq(Tokens) /\ Len(t) = k
    <3>1. ASSUME NEW m \in 1..(k - 1), NEW a \in Stmts(m), NEW l \in Lists(k - m), t = a \o l
          PROVE  t \in Seq(Tokens) /\ Len(t) = k
      <4>1. m \in 0..(k - 1) /\ k - m \in 0..(k - 1)
        OBVIOUS
      <4>2. a \in Seq(Tokens) /\ Len(a) = m /\ l \in Seq(Tokens) /\ Len(l) = k - m
        BY <2>1, <4>1
      <4> HIDE DEF T, Typed
      <4>3. t \in Seq(Tokens) /\ Len(t) = m + (k - m)
        BY <3>1, <4>2, ConcatProperties
      <4> QED BY <4>3
    <3> HIDE DEF T, Typed
    <3> QED BY <2>3, <3>1, ListCases
  <2>5. Typed(k)
    BY <2>2, <2>3, <2>4
  <2>6. ASSUME NEW i \in 0..k PROVE Typed(i)
    <3>1. i \in 0..(k - 1) \/ i = k
      OBVIOUS
    <3> QED BY <2>1, <2>5, <3>1
  <2> QED BY <2>6
<1>3. Nat \subseteq T
  <2> HIDE DEF T
  <2> QED BY <1>1, <1>2, NatSet
<1>4. n \in 0..n
  OBVIOUS
<1> QED BY <1>3, <1>4

-----------------------------------------------------------------------------
(* The same of a piece of the text.                                        *)

LEMMA PieceSplit ==
    ASSUME tokens \in Seq(Tokens), NEW p \in Places, NEW q \in Places, p <= q, q <= Len(tokens) + 1,
           NEW a \in Seq(Tokens), NEW b \in Seq(Tokens), Piece(p, q) = a \o b
    PROVE  /\ p + Len(a) \in Places /\ p <= p + Len(a) /\ p + Len(a) <= q /\ q = p + Len(a) + Len(b)
           /\ Piece(p, p + Len(a)) = a /\ Piece(p + Len(a), q) = b
<1>1. Len(tokens) \in Nat /\ Len(a) \in Nat /\ Len(b) \in Nat /\ p \in Nat /\ q \in Nat /\ p >= 1
      /\ \A i \in 1..Len(tokens) : tokens[i] \in Tokens
  BY DEF Places
<1>2. ASSUME NEW m \in Places, NEW n \in Places, m <= n, n <= Len(tokens) + 1
      PROVE  /\ Piece(m, n) \in Seq(Tokens) /\ Len(Piece(m, n)) = n - m
             /\ \A i \in 1..(n - m) : Piece(m, n)[i] = tokens[m + i - 1]
  <2>1. m \in Int /\ n - 1 \in Int /\ (n - 1) - m + 1 = n - m /\ ~(m <= n - 1) => n - m = 0
    BY <1>2 DEF Places
  <2>2. \A i \in m..(n - 1) : tokens[i] \in Tokens
    BY <1>1, <1>2 DEF Places
  <2>3. m \in Int /\ n - 1 \in Int
    BY DEF Places
  <2>4. /\ SubSeq(tokens, m, n - 1) \in Seq(Tokens)
        /\ Len(SubSeq(tokens, m, n - 1)) = IF m <= n - 1 THEN (n - 1) - m + 1 ELSE 0
        /\ \A i \in 1..((n - 1) - m + 1) : SubSeq(tokens, m, n - 1)[i] = tokens[m + i - 1]
    BY <2>2, <2>3, SubSeqProperties
  <2>5. (n - 1) - m + 1 = n - m /\ (~(m <= n - 1) => n - m = 0)
    BY <1>2 DEF Places
  <2> QED BY <2>4, <2>5 DEF Piece
<1>3. /\ Len(a \o b) = Len(a) + Len(b)
      /\ \A i \in 1..Len(a) : (a \o b)[i] = a[i]
      /\ \A i \in 1..Len(b) : (a \o b)[Len(a) + i] = b[i]
  BY <1>1
<1>4. Len(Piece(p, q)) = q - p /\ \A i \in 1..(q - p) : Piece(p, q)[i] = tokens[p + i - 1]
  BY <1>2
<1>5. q = p + Len(a) + Len(b)
  BY <1>1, <1>3, <1>4
<1>6. PICK n \in Places : n = p + Len(a)
  BY <1>1 DEF Places
<1>7. p <= n /\ n <= q /\ n <= Len(tokens) + 1 /\ n - p = Len(a) /\ q - n = Len(b)
  BY <1>1, <1>5, <1>6
<1>8. Piece(p, n) = a
  <2>1. Piece(p, n) \in Seq(Tokens) /\ Len(Piece(p, n)) = Len(a)
        /\ \A i \in 1..Len(a) : Piece(p, n)[i] = tokens[p + i - 1]
    BY <1>2, <1>7
  <2>2. ASSUME NEW i \in 1..Len(a) PROVE Piece(p, n)[i] = a[i]
    <3>1. i \in 1..(q - p)
      BY <1>1, <1>7
    <3>2. Piece(p, q)[i] = tokens[p + i - 1] /\ Piece(p, q)[i] = a[i]
      BY <1>3, <1>4, <3>1
    <3> QED BY <2>1, <3>2
  <2> QED BY <2>1, <2>2, SeqEqual
<1>9. Piece(n, q) = b
  <2>1. Piece(n, q) \in Seq(Tokens) /\ Len(Piece(n, q)) = Len(b)
        /\ \A i \in 1..Len(b) : Piece(n, q)[i] = tokens[n + i - 1]
    BY <1>2, <1>7
  <2>2. ASSUME NEW i \in 1..Len(b) PROVE Piece(n, q)[i] = b[i]
    <3>1. Len(a) + i \in 1..(q - p) /\ p + (Len(a) + i) - 1 = n + i - 1
      BY <1>1, <1>6, <1>7
    <3>2. Piece(p, q)[Len(a) + i] = tokens[p + (Len(a) + i) - 1]
      BY <1>4, <3>1
    <3>3. Piece(p, q)[Len(a) + i] = b[i]
      BY <1>3
    <3> QED BY <2>1, <3>1, <3>2, <3>3
  <2> QED BY <2>1, <2>2, SeqEqual
<1> QED BY <1>5, <1>6, <1>7, <1>8, <1>9

LEMMA OneToken ==
    ASSUME NEW t \in Tokens
    PROVE  <<t>> \in Seq(Tokens) /\ Len(<<t>>) = 1 /\ <<>> \in Seq(Tokens) /\ Len(<<>>) = 0
           /\ <<t>> \o <<>> = <<t>>
OBVIOUS

LEMMA PieceHead ==
    ASSUME tokens \in Seq(Tokens), NEW p \in Places, NEW q \in Places, p <= q, q <= Len(tokens) + 1,
           NEW t \in Tokens, NEW b \in Seq(Tokens), Piece(p, q) = <<t>> \o b
    PROVE  p <= Len(tokens) /\ p + 1 <= q /\ Token(p) = t /\ Piece(p + 1, q) = b
<1>1. PICK a : a = <<t>>
  OBVIOUS
<1>2. a \in Seq(Tokens) /\ Len(a) = 1
  BY <1>1, OneToken
<1>7. Piece(p, q) = a \o b
  BY <1>1
<1>8. p + Len(a) <= q /\ Piece(p, p + Len(a)) = a /\ Piece(p + Len(a), q) = b
  BY <1>2, <1>7, PieceSplit
<1>3. p + 1 <= q /\ Piece(p, p + 1) = a /\ Piece(p + 1, q) = b
  BY <1>2, <1>8
<1>4. p <= Len(tokens)
  BY <1>3 DEF Places
<1>5. <<tokens[p]>> = <<t>>
  BY <1>1, <1>3, <1>4, PieceOne
<1>6. Token(p) = t
  BY <1>4, <1>5 DEF Token
<1> QED BY <1>3, <1>4, <1>6

\* A sequence is two others, or a token and another.
IsPair(s, a, b) == s = a \o b
IsFirst(s, t, b) == s = <<t>> \o b

LEMMA PieceCut ==
    ASSUME tokens \in Seq(Tokens), NEW p \in Places, NEW q \in Places, p <= q, q <= Len(tokens) + 1,
           NEW a \in Seq(Tokens), NEW b \in Seq(Tokens), IsPair(Piece(p, q), a, b)
    PROVE  \E m \in Places :
              p <= m /\ m <= q /\ m = p + Len(a) /\ q = m + Len(b) /\ Piece(p, m) = a /\ Piece(m, q) = b
<1>1. Piece(p, q) = a \o b
  BY DEF IsPair
<1>2. PICK m : m = p + Len(a)
  OBVIOUS
<1>3. m \in Places /\ p <= m /\ m <= q /\ q = m + Len(b) /\ Piece(p, m) = a /\ Piece(m, q) = b
  BY <1>1, <1>2, PieceSplit
<1> QED BY <1>2, <1>3

LEMMA PieceFirst ==
    ASSUME tokens \in Seq(Tokens), NEW p \in Places, NEW q \in Places, p <= q, q <= Len(tokens) + 1,
           NEW t \in Tokens, NEW b \in Seq(Tokens), IsFirst(Piece(p, q), t, b)
    PROVE  p <= Len(tokens) /\ p + 1 <= q /\ Token(p) = t /\ Piece(p + 1, q) = b
<1>1. Piece(p, q) = <<t>> \o b
  BY DEF IsFirst
<1> QED BY <1>1, PieceHead

LEMMA PieceOf ==
    ASSUME tokens \in Seq(Tokens), NEW p \in Places, NEW q \in Places, p <= q, q <= Len(tokens) + 1
    PROVE  Piece(p, q) \in Seq(Tokens) /\ Len(Piece(p, q)) = q - p
<1>1. p \in Int /\ q - 1 \in Int /\ \A i \in p..(q - 1) : tokens[i] \in Tokens
  BY DEF Places
<1>2. /\ SubSeq(tokens, p, q - 1) \in Seq(Tokens)
      /\ Len(SubSeq(tokens, p, q - 1)) = IF p <= q - 1 THEN (q - 1) - p + 1 ELSE 0
  BY <1>1, SubSeqProperties
<1> QED BY <1>2 DEF Piece, Places

LEMMA PieceOnly ==
    ASSUME tokens \in Seq(Tokens), NEW p \in Places, NEW q \in Places, p <= q, q <= Len(tokens) + 1,
           NEW t \in Tokens, Piece(p, q) = <<t>>
    PROVE  p <= Len(tokens) /\ q = p + 1 /\ Token(p) = t
<1>1. Len(<<t>>) = 1
  OBVIOUS
<1>2. q - p = 1
  BY <1>1, PieceOf
<1>3. q = p + 1 /\ p <= Len(tokens)
  BY <1>2 DEF Places
<1>4. <<tokens[p]>> = <<t>>
  BY <1>3, PieceOne
<1> QED BY <1>3, <1>4 DEF Token

\* Members of the sets are sentences.
LEMMA MembersAre ==
    ASSUME NEW n \in Nat
    PROVE  /\ \A s \in Stmts(n) : IsStmt(s) /\ s \in Seq(Tokens)
           /\ \A s \in Blocks(n) : IsBlock(s) /\ s \in Seq(Tokens)
           /\ \A s \in Lists(n) : IsList(s) /\ s \in Seq(Tokens)
BY SentencesTyped DEF IsStmt, IsBlock, IsList

LEMMA BlockAt ==
    ASSUME tokens \in Seq(Tokens), NEW p \in Places, NEW q \in Places, p <= q, q <= Len(tokens) + 1,
           IsBlock(Piece(p, q))
    PROVE  /\ p <= Len(tokens) /\ Token(p) = "lbrace"
           /\ \E m \in Places : /\ q = m + 1 /\ p + 1 <= m /\ Token(m) = "rbrace"
                                /\ IsList(Piece(p + 1, m))
<1>1. PICK s \in Seq(Tokens) : s = Piece(p, q)
  BY PieceIs
<1>2. PICK n \in Nat : n = Len(s) /\ s \in Blocks(n)
  BY <1>1 DEF IsBlock
<1>3. p + 1 \in Places /\ p \in Nat /\ q \in Nat
  BY DEF Places
<1>4. PICK l \in Lists(n - 2) : s = (<<"lbrace">> \o l) \o <<"rbrace">>
  BY <1>2, BlockCases
<1>5. n - 2 \in Nat
  BY <1>2, BlockCases
<1>6. l \in Seq(Tokens) /\ IsList(l)
  BY <1>5, MembersAre
<1>7. PICK t \in Tokens, u \in Tokens : t = "lbrace" /\ u = "rbrace"
  BY DEF Tokens
<1>8. PICK v \in Seq(Tokens), e \in Seq(Tokens) : v = <<t>> /\ e = <<u>> /\ Len(e) = 1
  BY OneToken
<1>9. PICK o \in Seq(Tokens) : o = v \o l
  BY <1>6, ConcatProperties
<1>10. IsPair(Piece(p, q), o, e)
  BY <1>1, <1>4, <1>7, <1>8, <1>9 DEF IsPair
<1>11. PICK m \in Places : p <= m /\ m <= q /\ q = m + Len(e) /\ Piece(p, m) = o /\ Piece(m, q) = e
  BY <1>10, PieceCut
<1>12. m <= Len(tokens) + 1 /\ q = m + 1
  BY <1>3, <1>8, <1>11 DEF Places
<1>13. p <= Len(tokens) /\ p + 1 <= m /\ Token(p) = t /\ Piece(p + 1, m) = l
  <2>1. IsFirst(Piece(p, m), t, l)
    BY <1>8, <1>9, <1>11 DEF IsFirst
  <2> QED BY <1>6, <1>11, <1>12, <2>1, PieceFirst
<1>14. Token(m) = u
  BY <1>8, <1>11, PieceOnly
<1> QED BY <1>6, <1>7, <1>12, <1>13, <1>14

LEMMA StmtAt ==
    ASSUME tokens \in Seq(Tokens), NEW p \in Places, NEW q \in Places, p <= q, q <= Len(tokens) + 1,
           IsStmt(Piece(p, q))
    PROVE  /\ p <= Len(tokens) /\ p < q
           /\ \/ Token(p) = "stmt" /\ q = p + 1
              \/ Token(p) = "lbrace" /\ IsBlock(Piece(p, q))
              \/ Token(p) = "if" /\ p + 1 <= q /\ IsStmt(Piece(p + 1, q))
              \/ Token(p) = "if" /\ \E m \in Places :
                    /\ p + 1 <= m /\ m + 1 <= q /\ Token(m) = "else"
                    /\ IsStmt(Piece(p + 1, m)) /\ IsStmt(Piece(m + 1, q))
              \/ Token(p) = "for" /\ p + 1 <= q /\ IsStmt(Piece(p + 1, q))
<1>1. PICK s \in Seq(Tokens) : s = Piece(p, q)
  BY PieceIs
<1>2. PICK n \in Nat \ {0} : n = Len(s) /\ s \in Stmts(n)
  BY <1>1, NoneEmpty DEF IsStmt
<1>3. n - 1 \in Nat /\ p + 1 \in Places /\ p \in Nat /\ q \in Nat
  BY DEF Places
<1>4. "stmt" \in Tokens /\ "if" \in Tokens /\ "else" \in Tokens /\ "for" \in Tokens
  BY DEF Tokens
<1>5. CASE n = 1 /\ s = <<"stmt">>
  <2>1. p <= Len(tokens) /\ q = p + 1 /\ Token(p) = "stmt"
    BY <1>1, <1>4, <1>5, PieceOnly
  <2> QED BY <1>3, <2>1
<1>6. ASSUME NEW t \in Tokens, NEW b \in Seq(Tokens), s = <<t>> \o b
      PROVE  p <= Len(tokens) /\ p + 1 <= q /\ Token(p) = t /\ Piece(p + 1, q) = b
  <2>1. IsFirst(Piece(p, q), t, b)
    BY <1>1, <1>6 DEF IsFirst
  <2> QED BY <2>1, PieceFirst
<1>7. ASSUME NEW b \in Stmts(n - 1), s = <<"if">> \o b
      PROVE  p <= Len(tokens) /\ p + 1 <= q /\ Token(p) = "if" /\ IsStmt(Piece(p + 1, q))
  <2>1. b \in Seq(Tokens) /\ IsStmt(b)
    BY <1>3, MembersAre
  <2>2. PICK t \in Tokens : t = "if"
    BY <1>4
  <2>3. s = <<t>> \o b
    BY <1>7, <2>2
  <2> QED BY <1>6, <2>1, <2>2, <2>3
<1>8. ASSUME NEW i \in 0..(n - 1), NEW k \in 0..(n - 1), NEW b \in Stmts(i), NEW c \in Stmts(k),
             s = <<"if">> \o (b \o (<<"else">> \o c))
      PROVE  /\ p <= Len(tokens) /\ Token(p) = "if" /\ p + 1 <= q
             /\ \E m \in Places :
                    /\ p + 1 <= m /\ m + 1 <= q /\ Token(m) = "else"
                    /\ IsStmt(Piece(p + 1, m)) /\ IsStmt(Piece(m + 1, q))
  <2>1. b \in Seq(Tokens) /\ IsStmt(b) /\ c \in Seq(Tokens) /\ IsStmt(c)
    BY MembersAre
  <2>2. PICK t \in Tokens, u \in Tokens : t = "if" /\ u = "else"
    BY <1>4
  <2>3. PICK v : v = <<u>>
    OBVIOUS
  <2>4. PICK e \in Seq(Tokens) : e = v \o c
    BY <2>1, <2>3, OneToken, ConcatProperties
  <2>5. PICK f \in Seq(Tokens) : f = b \o e
    BY <2>1, ConcatProperties
  <2>6. s = <<t>> \o f
    BY <1>8, <2>2, <2>3, <2>4, <2>5
  <2>7. p <= Len(tokens) /\ p + 1 <= q /\ Token(p) = t /\ Piece(p + 1, q) = f
    BY <1>6, <2>6
  <2>8. IsPair(Piece(p + 1, q), b, e)
    BY <2>5, <2>7 DEF IsPair
  <2>9. PICK m \in Places : p + 1 <= m /\ m <= q /\ Piece(p + 1, m) = b /\ Piece(m, q) = e
    BY <1>3, <2>1, <2>7, <2>8, PieceCut
  <2>10. IsFirst(Piece(m, q), u, c)
    BY <2>3, <2>4, <2>9 DEF IsFirst
  <2>11. m + 1 <= q /\ Token(m) = u /\ Piece(m + 1, q) = c
    BY <2>1, <2>9, <2>10, PieceFirst
  <2> QED BY <2>1, <2>2, <2>7, <2>9, <2>11
<1>9. ASSUME NEW b \in Stmts(n - 1), s = <<"for">> \o b
      PROVE  p <= Len(tokens) /\ p + 1 <= q /\ Token(p) = "for" /\ IsStmt(Piece(p + 1, q))
  <2>1. b \in Seq(Tokens) /\ IsStmt(b)
    BY <1>3, MembersAre
  <2>2. PICK t \in Tokens : t = "for"
    BY <1>4
  <2>3. s = <<t>> \o b
    BY <1>9, <2>2
  <2> QED BY <1>6, <2>1, <2>2, <2>3
<1>10. p + 1 <= q => p < q
  BY <1>3
<1>11. \/ n = 1 /\ s = <<"stmt">>
       \/ s \in Blocks(n)
       \/ \E b \in Stmts(n - 1) : s = <<"if">> \o b
       \/ \E m \in 0..(n - 1), k \in 0..(n - 1) : \E b \in Stmts(m), c \in Stmts(k) :
             m + k + 2 = n /\ s = <<"if">> \o (b \o (<<"else">> \o c))
       \/ \E b \in Stmts(n - 1) : s = <<"for">> \o b
  BY <1>2, StmtCases
<1>12. CASE \E b \in Stmts(n - 1) : s = <<"if">> \o b
  BY <1>7, <1>10, <1>12
<1>13. CASE \E m \in 0..(n - 1), k \in 0..(n - 1) : \E b \in Stmts(m), c \in Stmts(k) :
             m + k + 2 = n /\ s = <<"if">> \o (b \o (<<"else">> \o c))
  BY <1>8, <1>10, <1>13
<1>14. CASE \E b \in Stmts(n - 1) : s = <<"for">> \o b
  BY <1>9, <1>10, <1>14
<1>15. CASE s \in Blocks(n)
  <2>1. IsBlock(Piece(p, q))
    BY <1>1, <1>2, <1>15 DEF IsBlock
  <2>2. /\ p <= Len(tokens) /\ Token(p) = "lbrace"
        /\ \E m \in Places : q = m + 1 /\ p + 1 <= m
    BY <2>1, BlockAt
  <2>3. p < q
    BY <2>2 DEF Places
  <2> QED BY <2>1, <2>2, <2>3
<1> QED BY <1>5, <1>15, <1>11, <1>12, <1>13, <1>14

LEMMA ListAt ==
    ASSUME tokens \in Seq(Tokens), NEW p \in Places, NEW q \in Places, p <= q, q <= Len(tokens) + 1,
           IsList(Piece(p, q))
    PROVE  \/ q = p
           \/ \E m \in Places : p <= m /\ m <= q /\ IsStmt(Piece(p, m)) /\ IsList(Piece(m, q))
<1>1. PICK s \in Seq(Tokens) : s = Piece(p, q)
  BY PieceIs
<1>2. PICK n \in Nat : n = Len(s) /\ s \in Lists(n)
  BY <1>1 DEF IsList
<1>3. ASSUME NEW a \in Seq(Tokens), NEW l \in Seq(Tokens), s = a \o l, IsStmt(a), IsList(l)
      PROVE  \E m \in Places : p <= m /\ m <= q /\ IsStmt(Piece(p, m)) /\ IsList(Piece(m, q))
  <2>1. IsPair(Piece(p, q), a, l)
    BY <1>1, <1>3 DEF IsPair
  <2>2. PICK m \in Places : p <= m /\ m <= q /\ Piece(p, m) = a /\ Piece(m, q) = l
    BY <2>1, PieceCut
  <2> QED BY <1>3, <2>2
<1>4. CASE s = <<>>
  <2>1. Len(s) = 0
    BY <1>4
  <2>2. Len(s) = q - p
    BY <1>1, PieceOf
  <2> QED BY <2>1, <2>2 DEF Places
<1>5. CASE s \in Stmts(n)
  <2>1. PICK z \in Seq(Tokens) : z = <<>>
    BY EmptySeq
  <2>2. s = s \o z
    BY <2>1, ConcatEmptySeq
  <2>3. IsList(z)
    BY <2>1, ListEmpty
  <2>4. IsStmt(s)
    BY <1>2, <1>5 DEF IsStmt
  <2> QED BY <1>3, <2>2, <2>3, <2>4
<1>6. ASSUME NEW m \in 1..(n - 1), NEW a \in Stmts(m), NEW l \in Lists(n - m), s = a \o l
      PROVE  \E k \in Places : p <= k /\ k <= q /\ IsStmt(Piece(p, k)) /\ IsList(Piece(k, q))
  <2>1. m \in Nat /\ n - m \in Nat
    OBVIOUS
  <2>2. a \in Seq(Tokens) /\ IsStmt(a) /\ l \in Seq(Tokens) /\ IsList(l)
    BY <2>1, MembersAre
  <2> QED BY <1>3, <1>6, <2>2
<1> QED BY <1>2, <1>4, <1>5, <1>6, ListCases

-----------------------------------------------------------------------------
(* The parser accepts every function body in which no block is among other *)
(* statements or in a for.  A statement may end at several places, since   *)
(* an else goes to the nearest if: the parser stands at one of the places  *)
(* where the text can go on.                                               *)

\* A statement ends in a simple one or in a block.
LEMMA LastToken ==
    ASSUME tokens \in Seq(Tokens), NEW p \in Places, NEW q \in Places, p <= q, q <= Len(tokens) + 1,
           IsStmt(Piece(p, q))
    PROVE  p <= q - 1 /\ q - 1 \in Places /\ Token(q - 1) \in {"stmt", "rbrace"}
<1> DEFINE T == {n \in Nat : \A x, y \in Places :
                    x <= y /\ y <= x + n /\ y <= Len(tokens) + 1 /\ IsStmt(Piece(x, y))
                       => Token(y - 1) \in {"stmt", "rbrace"}}
<1>1. 0 \in T
  <2> SUFFICES ASSUME NEW x \in Places, NEW y \in Places, x <= y, y <= x + 0, y <= Len(tokens) + 1,
                      IsStmt(Piece(x, y))
               PROVE  FALSE
    OBVIOUS
  <2>1. x < y
    BY StmtAt
  <2> QED BY <2>1 DEF Places
<1>2. ASSUME NEW n \in Nat \ {0}, n - 1 \in T PROVE n \in T
  <2> SUFFICES ASSUME NEW x \in Places, NEW y \in Places, x <= y, y <= x + n, y <= Len(tokens) + 1,
                      IsStmt(Piece(x, y))
               PROVE  Token(y - 1) \in {"stmt", "rbrace"}
    OBVIOUS
  <2>1. \A u, v \in Places : u <= v /\ v <= u + (n - 1) /\ v <= Len(tokens) + 1 /\ IsStmt(Piece(u, v))
                                => Token(v - 1) \in {"stmt", "rbrace"}
    BY <1>2
  <2> HIDE DEF T
  <2>2. x \in Nat /\ y \in Nat /\ x + 1 \in Places /\ (x + 1) + (n - 1) = x + n
    BY DEF Places
  <2>3. CASE Token(x) = "stmt" /\ y = x + 1
    <3>1. y - 1 = x
      BY <2>2, <2>3
    <3> QED BY <2>3, <3>1
  <2>4. CASE IsBlock(Piece(x, y))
    <3>1. PICK m \in Places : y = m + 1 /\ Token(m) = "rbrace"
      BY <2>4, BlockAt
    <3>2. y - 1 = m
      BY <3>1 DEF Places
    <3> QED BY <3>1, <3>2
  <2>5. CASE x + 1 <= y /\ IsStmt(Piece(x + 1, y))
    BY <2>1, <2>2, <2>5
  <2>6. CASE \E m \in Places : x + 1 <= m /\ m + 1 <= y /\ IsStmt(Piece(m + 1, y))
    <3>1. PICK m \in Places : x + 1 <= m /\ m + 1 <= y /\ IsStmt(Piece(m + 1, y))
      BY <2>6
    <3>2. m + 1 \in Places /\ y <= (m + 1) + (n - 1)
      BY <2>2, <3>1 DEF Places
    <3> QED BY <2>1, <3>1, <3>2
  <2> QED BY <2>3, <2>4, <2>5, <2>6, StmtAt
<1>3. Nat \subseteq T
  <2> HIDE DEF T
  <2> QED BY <1>1, <1>2, NatSet
<1>4. q - p \in Nat /\ q <= p + (q - p)
  BY DEF Places
<1>5. Token(q - 1) \in {"stmt", "rbrace"}
  <2>1. q - p \in T
    BY <1>3, <1>4
  <2> QED BY <1>4, <2>1
<1>6. p < q
  BY StmtAt
<1> QED BY <1>5, <1>6 DEF Places

\* What stands on both sides of a block.
LEMMA AroundBlock ==
    ASSUME tokens \in Seq(Tokens), ~BlockAmong, NEW p \in Places, NEW q \in Places,
           2 <= p, p < q, q <= Len(tokens), IsBlock(Piece(p, q))
    PROVE  Token(p - 1) \notin {"stmt", "rbrace"} /\ (Token(p - 1) = "lbrace" => Token(q) = "rbrace")
<1>1. /\ Len(tokens) \in Nat /\ p \in 2..Len(tokens) /\ q \in (p + 1)..Len(tokens) /\ p - 1 \in Places
      /\ p - 1 <= Len(tokens) /\ p <= q /\ q <= Len(tokens) + 1
  BY DEF Places
<1>2. Token(p - 1) = tokens[p - 1] /\ Token(q) = tokens[q]
  BY <1>1, TokenAt
<1>3. Len(Piece(p, q)) = q - p
  BY <1>1, PieceOf
<1>4. SubSeq(tokens, p, q - 1) \in Bodies(q - p)
  BY <1>3 DEF IsBlock, Blocks, Piece
<1> QED BY <1>1, <1>2, <1>4 DEF BlockAmong

\* A list behind a brace begins with no block, or is one.
LEMMA InsideBlock ==
    ASSUME tokens \in Seq(Tokens), ~BlockAmong, NEW p \in Places, NEW q \in Places, p <= q,
           q <= Len(tokens) + 1, IsBlock(Piece(p, q))
    PROVE  /\ p <= Len(tokens) /\ Token(p) = "lbrace"
           /\ \E m \in Places : /\ q = m + 1 /\ p + 1 <= m /\ Token(m) = "rbrace"
                                /\ \/ IsList(Piece(p + 1, m)) /\ Token(p + 1) # "lbrace"
                                   \/ IsBlock(Piece(p + 1, m))
<1>1. /\ p <= Len(tokens) /\ Token(p) = "lbrace"
      /\ \E m \in Places : q = m + 1 /\ p + 1 <= m /\ Token(m) = "rbrace" /\ IsList(Piece(p + 1, m))
  BY BlockAt
<1>2. PICK m \in Places : q = m + 1 /\ p + 1 <= m /\ Token(m) = "rbrace" /\ IsList(Piece(p + 1, m))
  BY <1>1
<1>3. PICK i \in Places : i = p + 1
  BY DEF Places
<1>4. /\ 2 <= i /\ i <= m /\ m <= Len(tokens) + 1 /\ m <= Len(tokens) /\ i - 1 = p
  BY <1>2, <1>3 DEF Places
<1>5. ASSUME Token(i) = "lbrace" PROVE IsBlock(Piece(i, m))
  <2>1. m # i
    BY <1>2, <1>5
  <2>2. PICK k \in Places : i <= k /\ k <= m /\ IsStmt(Piece(i, k)) /\ IsList(Piece(k, m))
    BY <1>2, <1>3, <1>4, <2>1, ListAt
  <2>3. k <= Len(tokens) + 1 /\ k <= Len(tokens)
    BY <1>4, <2>2 DEF Places
  <2>4. i < k /\ IsBlock(Piece(i, k))
    BY <1>5, <2>2, <2>3, StmtAt
  <2>5. Token(k) = "rbrace"
    BY <1>1, <1>4, <2>3, <2>4, AroundBlock
  <2>6. CASE m = k
    BY <2>4, <2>6
  <2>7. CASE \E x \in Places : k <= x /\ x <= m /\ IsStmt(Piece(k, x))
    <3>1. PICK x \in Places : k <= x /\ x <= m /\ IsStmt(Piece(k, x))
      BY <2>7
    <3>2. x <= Len(tokens) + 1
      BY <1>4, <3>1 DEF Places
    <3>3. Token(k) \in {"stmt", "lbrace", "if", "for"}
      BY <3>1, <3>2, StmtAt
    <3> QED BY <2>5, <3>3
  <2> QED BY <1>4, <2>2, <2>6, <2>7, ListAt
<1> QED BY <1>1, <1>2, <1>3, <1>5

\* Places where a statement may end: before an else, one lies behind its branch.
Ends(K) ==
    \A x \in K : /\ x <= Len(tokens) + 1
                 /\ Token(x) = "else" => \E y \in K : y > x /\ IsStmt(Piece(x + 1, y))

StmtRead(p, r) ==
    \A K \in SUBSET Places : \A q \in K :
        Ends(K) /\ p <= q /\ IsStmt(Piece(p, q)) /\ Token(p) # "lbrace" => r.ok /\ ~r.wrong /\ r.next \in K
ListRead(p, r) ==
    \A q \in Places : p <= q /\ Token(q) = "rbrace" /\ IsList(Piece(p, q)) /\ Token(p) # "lbrace"
                         => r.ok /\ ~r.wrong /\ r.next = q
BlockRead(p, r) ==
    \A q \in Places : p <= q /\ q <= Len(tokens) + 1 /\ IsBlock(Piece(p, q)) => r.ok /\ ~r.wrong /\ r.next = q
Complete(what, p, r) ==
    CASE what \in {"inner", "alone"} -> StmtRead(p, r)
      [] what = "rest" -> ListRead(p, r)
      [] what = "domain" -> ListRead(p, r) /\ BlockRead(p, r)

LEMMA BranchComplete ==
    ASSUME tokens \in Seq(Tokens), ~BlockAmong, NEW p \in Places,
           StmtRead(p, Parsed[<<"alone", p>>]),
           p <= Len(tokens) => ListRead(p + 1, Parsed[<<"domain", p + 1>>])
                               /\ BlockRead(p + 1, Parsed[<<"domain", p + 1>>]),
           NEW K \in SUBSET Places, NEW q \in K, Ends(K), p <= q, IsStmt(Piece(p, q))
    PROVE  LET b == Branch(Parsed, p) IN b.ok /\ ~b.wrong /\ b.next \in K
<1>1. Len(tokens) \in Nat /\ p + 1 \in Places /\ p \in Nat /\ q \in Places /\ q <= Len(tokens) + 1
  BY TokenAt DEF Places, Ends
<1>2. PICK b : b = Branch(Parsed, p)
  OBVIOUS
<1>3. CASE Token(p) # "lbrace"
  <2>1. PICK s : s = Parsed[<<"alone", p>>]
    OBVIOUS
  <2>2. s.ok /\ ~s.wrong /\ s.next \in K
    BY <1>3, <2>1 DEF StmtRead
  <2>3. b = s
    BY <1>2, <1>3, <2>1, <2>2 DEF Branch, Alone
  <2> QED BY <1>2, <2>2, <2>3
<1>4. CASE Token(p) = "lbrace"
  <2>0. p <= Len(tokens) /\ IsBlock(Piece(p, q))
    BY <1>1, <1>4, StmtAt
  <2>1. p <= Len(tokens) /\ Token(p) = "lbrace"
    BY <1>4, <2>0
  <2>2. PICK m \in Places : /\ q = m + 1 /\ p + 1 <= m /\ Token(m) = "rbrace"
                            /\ \/ IsList(Piece(p + 1, m)) /\ Token(p + 1) # "lbrace"
                               \/ IsBlock(Piece(p + 1, m))
    BY <1>1, <2>0, InsideBlock
  <2>3. PICK d : d = Parsed[<<"domain", p + 1>>]
    OBVIOUS
  <2>4. m <= Len(tokens) + 1
    BY <1>1, <2>2 DEF Places
  <2>5. d.ok /\ ~d.wrong /\ d.next = m
    BY <2>1, <2>2, <2>3, <2>4 DEF ListRead, BlockRead
  <2>6. b = BranchEnd(d)
    BY <1>2, <2>1, <2>3 DEF Branch
  <2>7. PICK x : x = <<"block", d.tree>>
    OBVIOUS
  <2>8. PICK o \in BOOLEAN : o = (d.wrong \/ Token(d.next) # "rbrace")
    OBVIOUS
  <2>9. b = Ok(m + 1, x, o) /\ ~o
    <3>1. Past(d.next) = m + 1
      BY <2>2, <2>5 DEF Past
    <3> QED BY <2>2, <2>5, <2>6, <2>7, <2>8, <3>1 DEF BranchEnd
  <2>10. b.ok /\ b.next = m + 1 /\ b.wrong = o
    BY <2>9 DEF Ok
  <2> QED BY <1>2, <2>2, <2>9, <2>10
<1> QED BY <1>3, <1>4

\* What is known of the calls behind p.
Known(p) ==
    p <= Len(tokens) => \A k \in Kinds, q \in Places : q > p => Complete(k, q, Parsed[<<k, q>>])

LEMMA BranchKnown ==
    ASSUME tokens \in Seq(Tokens), ~BlockAmong, NEW p \in Places, Known(p), p <= Len(tokens),
           NEW K \in SUBSET Places, NEW q \in K, Ends(K), NEW n \in Places, p < n, n <= q, IsStmt(Piece(n, q))
    PROVE  LET b == Branch(Parsed, n) IN b.ok /\ ~b.wrong /\ b.next \in K
<1>1. "alone" \in Kinds /\ "domain" \in Kinds /\ n + 1 \in Places /\ n + 1 > p /\ n > p
  BY DEF Kinds, Places
<1>2. StmtRead(n, Parsed[<<"alone", n>>])
  <2>1. Complete("alone", n, Parsed[<<"alone", n>>])
    BY <1>1 DEF Known
  <2> QED BY <2>1 DEF Complete
<1>3. ListRead(n + 1, Parsed[<<"domain", n + 1>>]) /\ BlockRead(n + 1, Parsed[<<"domain", n + 1>>])
  <2>1. Complete("domain", n + 1, Parsed[<<"domain", n + 1>>])
    BY <1>1 DEF Known
  <2> QED BY <2>1 DEF Complete
<1> QED BY <1>2, <1>3, BranchComplete

LEMMA IfComplete ==
    ASSUME tokens \in Seq(Tokens), ~BlockAmong, NEW p \in Places, Known(p), p <= Len(tokens),
           NEW K \in SUBSET Places, NEW q \in K, Ends(K), p + 1 <= q,
           \/ IsStmt(Piece(p + 1, q))
           \/ \E m \in Places : /\ p + 1 <= m /\ m + 1 <= q /\ Token(m) = "else"
                                /\ IsStmt(Piece(p + 1, m)) /\ IsStmt(Piece(m + 1, q))
    PROVE  LET r == IfParse(Parsed, p + 1) IN r.ok /\ ~r.wrong /\ r.next \in K
<1>1. Len(tokens) \in Nat /\ p + 1 \in Places /\ p < p + 1 /\ q \in Places /\ q <= Len(tokens) + 1
  BY TokenAt DEF Places, Ends
<1>2. PICK r : r = IfParse(Parsed, p + 1)
  OBVIOUS
<1>3. PICK t : t = Branch(Parsed, p + 1)
  OBVIOUS
<1>4. /\ t.ok /\ ~t.wrong /\ t.next \in Places /\ p < t.next
      /\ Token(t.next) # "else" => t.next \in K
      /\ Token(t.next) = "else" => \E y \in K : y > t.next /\ IsStmt(Piece(t.next + 1, y))
  <2>0. Sound(p + 1, t)
    BY <1>1, <1>3, ParsedSame, BranchSound
  <2>1. t.next \in Places /\ p < t.next
    BY <1>1, <2>0 DEF Sound, Places
  <2>2. CASE IsStmt(Piece(p + 1, q))
    <3>1. t.ok /\ ~t.wrong /\ t.next \in K
      BY <1>1, <1>3, <2>2, BranchKnown
    <3> QED BY <2>1, <3>1 DEF Ends
  <2>3. CASE \E m \in Places : /\ p + 1 <= m /\ m + 1 <= q /\ Token(m) = "else"
                               /\ IsStmt(Piece(p + 1, m)) /\ IsStmt(Piece(m + 1, q))
    <3>1. PICK m \in Places : /\ p + 1 <= m /\ m + 1 <= q /\ Token(m) = "else"
                              /\ IsStmt(Piece(p + 1, m)) /\ IsStmt(Piece(m + 1, q))
      BY <2>3
    <3>2. PICK L \in SUBSET Places : L = K \cup {m}
      OBVIOUS
    <3>3. m \in L /\ q > m /\ m <= Len(tokens) + 1
      BY <1>1, <3>1, <3>2 DEF Places
    <3>4. Ends(L)
      BY <3>1, <3>2, <3>3 DEF Ends
    <3>5. t.ok /\ ~t.wrong /\ t.next \in L
      BY <1>1, <1>3, <3>1, <3>3, <3>4, BranchKnown
    <3>6. CASE t.next = m
      BY <2>1, <3>1, <3>3, <3>5, <3>6
    <3>7. CASE t.next \in K
      BY <2>1, <3>5, <3>7 DEF Ends
    <3> QED BY <3>2, <3>5, <3>6, <3>7
  <2> QED BY <2>2, <2>3
<1>5. CASE Token(t.next) # "else"
  <2>1. PICK x : x = <<"if", t.tree>>
    OBVIOUS
  <2>2. r = Ok(t.next, x, t.wrong)
    BY <1>2, <1>3, <1>4, <1>5, <2>1 DEF IfParse
  <2>3. r.ok /\ r.next = t.next /\ r.wrong = t.wrong
    BY <2>2 DEF Ok
  <2> QED BY <1>2, <1>4, <1>5, <2>3
<1>6. CASE Token(t.next) = "else"
  <2>1. PICK y \in K : y > t.next /\ IsStmt(Piece(t.next + 1, y))
    BY <1>4, <1>6
  <2>2. PICK n \in Places : n = t.next + 1
    BY <1>4 DEF Places
  <2>3. p < n /\ n <= y
    BY <1>1, <1>4, <2>1, <2>2 DEF Places
  <2>4. PICK e : e = Branch(Parsed, t.next + 1)
    OBVIOUS
  <2>5. e.ok /\ ~e.wrong /\ e.next \in K
    BY <2>1, <2>2, <2>3, <2>4, BranchKnown
  <2>6. r = IfElse(t, e)
    BY <1>2, <1>3, <1>4, <1>6, <2>4 DEF IfParse
  <2>7. PICK x : x = <<"if", t.tree, e.tree>>
    OBVIOUS
  <2>8. PICK o \in BOOLEAN : o = (t.wrong \/ e.wrong)
    OBVIOUS
  <2>9. r = Ok(e.next, x, o)
    BY <2>5, <2>6, <2>7, <2>8 DEF IfElse
  <2>10. r.ok /\ r.next = e.next /\ r.wrong = o
    BY <2>9 DEF Ok
  <2> QED BY <1>2, <1>4, <2>5, <2>8, <2>10
<1> QED BY <1>5, <1>6

LEMMA SingleComplete ==
    ASSUME tokens \in Seq(Tokens), ~BlockAmong, ~ForHasBlock, NEW p \in Places, NEW what \in {"inner", "alone"}, Known(p)
    PROVE  StmtRead(p, Parsed[<<what, p>>])
<1> DEFINE e == IF what = "inner" THEN "rbrace" ELSE "semicolon"
<1>1. what \in Kinds /\ Len(tokens) \in Nat /\ p \in Nat /\ p + 1 \in Places /\ p + 1 > p
  BY TokenAt DEF Kinds, Places
<1>2. PICK r : r = Parsed[<<what, p>>]
  OBVIOUS
<1>3. r = Single(Parsed, p, e)
  BY <1>1, <1>2, ParsedSound DEF Call
<1>4. e \in {"rbrace", "semicolon"}
  OBVIOUS
<1> HIDE DEF e
<1> SUFFICES ASSUME NEW K \in SUBSET Places, NEW q \in K, Ends(K), p <= q, IsStmt(Piece(p, q)), Token(p) # "lbrace"
             PROVE  r.ok /\ ~r.wrong /\ r.next \in K
  BY <1>2 DEF StmtRead
<1>5. q \in Places /\ q <= Len(tokens) + 1
  BY DEF Ends
<1>6. p <= Len(tokens) /\ p < q
  BY <1>5, StmtAt
<1>7. CASE Token(p) = "stmt" /\ q = p + 1
  <2>1. PICK x : x = <<"stmt">>
    OBVIOUS
  <2>2. r = Ok(p + 1, x, FALSE)
    BY <1>3, <1>4, <1>7, <2>1 DEF Single
  <2> QED BY <1>7, <2>2 DEF Ok
<1>8. CASE /\ Token(p) = "if" /\ p + 1 <= q
           /\ \/ IsStmt(Piece(p + 1, q))
              \/ \E m \in Places : /\ p + 1 <= m /\ m + 1 <= q /\ Token(m) = "else"
                                   /\ IsStmt(Piece(p + 1, m)) /\ IsStmt(Piece(m + 1, q))
  <2>1. r = IfParse(Parsed, p + 1)
    BY <1>3, <1>4, <1>8 DEF Single
  <2> QED BY <1>6, <1>8, <2>1, IfComplete
<1>9. CASE Token(p) = "for" /\ p + 1 <= q /\ IsStmt(Piece(p + 1, q))
  <2>1. r = ForParse(Parsed, p + 1)
    BY <1>3, <1>4, <1>9 DEF Single
  <2>2. PICK s : s = Parsed[<<"alone", p + 1>>]
    OBVIOUS
  <2>3. "alone" \in Kinds
    BY DEF Kinds
  <2>4. StmtRead(p + 1, s)
    <3>1. Complete("alone", p + 1, s)
      BY <1>1, <1>6, <2>2, <2>3 DEF Known
    <3> QED BY <3>1 DEF Complete
  <2>5. s.ok /\ ~s.wrong /\ s.next \in K
    <3>1. p + 1 <= Len(tokens)
      BY <1>1, <1>5, <1>9, StmtAt
    <3>2. p \in 1..(Len(tokens) - 1) /\ Token(p) = tokens[p] /\ Token(p + 1) = tokens[p + 1]
      BY <1>1, <1>6, <3>1, TokenAt DEF Places
    <3>3. Token(p + 1) # "lbrace"
      BY <1>9, <3>2 DEF ForHasBlock
    <3> QED BY <1>9, <2>4, <3>3 DEF StmtRead
  <2>6. PICK x : x = <<"for", s.tree>>
    OBVIOUS
  <2>7. r = Ok(s.next, x, s.wrong)
    BY <2>1, <2>2, <2>5, <2>6 DEF ForParse
  <2>8. r.ok /\ r.next = s.next /\ r.wrong = s.wrong
    BY <2>7 DEF Ok
  <2> QED BY <2>5, <2>8
<1>10. \/ Token(p) = "stmt" /\ q = p + 1
       \/ /\ Token(p) = "if" /\ p + 1 <= q
          /\ \/ IsStmt(Piece(p + 1, q))
             \/ \E m \in Places : /\ p + 1 <= m /\ m + 1 <= q /\ Token(m) = "else"
                                  /\ IsStmt(Piece(p + 1, m)) /\ IsStmt(Piece(m + 1, q))
       \/ Token(p) = "for" /\ p + 1 <= q /\ IsStmt(Piece(p + 1, q))
  <2>1. p + 1 <= q
    BY <1>1, <1>5, <1>6 DEF Places
  <2> QED BY <1>5, <2>1, StmtAt
<1> QED BY <1>7, <1>8, <1>9, <1>10

\* What a statement list in braces begins with.
LEMMA ListStarts ==
    ASSUME tokens \in Seq(Tokens), NEW p \in Places, NEW q \in Places, p <= q, Token(q) = "rbrace",
           IsList(Piece(p, q))
    PROVE  p <= Len(tokens) /\ q <= Len(tokens) /\ Token(p) \in {"stmt", "lbrace", "if", "for", "rbrace"}
<1>1. Len(tokens) \in Nat /\ q <= Len(tokens) /\ p \in Nat /\ q \in Nat
  BY TokenAt DEF Places
<1>2. p <= Len(tokens) /\ q <= Len(tokens) + 1
  BY <1>1
<1>3. CASE q = p
  BY <1>1, <1>2, <1>3
<1>4. CASE \E m \in Places : p <= m /\ m <= q /\ IsStmt(Piece(p, m)) /\ IsList(Piece(m, q))
  <2>1. PICK m \in Places : p <= m /\ m <= q /\ IsStmt(Piece(p, m))
    BY <1>4
  <2>2. m <= Len(tokens) + 1
    BY <1>1, <2>1 DEF Places
  <2>3. Token(p) \in {"stmt", "lbrace", "if", "for"}
    BY <2>1, <2>2, StmtAt
  <2> QED BY <1>1, <1>2, <2>3
<1> QED BY <1>2, <1>3, <1>4, ListAt

LEMMA RestComplete ==
    ASSUME tokens \in Seq(Tokens), ~BlockAmong, NEW p \in Places, StmtRead(p, Parsed[<<"inner", p>>]), Known(p)
    PROVE  ListRead(p, Parsed[<<"rest", p>>])
<1>1. "inner" \in Kinds /\ "rest" \in Kinds /\ Len(tokens) \in Nat /\ p \in Nat
  BY TokenAt DEF Kinds, Places
<1>2. PICK s : s = Parsed[<<"inner", p>>]
  OBVIOUS
<1>3. PICK r : r = Parsed[<<"rest", p>>]
  OBVIOUS
<1>4. r = Statements(Parsed, p)
  BY <1>1, <1>3, ParsedSound DEF Call
<1> SUFFICES ASSUME NEW q \in Places, p <= q, Token(q) = "rbrace", IsList(Piece(p, q)), Token(p) # "lbrace"
             PROVE  r.ok /\ ~r.wrong /\ r.next = q
  BY <1>3 DEF ListRead
<1>5. p <= Len(tokens) /\ q <= Len(tokens)
  BY ListStarts
<1>6. CASE q = p
  <2>1. s = Single(Parsed, p, "rbrace")
    BY <1>1, <1>2, ParsedSound DEF Call
  <2>2. s = Failed(p, FALSE, FALSE)
    BY <1>6, <2>1 DEF Single
  <2>3. ~s.ok /\ ~s.said /\ ~s.wrong /\ s.next = p
    BY <2>2 DEF Failed
  <2>4. PICK x : x = <<>>
    OBVIOUS
  <2>5. r = Ok(s.next, x, s.wrong)
    BY <1>2, <1>4, <2>3, <2>4 DEF Statements
  <2>6. r.ok /\ r.next = s.next /\ r.wrong = s.wrong
    BY <2>5 DEF Ok
  <2> QED BY <1>6, <2>3, <2>6
<1>7. CASE \E m \in Places : p <= m /\ m <= q /\ IsStmt(Piece(p, m)) /\ IsList(Piece(m, q))
  <2>1. PICK m \in Places : p <= m /\ m <= q /\ IsStmt(Piece(p, m)) /\ IsList(Piece(m, q))
    BY <1>7
  <2>2. m <= Len(tokens) /\ Token(m) # "else"
    BY <2>1, ListStarts
  <2>3. m <= Len(tokens) + 1
    BY <1>1, <2>2 DEF Places
  <2>4. p < m
    BY <2>1, <2>3, StmtAt
  <2>5. PICK K \in SUBSET Places : K = {m}
    OBVIOUS
  <2>6. m \in K /\ Ends(K)
    BY <2>2, <2>3, <2>5 DEF Ends
  <2>7. s.ok /\ ~s.wrong /\ s.next = m
    BY <1>2, <2>1, <2>5, <2>6 DEF StmtRead
  <2>8. PICK t : t = Parsed[<<"rest", m>>]
    OBVIOUS
  <2>9. ListRead(m, t)
    <3>1. Complete("rest", m, t)
      BY <1>1, <1>5, <2>4, <2>8 DEF Known
    <3> QED BY <3>1 DEF Complete
  <2>13. Token(m) # "lbrace"
    <3> SUFFICES ASSUME Token(m) = "lbrace" PROVE FALSE
      OBVIOUS
    <3>1. m # q /\ q <= Len(tokens) + 1 /\ 2 <= m
      BY <1>1, <1>5, <2>4 DEF Places
    <3>2. PICK k \in Places : m <= k /\ k <= q /\ IsStmt(Piece(m, k))
      BY <2>1, <3>1, ListAt
    <3>3. k <= Len(tokens) /\ k <= Len(tokens) + 1
      BY <1>1, <1>5, <3>2 DEF Places
    <3>4. m < k /\ IsBlock(Piece(m, k))
      BY <3>2, <3>3, StmtAt
    <3>5. Token(m - 1) \in {"stmt", "rbrace"}
      BY <2>1, <2>3, LastToken
    <3> QED BY <3>1, <3>3, <3>4, <3>5, AroundBlock
  <2>10. t.ok /\ ~t.wrong /\ t.next = q
    BY <2>1, <2>9, <2>13 DEF ListRead
  <2>11. r = Behind(s, t)
    BY <1>2, <1>4, <2>7, <2>8 DEF Statements
  <2>12. r.ok /\ r.next = t.next /\ r.wrong = (s.wrong \/ t.wrong)
    BY <2>10, <2>11 DEF Behind, Ok
  <2> QED BY <2>7, <2>10, <2>12
<1>8. q <= Len(tokens) + 1
  BY <1>1, <1>5 DEF Places
<1> QED BY <1>6, <1>7, <1>8, ListAt

LEMMA DomainComplete ==
    ASSUME tokens \in Seq(Tokens), ~BlockAmong, NEW p \in Places, ListRead(p, Parsed[<<"rest", p>>]), Known(p)
    PROVE  ListRead(p, Parsed[<<"domain", p>>]) /\ BlockRead(p, Parsed[<<"domain", p>>])
<1>1. "domain" \in Kinds /\ Len(tokens) \in Nat /\ p \in Nat /\ p + 1 \in Places /\ p + 1 > p
  BY TokenAt DEF Kinds, Places
<1>2. PICK r : r = Parsed[<<"domain", p>>]
  OBVIOUS
<1>3. r = Domain(Parsed, p)
  BY <1>1, <1>2, ParsedSound DEF Call
<1>4. ASSUME NEW q \in Places, p <= q, Token(q) = "rbrace", IsList(Piece(p, q)), Token(p) # "lbrace"
      PROVE  r.ok /\ ~r.wrong /\ r.next = q
  <2>1. p <= Len(tokens) /\ Token(p) # "lbrace"
    BY <1>4, ListStarts
  <2>2. ~IsEOF(p)
    BY <1>1, <2>1 DEF IsEOF
  <2>3. r = Parsed[<<"rest", p>>]
    BY <1>3, <2>1, <2>2 DEF Domain
  <2> QED BY <1>4, <2>3 DEF ListRead
<1>5. ASSUME NEW q \in Places, p <= q, q <= Len(tokens) + 1, IsBlock(Piece(p, q))
      PROVE  r.ok /\ ~r.wrong /\ r.next = q
  <2>1. p <= Len(tokens) /\ Token(p) = "lbrace"
    BY <1>5, BlockAt
  <2>2. PICK m \in Places : /\ q = m + 1 /\ p + 1 <= m /\ Token(m) = "rbrace"
                            /\ \/ IsList(Piece(p + 1, m)) /\ Token(p + 1) # "lbrace"
                               \/ IsBlock(Piece(p + 1, m))
    BY <1>5, InsideBlock
  <2>3. PICK d : d = Parsed[<<"domain", p + 1>>]
    OBVIOUS
  <2>4. ListRead(p + 1, d) /\ BlockRead(p + 1, d)
    <3>1. Complete("domain", p + 1, d)
      BY <1>1, <2>1, <2>3 DEF Known
    <3> QED BY <3>1 DEF Complete
  <2>5. m <= Len(tokens) + 1
    BY <1>1, <1>5, <2>2 DEF Places
  <2>6. d.ok /\ ~d.wrong /\ d.next = m
    BY <2>2, <2>4, <2>5 DEF ListRead, BlockRead
  <2>7. ~IsEOF(p)
    BY <1>1, <2>1 DEF IsEOF
  <2>8. r = Braced(d)
    BY <1>3, <2>1, <2>3, <2>7 DEF Domain
  <2>9. PICK x : x = << <<"block", d.tree>> >>
    OBVIOUS
  <2>10. r = Ok(d.next + 1, x, d.wrong)
    BY <2>2, <2>6, <2>8, <2>9 DEF Braced
  <2>11. r.ok /\ r.next = d.next + 1 /\ r.wrong = d.wrong
    BY <2>10 DEF Ok
  <2> QED BY <2>2, <2>6, <2>11
<1> QED BY <1>2, <1>4, <1>5 DEF ListRead, BlockRead

LEMMA ParsedComplete ==
    ASSUME tokens \in Seq(Tokens), ~BlockAmong, ~ForHasBlock
    PROVE  \A what \in Kinds, p \in Places : Complete(what, p, Parsed[<<what, p>>])
<1> DEFINE T == {c \in Kinds \X Places : Complete(c[1], c[2], Parsed[c])}
<1>1. ASSUME NEW what \in Kinds, NEW p \in Places, Below(T, what, p) PROVE <<what, p>> \in T
  <2> SUFFICES Complete(what, p, Parsed[<<what, p>>])
    OBVIOUS
  <2>1. \A k \in Kinds, q \in Places : <<k, q>> \in T => Complete(k, q, Parsed[<<k, q>>])
    OBVIOUS
  <2> HIDE DEF T
  <2>2. Known(p)
    BY <1>1, <2>1 DEF Below, Known
  <2>3. /\ "inner" \in Kinds /\ "rest" \in Kinds /\ "domain" \in Kinds
        /\ Rank("inner") < Rank("rest") /\ Rank("rest") < Rank("domain")
    BY DEF Kinds, Rank
  <2>4. CASE what \in {"inner", "alone"}
    BY <2>2, <2>4, SingleComplete DEF Complete
  <2>5. CASE what = "rest"
    <3>1. Complete("inner", p, Parsed[<<"inner", p>>])
      BY <1>1, <2>1, <2>3, <2>5 DEF Below
    <3>2. StmtRead(p, Parsed[<<"inner", p>>])
      BY <3>1 DEF Complete
    <3> QED BY <2>2, <2>5, <3>2, RestComplete DEF Complete
  <2>6. CASE what = "domain"
    <3>1. Complete("rest", p, Parsed[<<"rest", p>>])
      BY <1>1, <2>1, <2>3, <2>6 DEF Below
    <3>2. ListRead(p, Parsed[<<"rest", p>>])
      BY <3>1 DEF Complete
    <3> QED BY <2>2, <2>6, <3>2, DomainComplete DEF Complete
  <2> QED BY <2>4, <2>5, <2>6 DEF Kinds
<1>2. \A what \in Kinds, p \in Places : <<what, p>> \in T
  <2> HIDE DEF T
  <2> QED BY <1>1, CallInduction
<1> QED BY <1>2

LEMMA BodyComplete ==
    ASSUME tokens \in Seq(Tokens), ~BlockAmong, ~ForHasBlock, tokens \in Bodies(Len(tokens))
    PROVE  FunctionBody.ok /\ ~FunctionBody.wrong /\ FunctionBody.next = Len(tokens) + 1
<1>1. Len(tokens) \in Nat /\ 1 \in Places /\ Len(tokens) + 1 \in Places /\ 1 <= Len(tokens) + 1
  BY DEF Places
<1>2. Piece(1, Len(tokens) + 1) = tokens
  <2>1. (Len(tokens) + 1) - 1 = Len(tokens)
    BY <1>1
  <2>2. SubSeq(tokens, 1, Len(tokens)) = tokens
    BY SubSeqFull
  <2> QED BY <2>1, <2>2 DEF Piece
<1>3. IsBlock(Piece(1, Len(tokens) + 1))
  BY <1>2 DEF IsBlock, Blocks
<1>4. ~IsEOF(2)
  <2>1. PICK q \in Places : q = Len(tokens) + 1
    BY <1>1
  <2>2. PICK m \in Places : q = m + 1 /\ 1 + 1 <= m
    BY <1>1, <1>3, <2>1, BlockAt
  <2>3. 2 <= Len(tokens)
    BY <1>1, <2>1, <2>2 DEF Places
  <2> QED BY <1>1, <2>3 DEF IsEOF
<1>5. "domain" \in Kinds
  BY DEF Kinds
<1>6. PICK r : r = Parsed[<<"domain", 1>>]
  OBVIOUS
<1>7. BlockRead(1, r)
  <2>1. Complete("domain", 1, r)
    BY <1>1, <1>5, <1>6, ParsedComplete
  <2> QED BY <2>1 DEF Complete
<1>8. r.ok /\ ~r.wrong /\ r.next = Len(tokens) + 1
  BY <1>1, <1>3, <1>7 DEF BlockRead
<1> QED BY <1>4, <1>6, <1>8 DEF FunctionBody

\* ParseCodeDomain accepts every function body of C in which no for has a block and no
\* block is among other statements: no statement ends too early and no else is left over.
\* Of what has no piece given up without a message, no other token eaten as a "}" and more
\* than "{" in it, it accepts nothing that is no function body of C.
THEOREM GrammarDecided == Spec => []AcceptsExactly
<1> DEFINE Inv == tokens # <<>> /\ tokens[1] = "lbrace" /\ AcceptsExactly
<1>1. Init => Inv
  BY DEF Init, AcceptsExactly, Done
<1>2. TypeOK /\ Inv /\ [Next]_vars => Inv'
  <2> SUFFICES ASSUME TypeOK, Inv, [Next]_vars PROVE Inv'
    OBVIOUS
  <2>1. CASE Next
    <3>1. tokens' = tokens /\ blank' = blank /\ result' = FunctionBody
      BY <2>1 DEF Next, Parse
    <3>2. tokens \in Seq(Tokens) /\ Len(tokens) \in Nat
      BY InputsAssumption DEF TypeOK
    <3>3. Bodies(Len(tokens))' = Bodies(Len(tokens))
      BY <3>1
    <3>4. ASSUME tokens \in Bodies(Len(tokens)), ~ForHasBlock', ~BlockAmong' PROVE Accepted' /\ ~result'.wrong
      <4>1. PICK r : r = FunctionBody
        OBVIOUS
      <4>2. ~ForHasBlock /\ ~BlockAmong
        BY <3>1, <3>4 DEF ForHasBlock, BlockAmong
      <4>3. r.ok /\ ~r.wrong /\ r.next > Len(tokens)
        BY <3>2, <3>4, <4>1, <4>2, BodyComplete
      <4> QED BY <3>1, <4>1, <4>3 DEF Accepted, Silent
    <3>5. ASSUME Silent', Whole', ~result'.wrong, ~OnlyOpens' PROVE tokens \in Bodies(Len(tokens))
      <4>1. Whole /\ ~OnlyOpens
        BY <3>1, <3>5 DEF Whole, OnlyOpens
      <4>2. IF FunctionBody.ok THEN FunctionBody.next > Len(tokens) /\ ~FunctionBody.wrong ELSE ~FunctionBody.said
        BY <3>1, <3>5 DEF Silent
      <4> QED BY <3>2, <4>1, <4>2, BodyFaithful
    <3>6. AcceptsGrammar' /\ AcceptsOnlyGrammar'
      BY <3>1, <3>3, <3>4, <3>5 DEF AcceptsGrammar, AcceptsOnlyGrammar, Accepted
    <3> QED BY <3>1, <3>6 DEF AcceptsExactly
  <2>2. CASE UNCHANGED vars
    BY <2>2 DEF vars, AcceptsExactly, AcceptsGrammar, AcceptsOnlyGrammar, Done, Accepted, Silent, IsEOF, Whole, OnlyOpens,
                ForHasBlock, BlockAmong
  <2> QED BY <2>1, <2>2
<1>3. Inv => AcceptsExactly
  OBVIOUS
<1> QED BY <1>1, <1>2, <1>3, TypeCorrect, PTL DEF Spec

-----------------------------------------------------------------------------
(* The trees of a span of the text are defined by those of shorter ones.   *)

Shapes == {"closed", "open", "list"}
Width(i, j) == IF i <= j THEN j - i ELSE 0
Size(d) == 2 * Width(d[2], d[3]) + (IF d[1] = "list" THEN 1 ELSE 0)

\* Two functions give the spans shorter than n the same trees.
SameTrees(U, V, n) == \A d \in Spans : Width(d[2], d[3]) < n => U[d] = V[d]

LEMMA SpanIs ==
    ASSUME NEW d \in Spans
    PROVE  /\ \E what \in Shapes, i \in Places, j \in Places :
                 d = <<what, i, j>> /\ d[1] = what /\ d[2] = i /\ d[3] = j
           /\ Width(d[2], d[3]) \in Nat /\ Size(d) \in Nat
<1>1. PICK what \in Shapes, i \in Places, j \in Places : d = <<what, i, j>>
  BY DEF Spans, Shapes
<1>2. d[1] = what /\ d[2] = i /\ d[3] = j
  BY <1>1
<1>3. Width(i, j) \in Nat
  BY DEF Width, Places
<1> QED BY <1>1, <1>2, <1>3 DEF Size

LEMMA SpansAre ==
    ASSUME NEW what \in Shapes, NEW i \in Places, NEW j \in Places
    PROVE  /\ <<what, i, j>> \in Spans
           /\ <<what, i, j>>[1] = what /\ <<what, i, j>>[2] = i /\ <<what, i, j>>[3] = j
BY DEF Spans, Shapes

LEMMA SameAt ==
    ASSUME NEW U, NEW V, NEW n, SameTrees(U, V, n), NEW what \in Shapes, NEW i \in Places, NEW j \in Places,
           Width(i, j) < n
    PROVE  U[<<what, i, j>>] = V[<<what, i, j>>]
<1>1. PICK d : d = <<what, i, j>>
  OBVIOUS
<1>2. d \in Spans /\ d[2] = i /\ d[3] = j
  BY <1>1, SpansAre
<1> QED BY <1>1, <1>2 DEF SameTrees

\* What the sets of trees contain.
IsElse(T, kind, i, j, t) ==
    /\ Token(i) = "if"
    /\ \E m \in (i + 2)..(j - 2) :
         /\ Token(m) = "else"
         /\ \E a \in T[<<"closed", i + 1, m>>], b \in T[<<kind, m + 1, j>>] : t = <<"if", a, b>>
IsMore(T, i, j, t) ==
    \E m \in (i + 1)..j : \E s \in T[<<"closed", i, m>>] \cup T[<<"open", i, m>>], l \in T[<<"list", m, j>>] : t = <<s>> \o l

LEMMA InElses ==
    ASSUME NEW T, NEW kind, NEW i, NEW j, NEW t
    PROVE  t \in ElseTrees(T, kind, i, j) <=> IsElse(T, kind, i, j, t)
<1> DEFINE F(m) == {<<"if", a, b>> : a \in T[<<"closed", i + 1, m>>], b \in T[<<kind, m + 1, j>>]}
           D == {m \in (i + 2)..(j - 2) : Token(m) = "else"}
<1>1. ElseTrees(T, kind, i, j) = IF Token(i) = "if" THEN UNION {F(m) : m \in D} ELSE {}
  BY DEF ElseTrees
<1>2. \A m : t \in F(m) <=> \E a \in T[<<"closed", i + 1, m>>], b \in T[<<kind, m + 1, j>>] : t = <<"if", a, b>>
  OBVIOUS
<1>3. IsElse(T, kind, i, j, t) <=> Token(i) = "if" /\ \E m \in D : t \in F(m)
  BY <1>2 DEF IsElse
<1> HIDE DEF F, D
<1>4. t \in UNION {F(m) : m \in D} <=> \E m \in D : t \in F(m)
  OBVIOUS
<1> QED BY <1>1, <1>3, <1>4

LEMMA InLists ==
    ASSUME NEW T, NEW i, NEW j, NEW t
    PROVE  t \in ListTrees(T, i, j) <=> IF i = j THEN t = <<>> ELSE IsMore(T, i, j, t)
<1> DEFINE F(m) == {<<s>> \o l : s \in T[<<"closed", i, m>>] \cup T[<<"open", i, m>>], l \in T[<<"list", m, j>>]}
           D == (i + 1)..j
<1>1. ListTrees(T, i, j) = IF i = j THEN {<<>>} ELSE UNION {F(m) : m \in D}
  BY DEF ListTrees
<1>2. \A m : t \in F(m) <=> \E s \in T[<<"closed", i, m>>] \cup T[<<"open", i, m>>], l \in T[<<"list", m, j>>] : t = <<s>> \o l
  OBVIOUS
<1>3. IsMore(T, i, j, t) <=> \E m \in D : t \in F(m)
  BY <1>2 DEF IsMore
<1> HIDE DEF F, D
<1>4. t \in UNION {F(m) : m \in D} <=> \E m \in D : t \in F(m)
  OBVIOUS
<1> QED BY <1>1, <1>3, <1>4

LEMMA ElsesSame ==
    ASSUME NEW U, NEW V, NEW i \in Places, NEW j \in Places, SameTrees(U, V, Width(i, j)), NEW kind \in {"closed", "open"}
    PROVE  ElseTrees(U, kind, i, j) = ElseTrees(V, kind, i, j)
<1>1. ASSUME NEW m \in (i + 2)..(j - 2)
      PROVE  /\ U[<<"closed", i + 1, m>>] = V[<<"closed", i + 1, m>>]
             /\ U[<<kind, m + 1, j>>] = V[<<kind, m + 1, j>>]
  <2>1. i \in Nat /\ j \in Nat
    BY DEF Places
  <2>2. i + 1 \in Places /\ m \in Places /\ m + 1 \in Places
    BY <2>1 DEF Places
  <2>3. Width(i + 1, m) < Width(i, j) /\ Width(m + 1, j) < Width(i, j)
    BY <2>1 DEF Width
  <2> QED BY <2>2, <2>3, SameAt DEF Shapes
<1>2. \A t : IsElse(U, kind, i, j, t) <=> IsElse(V, kind, i, j, t)
  BY <1>1 DEF IsElse
<1>3. \A t : t \in ElseTrees(U, kind, i, j) <=> t \in ElseTrees(V, kind, i, j)
  BY <1>2, InElses
<1> QED BY <1>3

LEMMA ForsSame ==
    ASSUME NEW U, NEW V, NEW i \in Places, NEW j \in Places, SameTrees(U, V, Width(i, j)), NEW kind \in {"closed", "open"}
    PROVE  ForTrees(U, kind, i, j) = ForTrees(V, kind, i, j)
<1>1. CASE i + 1 < j
  <2>1. i + 1 \in Places /\ Width(i + 1, j) < Width(i, j)
    BY <1>1 DEF Width, Places
  <2>2. U[<<kind, i + 1, j>>] = V[<<kind, i + 1, j>>]
    BY <2>1, SameAt DEF Shapes
  <2> QED BY <2>2 DEF ForTrees
<1>2. CASE ~(i + 1 < j)
  BY <1>2 DEF ForTrees
<1> QED BY <1>1, <1>2

LEMMA BlocksSame ==
    ASSUME NEW U, NEW V, NEW i \in Places, NEW j \in Places, SameTrees(U, V, Width(i, j))
    PROVE  BlockTrees(U, i, j) = BlockTrees(V, i, j)
<1>1. CASE i + 1 < j
  <2>1. i + 1 \in Places /\ j - 1 \in Places /\ Width(i + 1, j - 1) < Width(i, j)
    BY <1>1 DEF Width, Places
  <2>2. U[<<"list", i + 1, j - 1>>] = V[<<"list", i + 1, j - 1>>]
    BY <2>1, SameAt DEF Shapes
  <2> QED BY <2>2 DEF BlockTrees
<1>2. CASE ~(i + 1 < j)
  BY <1>2 DEF BlockTrees
<1> QED BY <1>1, <1>2

LEMMA ListsSame ==
    ASSUME NEW U, NEW V, NEW i \in Places, NEW j \in Places, SameTrees(U, V, Width(i, j)),
           \A m \in Places : i < m /\ m <= j => /\ U[<<"closed", i, m>>] = V[<<"closed", i, m>>]
                                                /\ U[<<"open", i, m>>] = V[<<"open", i, m>>]
    PROVE  ListTrees(U, i, j) = ListTrees(V, i, j)
<1>1. ASSUME NEW m \in (i + 1)..j
      PROVE  /\ U[<<"closed", i, m>>] = V[<<"closed", i, m>>] /\ U[<<"open", i, m>>] = V[<<"open", i, m>>]
             /\ U[<<"list", m, j>>] = V[<<"list", m, j>>]
  <2>1. i \in Nat /\ j \in Nat
    BY DEF Places
  <2>2. m \in Places /\ i < m /\ m <= j
    BY <2>1 DEF Places
  <2>3. Width(m, j) < Width(i, j)
    BY <2>1, <2>2 DEF Width
  <2> QED BY <2>2, <2>3, SameAt DEF Shapes
<1>2. \A t : IsMore(U, i, j, t) <=> IsMore(V, i, j, t)
  BY <1>1 DEF IsMore
<1>3. \A t : t \in ListTrees(U, i, j) <=> t \in ListTrees(V, i, j)
  BY <1>2, InLists
<1> QED BY <1>3

OfSpan(T, d) == Derived(T, d[1], d[2], d[3])

LEMMA OfSpanSame ==
    ASSUME NEW U, NEW V, NEW d \in Spans, \A e \in Spans : Size(e) < Size(d) => U[e] = V[e]
    PROVE  OfSpan(U, d) = OfSpan(V, d)
<1>1. PICK what \in Shapes, i \in Places, j \in Places : d = <<what, i, j>> /\ d[1] = what /\ d[2] = i /\ d[3] = j
  BY SpanIs
<1>2. Width(i, j) \in Nat
  BY <1>1, SpanIs
<1>3. SameTrees(U, V, Width(i, j))
  <2> SUFFICES ASSUME NEW e \in Spans, Width(e[2], e[3]) < Width(i, j) PROVE U[e] = V[e]
    BY DEF SameTrees
  <2>1. Width(e[2], e[3]) \in Nat
    BY SpanIs
  <2>2. Size(e) < Size(d)
    BY <1>1, <1>2, <2>1 DEF Size
  <2> QED BY <2>2
<1>4. i + 1 < j => i + 1 \in Places /\ Width(i + 1, j) < Width(i, j)
  BY DEF Width, Places
<1>5. CASE what = "closed"
  <2>1. ClosedTrees(U, i, j) = ClosedTrees(V, i, j)
    BY <1>3, ForsSame, ElsesSame, BlocksSame DEF ClosedTrees
  <2> QED BY <1>1, <1>5, <2>1 DEF OfSpan, Derived
<1>6. CASE what = "open"
  <2>1. i + 1 < j => /\ U[<<"closed", i + 1, j>>] = V[<<"closed", i + 1, j>>]
                     /\ U[<<"open", i + 1, j>>] = V[<<"open", i + 1, j>>]
    BY <1>3, <1>4, SameAt DEF Shapes
  <2>2. ForTrees(U, "open", i, j) = ForTrees(V, "open", i, j) /\ ElseTrees(U, "open", i, j) = ElseTrees(V, "open", i, j)
    BY <1>3, ForsSame, ElsesSame
  <2>3. OpenTrees(U, i, j) = OpenTrees(V, i, j)
    BY <2>1, <2>2 DEF OpenTrees
  <2> QED BY <1>1, <1>6, <2>3 DEF OfSpan, Derived
<1>8. CASE what = "list"
  <2>1. ASSUME NEW m \in Places, i < m, m <= j, NEW k \in {"closed", "open"}
        PROVE  U[<<k, i, m>>] = V[<<k, i, m>>]
    <3>1. PICK e : e = <<k, i, m>>
      OBVIOUS
    <3>2. e \in Spans /\ e[1] = k /\ e[2] = i /\ e[3] = m
      BY <3>1, SpansAre DEF Shapes
    <3>3. Width(i, m) <= Width(i, j) /\ Width(i, m) \in Nat
      BY <2>1 DEF Width, Places
    <3>4. Size(e) < Size(d)
      BY <1>1, <1>2, <1>8, <3>2, <3>3 DEF Size
    <3> QED BY <3>1, <3>2, <3>4
  <2>2. ListTrees(U, i, j) = ListTrees(V, i, j)
    BY <1>3, <2>1, ListsSame
  <2> QED BY <1>1, <1>8, <2>2 DEF OfSpan, Derived
<1> QED BY <1>5, <1>6, <1>8 DEF Shapes

\* The definition of Trees has a solution.
LEMMA TreesUnfolded == \A d \in Spans : Trees[d] = OfSpan(Trees, d)
<1> DEFINE m == [d \in Spans |-> Size(d)]
           Low(n) == {d \in Spans : Size(d) < n}
           Solved(S, n) == /\ S = [d \in Low(n) |-> S[d]]
                           /\ \A d \in Low(n) : S[d] = OfSpan(S, d)
<1>1. \A d \in Spans : Size(d) \in Nat
  BY SpanIs
<1>2. m \in [Spans -> Nat] /\ \A d \in Spans : m[d] = Size(d)
  BY <1>1
<1> HIDE DEF m
<1>3. ASSUME NEW n \in Nat, NEW k \in Nat, n <= k, NEW S, Solved(S, n), NEW R, Solved(R, k), NEW x \in Low(n)
      PROVE  S[x] = R[x]
  <2> DEFINE T == {d \in Spans : d \in Low(n) => S[d] = R[d]}
  <2>1. \A d \in Spans : (\A e \in Spans : m[e] < m[d] => e \in T) => d \in T
    <3> SUFFICES ASSUME NEW d \in Spans, d \in Low(n), \A e \in Spans : m[e] < m[d] => e \in T PROVE S[d] = R[d]
      OBVIOUS
    <3>1. d \in Low(k) /\ Size(d) \in Nat /\ Size(d) < n
      BY <1>1, <1>3
    <3>2. ASSUME NEW e \in Spans, Size(e) < Size(d) PROVE S[e] = R[e]
      <4>1. Size(e) \in Nat
        BY <1>1
      <4>2. e \in Low(n)
        BY <3>1, <3>2, <4>1
      <4>3. e \in T
        BY <1>2, <3>2
      <4> QED BY <4>2, <4>3
    <3>3. OfSpan(S, d) = OfSpan(R, d)
      BY <3>2, OfSpanSame
    <3>4. S[d] = OfSpan(S, d) /\ R[d] = OfSpan(R, d)
      BY <3>1, <1>3
    <3> QED BY <3>3, <3>4
  <2>2. Spans \subseteq T
    <3> HIDE DEF T, Low, Solved
    <3> QED BY <1>2, <2>1, MeasureInduction
  <2>3. x \in Spans
    BY <1>3
  <2> QED BY <2>2, <2>3, <1>3
<1>4. \A n \in Nat : \E S : Solved(S, n)
  <2> DEFINE G == {n \in Nat : \E S : Solved(S, n)}
             id == [n \in Nat |-> n]
  <2>1. \A n \in Nat : (\A k \in Nat : id[k] < id[n] => k \in G) => n \in G
    <3> SUFFICES ASSUME NEW n \in Nat, \A k \in Nat : k < n => k \in G PROVE \E S : Solved(S, n)
      OBVIOUS
    <3>1. CASE n = 0
      <4> DEFINE S == [d \in Low(n) |-> {}]
      <4>1. \A d \in Spans : ~(Size(d) < n)
        BY <1>1, <3>1
      <4>2. Low(n) = {}
        BY <4>1
      <4>3. Solved(S, n)
        BY <4>2
      <4> HIDE DEF S, Solved
      <4> QED BY <4>3
    <3>2. CASE n # 0
      <4>1. n - 1 \in Nat /\ n - 1 < n
        BY <3>2
      <4>2. PICK S : Solved(S, n - 1)
        BY <4>1
      <4> DEFINE R == [d \in Low(n) |-> OfSpan(S, d)]
      <4>3. \A d \in Low(n - 1) : d \in Low(n)
        <5> TAKE d \in Low(n - 1)
        <5>1. d \in Spans /\ Size(d) \in Nat /\ Size(d) < n - 1
          BY <1>1
        <5> QED BY <4>1, <5>1
      <4>4. \A d \in Low(n - 1) : R[d] = S[d]
        BY <4>2, <4>3
      <4>5. ASSUME NEW d \in Low(n) PROVE R[d] = OfSpan(R, d)
        <5>1. d \in Spans /\ Size(d) \in Nat /\ Size(d) < n
          BY <1>1
        <5>2. ASSUME NEW e \in Spans, Size(e) < Size(d) PROVE S[e] = R[e]
          <6>1. Size(e) \in Nat
            BY <1>1
          <6>2. e \in Low(n - 1)
            BY <5>1, <5>2, <6>1
          <6> HIDE DEF R
          <6> QED BY <4>4, <6>2
        <5>3. R[d] = OfSpan(S, d)
          OBVIOUS
        <5> HIDE DEF R
        <5>4. OfSpan(S, d) = OfSpan(R, d)
          BY <5>1, <5>2, OfSpanSame
        <5> QED BY <5>3, <5>4
      <4>6. R = [d \in Low(n) |-> R[d]]
        OBVIOUS
      <4>7. Solved(R, n)
        <5> HIDE DEF R
        <5> QED BY <4>5, <4>6
      <4> HIDE DEF R, Solved
      <4> QED BY <4>7
    <3> QED BY <3>1, <3>2
  <2>2. Nat \subseteq G
    <3>1. id \in [Nat -> Nat]
      OBVIOUS
    <3> HIDE DEF G, id
    <3> QED BY <2>1, <3>1, MeasureInduction
  <2> QED BY <2>2
<1> DEFINE At(n) == CHOOSE S : Solved(S, n)
           F == [d \in Spans |-> At(Size(d) + 1)[d]]
<1>5. \A n \in Nat : Solved(At(n), n)
  BY <1>4
<1>6. ASSUME NEW d \in Spans, NEW e \in Spans, Size(e) <= Size(d)
      PROVE  F[e] = At(Size(d) + 1)[e]
  <2>1. Size(e) \in Nat /\ Size(d) \in Nat
    BY <1>1
  <2>2. /\ Size(e) + 1 \in Nat /\ Size(d) + 1 \in Nat /\ Size(e) + 1 <= Size(d) + 1
        /\ e \in Low(Size(e) + 1)
    BY <1>6, <2>1
  <2>3. Solved(At(Size(e) + 1), Size(e) + 1) /\ Solved(At(Size(d) + 1), Size(d) + 1)
    BY <2>2, <1>5
  <2>4. F[e] = At(Size(e) + 1)[e]
    OBVIOUS
  <2> HIDE DEF At, F
  <2> HIDE DEF Solved, Low
  <2>6. At(Size(e) + 1)[e] = At(Size(d) + 1)[e]
    BY <2>2, <2>3, <1>3
  <2> QED BY <2>4, <2>6
<1>7. ASSUME NEW d \in Spans PROVE F[d] = OfSpan(F, d)
  <2>1. Size(d) \in Nat /\ Size(d) + 1 \in Nat /\ d \in Low(Size(d) + 1) /\ Size(d) <= Size(d)
    <3>1. Size(d) \in Nat
      BY <1>1
    <3> QED BY <3>1
  <2>2. Solved(At(Size(d) + 1), Size(d) + 1)
    BY <2>1, <1>5
  <2> HIDE DEF F, At
  <2>3. At(Size(d) + 1)[d] = OfSpan(At(Size(d) + 1), d)
    BY <2>1, <2>2
  <2> HIDE DEF Low, Solved
  <2>4. F[d] = At(Size(d) + 1)[d]
    BY <2>1, <1>6
  <2>5. ASSUME NEW e \in Spans, Size(e) < Size(d) PROVE F[e] = At(Size(d) + 1)[e]
    <3>1. Size(e) \in Nat
      BY <1>1
    <3>2. Size(e) <= Size(d)
      BY <2>1, <2>5, <3>1
    <3> QED BY <3>2, <1>6
  <2>7. OfSpan(F, d) = OfSpan(At(Size(d) + 1), d)
    BY <2>5, OfSpanSame
  <2> QED BY <2>3, <2>4, <2>7
<1>8. F = [d \in Spans |-> OfSpan(F, d)]
  <2>1. F = [d \in Spans |-> F[d]]
    OBVIOUS
  <2> HIDE DEF F
  <2> QED BY <1>7, <2>1
<1> HIDE DEF F
<1>9. Trees = CHOOSE T : T = [d \in Spans |-> OfSpan(T, d)]
  BY DEF Trees, OfSpan
<1>10. Trees = [d \in Spans |-> OfSpan(Trees, d)]
  <2> HIDE DEF Low, Solved
  <2> QED BY <1>8, <1>9
<1>11. PICK T : T = Trees
  OBVIOUS
<1>12. T = [d \in Spans |-> OfSpan(T, d)]
  BY <1>10, <1>11
<1>13. \A d \in Spans : T[d] = OfSpan(T, d)
  BY <1>12
<1> QED BY <1>11, <1>13

\* A tree of a span, and the ways to make one.
Stands(what, p, q, t) == t \in Trees[<<what, p, q>>]
InBraces(p, q, t) == t \in BlockTrees(Trees, p, q)

LEMMA StandsIs ==
    ASSUME NEW p \in Places, NEW q \in Places, NEW t
    PROVE  /\ Stands("closed", p, q, t) <=> t \in ClosedTrees(Trees, p, q)
           /\ Stands("open", p, q, t) <=> t \in OpenTrees(Trees, p, q)
           /\ Stands("list", p, q, t) <=> t \in ListTrees(Trees, p, q)
<1>1. PICK T : T = Trees
  OBVIOUS
<1>2. ASSUME NEW what \in Shapes PROVE T[<<what, p, q>>] = Derived(T, what, p, q)
  <2>1. PICK d : d = <<what, p, q>>
    OBVIOUS
  <2>2. d \in Spans /\ d[1] = what /\ d[2] = p /\ d[3] = q
    BY <2>1, SpansAre
  <2>3. T[d] = OfSpan(T, d)
    BY <1>1, <2>2, TreesUnfolded
  <2> QED BY <2>1, <2>2, <2>3 DEF OfSpan
<1>3. /\ T[<<"closed", p, q>>] = ClosedTrees(T, p, q) /\ T[<<"open", p, q>>] = OpenTrees(T, p, q)
      /\ T[<<"list", p, q>>] = ListTrees(T, p, q)
  BY <1>2 DEF Shapes, Derived
<1> QED BY <1>1, <1>3 DEF Stands

LEMMA StmtStands ==
    ASSUME NEW p \in Places, Token(p) = "stmt"
    PROVE  Stands("closed", p, p + 1, <<"stmt">>)
<1>1. p + 1 \in Places
  BY DEF Places
<1>2. PICK t : t = <<"stmt">>
  OBVIOUS
<1>3. t \in ClosedTrees(Trees, p, p + 1)
  BY <1>2 DEF ClosedTrees
<1> QED BY <1>1, <1>2, <1>3, StandsIs

LEMMA ForStands ==
    ASSUME NEW p \in Places, NEW q \in Places, p + 1 < q, Token(p) = "for", NEW kind \in {"closed", "open"},
           NEW t, Stands(kind, p + 1, q, t)
    PROVE  Stands(kind, p, q, <<"for", t>>)
<1>1. PICK u : u = <<"for", t>>
  OBVIOUS
<1>2. u \in ForTrees(Trees, kind, p, q)
  BY <1>1 DEF ForTrees, Stands
<1>3. IF kind = "closed" THEN u \in ClosedTrees(Trees, p, q) ELSE u \in OpenTrees(Trees, p, q)
  BY <1>2 DEF ClosedTrees, OpenTrees
<1> QED BY <1>1, <1>3, StandsIs

LEMMA IfStands ==
    ASSUME NEW p \in Places, NEW q \in Places, p + 1 < q, Token(p) = "if",
           NEW t, Stands("closed", p + 1, q, t) \/ Stands("open", p + 1, q, t)
    PROVE  Stands("open", p, q, <<"if", t>>)
<1>1. t \in Trees[<<"closed", p + 1, q>>] \cup Trees[<<"open", p + 1, q>>]
  BY DEF Stands
<1>2. PICK u : u = <<"if", t>>
  OBVIOUS
<1>3. u \in OpenTrees(Trees, p, q)
  BY <1>1, <1>2 DEF OpenTrees
<1> QED BY <1>2, <1>3, StandsIs

LEMMA ElseStands ==
    ASSUME NEW p \in Places, NEW m \in Places, NEW q \in Places, p + 1 < m, m + 1 < q,
           Token(p) = "if", Token(m) = "else", NEW kind \in {"closed", "open"},
           NEW a, Stands("closed", p + 1, m, a), NEW b, Stands(kind, m + 1, q, b)
    PROVE  Stands(kind, p, q, <<"if", a, b>>)
<1>1. a \in Trees[<<"closed", p + 1, m>>] /\ b \in Trees[<<kind, m + 1, q>>]
  BY DEF Stands
<1>2. m \in (p + 2)..(q - 2)
  BY DEF Places
<1>3. PICK u : u = <<"if", a, b>>
  OBVIOUS
<1>4. IsElse(Trees, kind, p, q, u)
  BY <1>1, <1>2, <1>3 DEF IsElse
<1>5. u \in ElseTrees(Trees, kind, p, q)
  BY <1>4, InElses
<1>6. IF kind = "closed" THEN u \in ClosedTrees(Trees, p, q) ELSE u \in OpenTrees(Trees, p, q)
  BY <1>5 DEF ClosedTrees, OpenTrees
<1> QED BY <1>3, <1>6, StandsIs

LEMMA BlockStands ==
    ASSUME NEW p \in Places, NEW q \in Places, p + 1 <= q, Token(p) = "lbrace", Token(q) = "rbrace",
           NEW t, Stands("list", p + 1, q, t)
    PROVE  InBraces(p, q + 1, <<"block", t>>)
<1>1. PICK r \in Places : r = q + 1 /\ r - 1 = q /\ p + 1 < r
  BY DEF Places
<1>2. PICK u : u = <<"block", t>>
  OBVIOUS
<1>3. u \in BlockTrees(Trees, p, r)
  BY <1>1, <1>2 DEF BlockTrees, Stands
<1> QED BY <1>1, <1>2, <1>3 DEF InBraces

LEMMA BracesStand ==
    ASSUME NEW p \in Places, NEW q \in Places, NEW t, InBraces(p, q, t)
    PROVE  p + 1 < q /\ Stands("closed", p, q, t)
<1>1. p + 1 < q
  BY DEF InBraces, BlockTrees
<1>2. t \in ClosedTrees(Trees, p, q)
  BY DEF InBraces, ClosedTrees
<1> QED BY <1>1, <1>2, StandsIs

LEMMA NoneStands ==
    ASSUME NEW p \in Places
    PROVE  Stands("list", p, p, <<>>)
<1>1. PICK t : t = <<>>
  OBVIOUS
<1>2. t \in ListTrees(Trees, p, p)
  BY <1>1, InLists
<1> QED BY <1>1, <1>2, StandsIs

LEMMA MoreStands ==
    ASSUME NEW p \in Places, NEW m \in Places, NEW q \in Places, p < m, m <= q,
           NEW s, Stands("closed", p, m, s) \/ Stands("open", p, m, s), NEW l, Stands("list", m, q, l)
    PROVE  Stands("list", p, q, <<s>> \o l)
<1>1. m \in (p + 1)..q /\ p # q
  BY DEF Places
<1>2. s \in Trees[<<"closed", p, m>>] \cup Trees[<<"open", p, m>>] /\ l \in Trees[<<"list", m, q>>]
  BY DEF Stands
<1>3. PICK t : t = <<s>> \o l
  OBVIOUS
<1>4. IsMore(Trees, p, q, t)
  BY <1>1, <1>2, <1>3 DEF IsMore
<1>5. t \in ListTrees(Trees, p, q)
  BY <1>1, <1>4, InLists
<1> QED BY <1>3, <1>5, StandsIs

-----------------------------------------------------------------------------
(* The trees the parse functions return are those of what they have read.  *)

\* A statement that could take an else is not read up to one.
StmtTree(p, q, t) == Stands("closed", p, q, t) \/ (Stands("open", p, q, t) /\ Token(q) # "else")
ListTree(p, q, t) == Token(q) = "rbrace" => Stands("list", p, q, t)
DomainTree(p, q, t) ==
    IF Token(p) = "lbrace" THEN \E b : t = <<b>> /\ InBraces(p, q, b) ELSE ListTree(p, q, t)

Draws(what, p, r) ==
    r.ok /\ ~r.wrong /\ p <= Len(tokens) + 1 =>
      /\ what \in {"inner", "alone"} => StmtTree(p, r.next, r.tree)
      /\ what = "rest" => ListTree(p, r.next, r.tree)
      /\ what = "domain" => DomainTree(p, r.next, r.tree)

LEMMA BlockDrawn ==
    ASSUME NEW p \in Places, NEW q \in Places, p + 1 \in Places, p + 1 <= q, Token(p) = "lbrace", Token(q) = "rbrace",
           NEW t, DomainTree(p + 1, q, t)
    PROVE  InBraces(p, q + 1, <<"block", t>>)
<1>1. CASE Token(p + 1) # "lbrace"
  BY <1>1, BlockStands DEF DomainTree, ListTree
<1>2. CASE Token(p + 1) = "lbrace"
  <2>1. PICK b : t = <<b>> /\ InBraces(p + 1, q, b)
    BY <1>2 DEF DomainTree
  <2>2. p + 1 < q /\ Stands("closed", p + 1, q, b)
    <3>1. (p + 1) + 1 < q /\ Stands("closed", p + 1, q, b)
      BY <2>1, BracesStand
    <3> QED BY <3>1 DEF Places
  <2>3. PICK z : z = <<>>
    OBVIOUS
  <2>4. q <= q
    BY DEF Places
  <2>5. Stands("list", p + 1, q, <<b>> \o z)
    BY <2>2, <2>3, <2>4, NoneStands, MoreStands
  <2>6. <<b>> \o z = <<b>>
    <3>1. <<b>> \in Seq({b})
      OBVIOUS
    <3> QED BY <2>3, <3>1, ConcatEmptySeq
  <2> QED BY <2>1, <2>5, <2>6, BlockStands
<1> QED BY <1>1, <1>2

LEMMA BranchDraws ==
    ASSUME tokens \in Seq(Tokens), NEW p0 \in Places, NEW p \in Places, p > p0, p <= Len(tokens) + 1,
           \A k \in Kinds, q \in Places : q > p0 => Draws(k, q, Parsed[<<k, q>>]),
           NEW b, b = Branch(Parsed, p), b.ok, ~b.wrong
    PROVE  StmtTree(p, b.next, b.tree)
<1>1. Len(tokens) \in Nat /\ p + 1 \in Places /\ p + 1 > p0 /\ p0 \in Nat /\ p \in Nat
  BY TokenAt DEF Places
<1>2. CASE Token(p) = "lbrace"
  <2>1. "domain" \in Kinds
    BY DEF Kinds
  <2>2. PICK d : d = Parsed[<<"domain", p + 1>>]
    OBVIOUS
  <2>3. Sound(p + 1, d) /\ Draws("domain", p + 1, d)
    BY <1>1, <2>1, <2>2, ParsedSound
  <2>4. b = BranchEnd(d)
    BY <1>2, <2>2 DEF Branch
  <2>5. p <= Len(tokens)
    BY <1>1, <1>2, TokenAt
  <2>6. /\ ~d.ok => b = d
        /\ d.ok => b.ok
        /\ d.ok /\ ~b.wrong => ~d.wrong /\ Token(d.next) = "rbrace" /\ b.next = d.next + 1
    BY <2>3, <2>4, <2>5, BranchEndSound
  <2>7. d.ok /\ ~d.wrong /\ Token(d.next) = "rbrace" /\ b.next = d.next + 1
    BY <2>6
  <2>8. PICK n \in Places : n = d.next /\ p + 1 <= n /\ p + 1 <= Len(tokens) + 1
    BY <1>1, <2>3, <2>5 DEF Sound, Places
  <2>9. DomainTree(p + 1, n, d.tree)
    BY <2>3, <2>7, <2>8 DEF Draws
  <2>10. InBraces(p, n + 1, <<"block", d.tree>>)
    BY <1>1, <1>2, <2>7, <2>8, <2>9, BlockDrawn
  <2>11. PICK t : t = <<"block", d.tree>>
    OBVIOUS
  <2>12. b.tree = t
    BY <2>4, <2>7, <2>11 DEF BranchEnd, Ok
  <2>13. n + 1 \in Places
    BY DEF Places
  <2>14. Stands("closed", p, n + 1, t)
    BY <2>10, <2>11, <2>13, BracesStand
  <2> QED BY <2>7, <2>8, <2>12, <2>14 DEF StmtTree
<1>3. CASE Token(p) # "lbrace"
  <2>1. "alone" \in Kinds
    BY DEF Kinds
  <2>2. PICK s : s = Parsed[<<"alone", p>>]
    OBVIOUS
  <2>3. Sound(p, s) /\ Moves(p, s) /\ Draws("alone", p, s)
    BY <1>1, <2>1, <2>2, ParsedSound
  <2>4. b = Alone(s)
    BY <1>3, <2>2 DEF Branch
  <2>5. (s.ok => b = s) /\ (~s.ok => ~b.ok /\ b.said)
    BY <2>3, <2>4, AloneSound
  <2> QED BY <2>3, <2>5 DEF Draws
<1> QED BY <1>2, <1>3

LEMMA IfDraws ==
    ASSUME tokens \in Seq(Tokens), NEW p \in Places, p <= Len(tokens), Token(p) = "if",
           \A k \in Kinds, q \in Places : q > p => Draws(k, q, Parsed[<<k, q>>]),
           NEW r, r = IfParse(Parsed, p + 1), r.ok, ~r.wrong
    PROVE  StmtTree(p, r.next, r.tree)
<1>1. Len(tokens) \in Nat /\ p + 1 \in Places /\ p + 1 > p /\ p + 1 <= Len(tokens) + 1 /\ p \in Nat
  BY TokenAt DEF Places
<1>2. PICK t : t = Branch(Parsed, p + 1)
  OBVIOUS
<1>3. Sound(p + 1, t) /\ Moves(p + 1, t)
  BY <1>1, <1>2, ParsedSame, BranchSound
<1>4. CASE ~t.ok
  <2>1. r = t
    BY <1>2, <1>4 DEF IfParse
  <2> QED BY <1>4, <2>1
<1>5. ASSUME t.ok PROVE \E m \in Places : m = t.next /\ p + 1 < m /\ m <= Len(tokens) + 1
  BY <1>1, <1>3, <1>5 DEF Sound, Moves, Places
<1>6. CASE t.ok /\ Token(t.next) # "else"
  <2>1. PICK x : x = <<"if", t.tree>>
    OBVIOUS
  <2>2. r = Ok(t.next, x, t.wrong)
    BY <1>2, <1>6, <2>1 DEF IfParse
  <2>3. r.next = t.next /\ r.wrong = t.wrong /\ r.tree = x
    BY <2>2 DEF Ok
  <2>4. PICK m \in Places : m = t.next /\ p + 1 < m
    BY <1>5, <1>6
  <2>5. StmtTree(p + 1, m, t.tree)
    BY <1>1, <1>2, <1>6, <2>3, <2>4, BranchDraws
  <2>6. Stands("closed", p + 1, m, t.tree) \/ Stands("open", p + 1, m, t.tree)
    BY <2>5 DEF StmtTree
  <2>7. Stands("open", p, m, x)
    BY <2>1, <2>4, <2>6, IfStands
  <2> QED BY <1>6, <2>3, <2>4, <2>7 DEF StmtTree
<1>7. CASE t.ok /\ Token(t.next) = "else"
  <2>1. PICK m \in Places : m = t.next /\ p + 1 < m /\ m <= Len(tokens) + 1
    BY <1>5, <1>7
  <2>2. m <= Len(tokens)
    BY <1>1, <1>7, <2>1, TokenAt DEF Places
  <2>3. m + 1 \in Places /\ m + 1 > p /\ m + 1 <= Len(tokens) + 1
    BY <1>1, <2>1, <2>2 DEF Places
  <2>4. PICK e : e = Branch(Parsed, m + 1)
    OBVIOUS
  <2>5. Sound(m + 1, e) /\ Moves(m + 1, e)
    BY <2>3, <2>4, ParsedSame, BranchSound
  <2>6. r = IfElse(t, e)
    BY <1>2, <1>7, <2>1, <2>4 DEF IfParse
  <2>7. e.ok
    <3>1. ASSUME ~e.ok PROVE FALSE
      <4>1. r = e
        BY <2>6, <3>1 DEF IfElse
      <4> QED BY <3>1, <4>1
    <3> QED BY <3>1
  <2>8. PICK x : x = <<"if", t.tree, e.tree>>
    OBVIOUS
  <2>9. r = Ok(e.next, x, t.wrong \/ e.wrong)
    BY <2>6, <2>7, <2>8 DEF IfElse
  <2>10. r.next = e.next /\ r.tree = x /\ ~t.wrong /\ ~e.wrong
    <3>1. r.next = e.next /\ r.tree = x /\ r.wrong = (t.wrong \/ e.wrong)
      BY <2>9 DEF Ok
    <3> QED BY <3>1
  <2>11. PICK n \in Places : n = e.next /\ m + 1 < n
    BY <2>3, <2>5, <2>7 DEF Sound, Moves, Places
  <2>12. StmtTree(p + 1, m, t.tree)
    BY <1>1, <1>2, <1>7, <2>1, <2>10, BranchDraws
  <2>13. StmtTree(m + 1, n, e.tree)
    BY <1>1, <2>3, <2>4, <2>7, <2>10, <2>11, BranchDraws
  <2>14. Stands("closed", p + 1, m, t.tree)
    BY <1>7, <2>1, <2>12 DEF StmtTree
  <2>15. CASE Stands("closed", m + 1, n, e.tree)
    <3>1. Stands("closed", p, n, x)
      BY <1>7, <2>1, <2>8, <2>11, <2>14, <2>15, ElseStands
    <3> QED BY <2>10, <2>11, <3>1 DEF StmtTree
  <2>16. CASE Stands("open", m + 1, n, e.tree) /\ Token(n) # "else"
    <3>1. Stands("open", p, n, x)
      BY <1>7, <2>1, <2>8, <2>11, <2>14, <2>16, ElseStands
    <3> QED BY <2>10, <2>11, <2>16, <3>1 DEF StmtTree
  <2> QED BY <2>13, <2>15, <2>16 DEF StmtTree
<1> QED BY <1>4, <1>6, <1>7

LEMMA ForDraws ==
    ASSUME tokens \in Seq(Tokens), NEW p \in Places, p <= Len(tokens), Token(p) = "for",
           \A k \in Kinds, q \in Places : q > p => Draws(k, q, Parsed[<<k, q>>]),
           NEW r, r = ForParse(Parsed, p + 1), r.ok, ~r.wrong
    PROVE  StmtTree(p, r.next, r.tree)
<1>1. Len(tokens) \in Nat /\ p + 1 \in Places /\ p + 1 > p /\ p + 1 <= Len(tokens) + 1 /\ p \in Nat
  BY TokenAt DEF Places
<1>2. PICK s : s = Parsed[<<"alone", p + 1>>]
  OBVIOUS
<1>3. "alone" \in Kinds
  BY DEF Kinds
<1>4. Sound(p + 1, s) /\ Moves(p + 1, s) /\ Draws("alone", p + 1, s)
  BY <1>1, <1>2, <1>3, ParsedSound
<1>6. CASE ~s.ok
  <2>1. r = Failed(Past(s.next), TRUE, s.wrong)
    BY <1>2, <1>6 DEF ForParse
  <2>2. ~r.ok
    BY <2>1 DEF Failed
  <2> QED BY <2>2
<1>7. CASE s.ok
  <2>1. PICK x : x = <<"for", s.tree>>
    OBVIOUS
  <2>2. r = Ok(s.next, x, s.wrong)
    BY <1>2, <1>7, <2>1 DEF ForParse
  <2>3. r.next = s.next /\ r.tree = x /\ r.wrong = s.wrong
    BY <2>2 DEF Ok
  <2>4. PICK n \in Places : n = s.next /\ p + 1 < n
    BY <1>1, <1>4, <1>7 DEF Sound, Moves, Places
  <2>5. StmtTree(p + 1, n, s.tree)
    BY <1>1, <1>4, <1>7, <2>3, <2>4 DEF Draws
  <2>6. CASE Stands("closed", p + 1, n, s.tree)
    <3>1. Stands("closed", p, n, x)
      BY <2>1, <2>4, <2>6, ForStands
    <3> QED BY <2>3, <2>4, <3>1 DEF StmtTree
  <2>7. CASE Stands("open", p + 1, n, s.tree) /\ Token(n) # "else"
    <3>1. Stands("open", p, n, x)
      BY <2>1, <2>4, <2>7, ForStands
    <3> QED BY <2>3, <2>4, <2>7, <3>1 DEF StmtTree
  <2> QED BY <2>5, <2>6, <2>7 DEF StmtTree
<1> QED BY <1>6, <1>7

LEMMA SingleDraws ==
    ASSUME tokens \in Seq(Tokens), NEW p \in Places, NEW what \in {"inner", "alone"},
           p <= Len(tokens) => \A k \in Kinds, q \in Places : q > p => Draws(k, q, Parsed[<<k, q>>])
    PROVE  Draws(what, p, Parsed[<<what, p>>])
<1> DEFINE e == IF what = "inner" THEN "rbrace" ELSE "semicolon"
<1>1. what \in Kinds /\ what # "rest" /\ what # "domain" /\ Len(tokens) \in Nat /\ p \in Nat
  BY TokenAt DEF Kinds, Places
<1>2. PICK r : r = Parsed[<<what, p>>]
  OBVIOUS
<1>3. r = Single(Parsed, p, e) /\ Moves(p, r)
  BY <1>1, <1>2, ParsedSound DEF Call
<1>4. e \in {"rbrace", "semicolon"}
  OBVIOUS
<1> HIDE DEF e
<1> SUFFICES ASSUME r.ok, ~r.wrong PROVE StmtTree(p, r.next, r.tree)
  BY <1>1, <1>2 DEF Draws
<1>5. p <= Len(tokens)
  BY <1>3 DEF Moves
<1>6. CASE Token(p) \in {"eof", e} \/ Token(p) \notin {"stmt", "cut", "if", "for"}
  <2>1. PICK said \in BOOLEAN : said <=> Token(p) \notin {"eof", e}
    OBVIOUS
  <2>2. r = Failed(p, said, FALSE)
    BY <1>3, <1>4, <1>6, <2>1 DEF Single
  <2> QED BY <2>2 DEF Failed
<1>7. CASE Token(p) = "stmt"
  <2>1. PICK t : t = <<"stmt">>
    OBVIOUS
  <2>2. r = Ok(p + 1, t, FALSE)
    BY <1>3, <1>4, <1>7, <2>1 DEF Single
  <2>3. r.next = p + 1 /\ r.tree = t
    BY <2>2 DEF Ok
  <2>4. Stands("closed", p, p + 1, t)
    BY <1>7, <2>1, StmtStands
  <2> QED BY <2>3, <2>4 DEF StmtTree
<1>8. CASE Token(p) = "cut"
  <2>1. r = Failed(p + 1, FALSE, FALSE)
    BY <1>3, <1>4, <1>8 DEF Single
  <2> QED BY <2>1 DEF Failed
<1>9. CASE Token(p) = "if"
  <2>1. r = IfParse(Parsed, p + 1)
    BY <1>3, <1>4, <1>9 DEF Single
  <2> QED BY <1>5, <1>9, <2>1, IfDraws
<1>10. CASE Token(p) = "for"
  <2>1. r = ForParse(Parsed, p + 1)
    BY <1>3, <1>4, <1>10 DEF Single
  <2> QED BY <1>5, <1>10, <2>1, ForDraws
<1> QED BY <1>6, <1>7, <1>8, <1>9, <1>10

LEMMA RestDraws ==
    ASSUME tokens \in Seq(Tokens), Whole, NEW p \in Places, Draws("inner", p, Parsed[<<"inner", p>>]),
           \A q \in Places : p <= Len(tokens) /\ q > p => Draws("rest", q, Parsed[<<"rest", q>>])
    PROVE  Draws("rest", p, Parsed[<<"rest", p>>])
<1>1. "inner" \in Kinds /\ "rest" \in Kinds /\ Len(tokens) \in Nat /\ p \in Nat
  BY TokenAt DEF Kinds, Places
<1>2. PICK s : s = Parsed[<<"inner", p>>]
  OBVIOUS
<1>3. Sound(p, s) /\ Moves(p, s) /\ Faithful("inner", p, s)
  BY <1>1, <1>2, ParsedSound, ParsedFaithful
<1>4. PICK r : r = Parsed[<<"rest", p>>]
  OBVIOUS
<1>5. r = Statements(Parsed, p)
  BY <1>1, <1>4, ParsedSound DEF Call
<1> SUFFICES ASSUME r.ok, ~r.wrong, p <= Len(tokens) + 1, Token(r.next) = "rbrace"
             PROVE  Stands("list", p, r.next, r.tree)
  BY <1>4 DEF Draws, ListTree
<1>6. CASE s.ok
  <2>1. p <= Len(tokens) /\ s.next \in Places /\ s.next > p /\ s.next <= Len(tokens) + 1
    BY <1>1, <1>3, <1>6 DEF Sound, Moves, Places
  <2>2. PICK t : t = Parsed[<<"rest", s.next>>]
    OBVIOUS
  <2>3. Sound(s.next, t) /\ Draws("rest", s.next, t)
    BY <1>1, <2>1, <2>2, ParsedSound
  <2>4. r = Behind(s, t)
    BY <1>2, <1>5, <1>6, <2>2 DEF Statements
  <2>5. t.ok
    <3>1. ASSUME ~t.ok PROVE FALSE
      BY <2>4, <3>1 DEF Behind, Failed
    <3> QED BY <3>1
  <2>6. PICK x : x = <<s.tree>> \o t.tree
    OBVIOUS
  <2>7. r = Ok(t.next, x, s.wrong \/ t.wrong)
    BY <2>4, <2>5, <2>6 DEF Behind
  <2>8. r.next = t.next /\ r.tree = x /\ ~s.wrong /\ ~t.wrong
    <3>1. r.next = t.next /\ r.tree = x /\ r.wrong = (s.wrong \/ t.wrong)
      BY <2>7 DEF Ok
    <3> QED BY <3>1
  <2>9. PICK m \in Places, n \in Places : m = s.next /\ n = t.next /\ p < m /\ m <= n
    BY <1>1, <2>1, <2>3 DEF Sound, Places
  <2>10. StmtTree(p, m, s.tree)
    BY <1>2, <1>6, <2>8, <2>9 DEF Draws
  <2>11. Stands("list", m, n, t.tree)
    BY <2>1, <2>3, <2>5, <2>8, <2>9 DEF Draws, ListTree
  <2>12. Stands("list", p, n, x)
    BY <2>6, <2>9, <2>10, <2>11, MoreStands DEF StmtTree
  <2> QED BY <2>8, <2>9, <2>12
<1>7. CASE ~s.ok /\ s.said
  <2>1. r = Failed(s.next, TRUE, s.wrong)
    BY <1>2, <1>5, <1>7 DEF Statements
  <2> QED BY <2>1 DEF Failed
<1>8. CASE ~s.ok /\ ~s.said
  <2>1. PICK x : x = <<>>
    OBVIOUS
  <2>2. r = Ok(s.next, x, s.wrong)
    BY <1>2, <1>5, <1>8, <2>1 DEF Statements
  <2>3. r.next = s.next /\ r.tree = x
    BY <2>2 DEF Ok
  <2>4. s.next = p
    BY <1>3, <1>8, <2>3 DEF Faithful
  <2>5. Stands("list", p, p, x)
    BY <2>1, NoneStands
  <2> QED BY <2>3, <2>4, <2>5
<1> QED BY <1>6, <1>7, <1>8

LEMMA DomainDraws ==
    ASSUME tokens \in Seq(Tokens), NEW p \in Places, Draws("rest", p, Parsed[<<"rest", p>>]),
           p <= Len(tokens) => Draws("domain", p + 1, Parsed[<<"domain", p + 1>>])
    PROVE  Draws("domain", p, Parsed[<<"domain", p>>])
<1>1. "domain" \in Kinds /\ Len(tokens) \in Nat /\ p \in Nat /\ p + 1 \in Places
  BY TokenAt DEF Kinds, Places
<1>2. PICK r : r = Parsed[<<"domain", p>>]
  OBVIOUS
<1>3. r = Domain(Parsed, p)
  BY <1>1, <1>2, ParsedSound DEF Call
<1>4. CASE IsEOF(p)
  <2>1. r = Failed(p, FALSE, FALSE)
    BY <1>3, <1>4 DEF Domain
  <2> QED BY <1>2, <2>1 DEF Failed, Draws
<1>5. CASE ~IsEOF(p) /\ Token(p) = "lbrace"
  <2> SUFFICES ASSUME r.ok, ~r.wrong, p <= Len(tokens) + 1
               PROVE  \E b : r.tree = <<b>> /\ InBraces(p, r.next, b)
    BY <1>2, <1>5 DEF Draws, DomainTree
  <2>1. p <= Len(tokens)
    BY <1>1, <1>5, TokenAt
  <2>2. PICK d : d = Parsed[<<"domain", p + 1>>]
    OBVIOUS
  <2>3. r = Braced(d)
    BY <1>3, <1>5, <2>2 DEF Domain
  <2>4. Sound(p + 1, d) /\ Draws("domain", p + 1, d)
    BY <1>1, <2>1, <2>2, ParsedSound
  <2>5. CASE d.ok /\ Token(d.next) # "rbrace"
    BY <2>3, <2>5 DEF Braced, Failed
  <2>6. CASE d.ok /\ Token(d.next) = "rbrace"
    <3>1. PICK b : b = <<"block", d.tree>>
      OBVIOUS
    <3>2. r = Ok(d.next + 1, <<b>>, d.wrong)
      BY <2>3, <2>6, <3>1 DEF Braced
    <3>3. r.next = d.next + 1 /\ r.tree = <<b>> /\ r.wrong = d.wrong
      BY <3>2 DEF Ok
    <3>4. PICK n \in Places : n = d.next /\ p + 1 <= n /\ p + 1 <= Len(tokens) + 1
      BY <1>1, <2>1, <2>4 DEF Sound, Places
    <3>5. DomainTree(p + 1, n, d.tree)
      BY <2>4, <2>6, <3>3, <3>4 DEF Draws
    <3>6. InBraces(p, n + 1, b)
      BY <1>1, <1>5, <2>6, <3>1, <3>4, <3>5, BlockDrawn
    <3> QED BY <3>3, <3>4, <3>6
  <2>7. CASE ~d.ok
    BY <2>3, <2>7 DEF Braced
  <2> QED BY <2>5, <2>6, <2>7
<1>6. CASE ~IsEOF(p) /\ Token(p) # "lbrace"
  <2>1. r = Parsed[<<"rest", p>>]
    BY <1>3, <1>6 DEF Domain
  <2>2. r.ok /\ ~r.wrong /\ p <= Len(tokens) + 1 => ListTree(p, r.next, r.tree)
    BY <2>1 DEF Draws
  <2> QED BY <1>2, <1>6, <2>2 DEF Draws, DomainTree
<1> QED BY <1>4, <1>5, <1>6

LEMMA ParsedDraws ==
    ASSUME tokens \in Seq(Tokens), Whole
    PROVE  \A what \in Kinds, p \in Places : Draws(what, p, Parsed[<<what, p>>])
<1> DEFINE T == {c \in Kinds \X Places : Draws(c[1], c[2], Parsed[c])}
<1>1. ASSUME NEW what \in Kinds, NEW p \in Places, Below(T, what, p) PROVE <<what, p>> \in T
  <2> SUFFICES Draws(what, p, Parsed[<<what, p>>])
    OBVIOUS
  <2>1. \A k \in Kinds, q \in Places : <<k, q>> \in T => Draws(k, q, Parsed[<<k, q>>])
    OBVIOUS
  <2> HIDE DEF T
  <2>2. p <= Len(tokens) => \A k \in Kinds, q \in Places : q > p => Draws(k, q, Parsed[<<k, q>>])
    BY <1>1, <2>1 DEF Below
  <2>3. /\ "inner" \in Kinds /\ "rest" \in Kinds /\ "domain" \in Kinds
        /\ Rank("inner") < Rank("rest") /\ Rank("rest") < Rank("domain")
    BY DEF Kinds, Rank
  <2>4. CASE what \in {"inner", "alone"}
    BY <2>2, <2>4, SingleDraws
  <2>5. CASE what = "rest"
    <3>1. Draws("inner", p, Parsed[<<"inner", p>>])
      BY <1>1, <2>1, <2>3, <2>5 DEF Below
    <3> QED BY <2>2, <2>3, <2>5, <3>1, RestDraws
  <2>6. CASE what = "domain"
    <3>1. Draws("rest", p, Parsed[<<"rest", p>>])
      BY <1>1, <2>1, <2>3, <2>6 DEF Below
    <3>2. p + 1 \in Places /\ p + 1 > p
      BY DEF Places
    <3>3. p <= Len(tokens) => Draws("domain", p + 1, Parsed[<<"domain", p + 1>>])
      BY <2>2, <2>3, <3>2
    <3> QED BY <2>6, <3>1, <3>3, DomainDraws
  <2> QED BY <2>4, <2>5, <2>6 DEF Kinds
<1>2. \A what \in Kinds, p \in Places : <<what, p>> \in T
  <2> HIDE DEF T
  <2> QED BY <1>1, CallInduction
<1> QED BY <1>2

LEMMA BodyDraws ==
    ASSUME tokens \in Seq(Tokens), tokens # <<>>, tokens[1] = "lbrace", Whole,
           FunctionBody.ok, ~FunctionBody.wrong
    PROVE  \E b \in BlockTrees(Trees, 1, FunctionBody.next) : FunctionBody.tree = <<b>>
<1>1. Len(tokens) \in Nat /\ Len(tokens) >= 1 /\ 1 \in Places /\ "domain" \in Kinds
  BY EmptySeq DEF Kinds, Places
<1>2. ~IsEOF(2)
  <2>1. ASSUME IsEOF(2) PROVE FALSE
    <3>1. FunctionBody = Failed(2, FALSE, FALSE)
      BY <2>1 DEF FunctionBody
    <3> QED BY <3>1 DEF Failed
  <2> QED BY <2>1
<1>3. PICK r : r = FunctionBody
  OBVIOUS
<1>4. r = Parsed[<<"domain", 1>>]
  BY <1>2, <1>3 DEF FunctionBody
<1>5. Draws("domain", 1, r)
  BY <1>1, <1>4, ParsedDraws
<1>6. Token(1) = "lbrace"
  BY <1>1 DEF Token
<1>7. \E b : r.tree = <<b>> /\ InBraces(1, r.next, b)
  BY <1>1, <1>3, <1>5, <1>6 DEF Draws, DomainTree
<1> QED BY <1>3, <1>7 DEF InBraces

\* CompilingContext::Parse builds of every function body it reads a tree that is there: no
\* statement is lost or moved between the branches of an if, and each else is that of the
\* nearest if.
THEOREM TreesFaithful == Spec => []TreesHoldBodies
<1> DEFINE Inv == tokens # <<>> /\ tokens[1] = "lbrace" /\ TreesHoldBodies
<1>1. Init => Inv
  BY DEF Init, TreesHoldBodies, Done
<1>2. TypeOK /\ Inv /\ [Next]_vars => Inv'
  <2> SUFFICES ASSUME TypeOK, Inv, [Next]_vars PROVE Inv'
    OBVIOUS
  <2>0. tokens' = tokens => Trees' = Trees
    BY DEF Trees, Derived, ClosedTrees, OpenTrees, ForTrees, ElseTrees, BlockTrees, ListTrees, Token
  <2>1. CASE Next
    <3>1. tokens' = tokens /\ result' = FunctionBody
      BY <2>1 DEF Next, Parse
    <3>2. tokens \in Seq(Tokens)
      BY InputsAssumption DEF TypeOK
    <3> SUFFICES ASSUME FunctionBody.ok, Whole', ~FunctionBody.wrong
                 PROVE  \E b \in BlockTrees(Trees, 1, FunctionBody.next) : FunctionBody.tree = <<b>>
      BY <2>0, <3>1 DEF TreesHoldBodies, BlockTrees, Token
    <3>3. Whole
      BY <3>1 DEF Whole
    <3> QED BY <3>2, <3>3, BodyDraws
  <2>2. CASE UNCHANGED vars
    <3>1. tokens' = tokens /\ result' = result /\ phase' = phase
      BY <2>2 DEF vars
    <3> QED BY <2>0, <3>1 DEF TreesHoldBodies, Done, Whole, BlockTrees, Token
  <2> QED BY <2>1, <2>2
<1>3. Inv => TreesHoldBodies
  OBVIOUS
<1> QED BY <1>1, <1>2, <1>3, TypeCorrect, PTL DEF Spec
=============================================================================
