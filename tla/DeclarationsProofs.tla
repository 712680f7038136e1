------------------------- MODULE DeclarationsProofs -------------------------
(***************************************************************************)
(* What a name stands for, for every source.  Parser and generator are      *)
(* tied together by a trace: while the source is parsed, the invariant has  *)
(* the contexts through which generation will go, from the ones it begins   *)
(* with along the visits in `code', every visit finding what it should      *)
(* (Leads).  Its last contexts match the parser's domains and C's names     *)
(* level by level (Matches), and they will do so again at the end of every  *)
(* open block (Nested).  A new definition or structure changes nothing for  *)
(* the trace so far (LeadsGrows); generation then walks along it.           *)
(***************************************************************************)
EXTENDS Declarations, SequenceTheorems, WellFoundedInduction, TLAPS

-----------------------------------------------------------------------------
(* Sequences and maxima.                                                   *)

LEMMA PrefixIs ==
    ASSUME NEW S, NEW s \in Seq(S), NEW n \in 0..Len(s)
    PROVE  /\ SubSeq(s, 1, n) \in Seq(S) /\ Len(SubSeq(s, 1, n)) = n
           /\ \A i \in 1..n : SubSeq(s, 1, n)[i] = s[i]
<1>1. Len(s) \in Nat /\ n \in Nat /\ \A i \in 1..n : i \in 1..Len(s) /\ s[i] \in S
  OBVIOUS
<1>2. /\ SubSeq(s, 1, n) \in Seq(S)
      /\ Len(SubSeq(s, 1, n)) = IF 1 <= n THEN n - 1 + 1 ELSE 0
      /\ \A i \in 1..(n - 1 + 1) : SubSeq(s, 1, n)[i] = s[1 + i - 1]
  BY <1>1, SubSeqProperties
<1> QED BY <1>1, <1>2

LEMMA FunctionIsSeq ==
    ASSUME NEW S, NEW m \in Nat, NEW s \in [1..m -> S]
    PROVE  s \in Seq(S) /\ Len(s) = m
<1>1. s \in UNION {[1..n -> S] : n \in Nat}
  OBVIOUS
<1>2. s \in Seq(S)
  BY <1>1, SeqDef
<1>3. DOMAIN s = 1..Len(s) /\ Len(s) \in Nat
  BY <1>2, LenProperties
<1>4. PICK l \in Nat : l = Len(s)
  BY <1>3
<1>5. (l > 0 => l \in 1..l) /\ (m > 0 => m \in 1..m)
  OBVIOUS
<1>6. 1..l = 1..m
  BY <1>3, <1>4
<1>7. (l > 0 => l \in 1..m) /\ (m > 0 => m \in 1..l)
  BY ONLY <1>5, <1>6, Zenon
<1>8. l = m
  BY <1>7
<1> QED BY <1>2, <1>4, <1>8

LEMMA FrontIs ==
    ASSUME NEW S, NEW s \in Seq(S), Len(s) > 0
    PROVE  /\ Front(s) \in Seq(S) /\ Len(Front(s)) = Len(s) - 1 /\ Len(s) \in Nat
           /\ \A i \in 1..(Len(s) - 1) : Front(s)[i] = s[i]
<1>1. Len(s) \in Nat /\ Len(s) - 1 \in 0..Len(s)
  OBVIOUS
<1> QED BY <1>1, PrefixIs DEF Front

LEMMA LastIs ==
    ASSUME NEW S, NEW s \in Seq(S), Len(s) > 0
    PROVE  Last(s) = s[Len(s)] /\ Last(s) \in S
BY DEF Last

LEMMA ReplaceLastIs ==
    ASSUME NEW S, NEW s \in Seq(S), Len(s) > 0, NEW e \in S
    PROVE  /\ ReplaceLast(s, e) \in Seq(S) /\ Len(ReplaceLast(s, e)) = Len(s)
           /\ \A i \in 1..(Len(s) - 1) : ReplaceLast(s, e)[i] = s[i]
           /\ ReplaceLast(s, e)[Len(s)] = e
<1>1. PICK f \in Seq(S) : f = Front(s)
  BY FrontIs
<1>2. Len(f) = Len(s) - 1 /\ Len(s) \in Nat /\ \A i \in 1..(Len(s) - 1) : f[i] = s[i]
  BY <1>1, FrontIs
<1>3. /\ Append(f, e) \in Seq(S) /\ Len(Append(f, e)) = Len(s)
      /\ \A i \in 1..Len(f) : Append(f, e)[i] = f[i]
      /\ Append(f, e)[Len(f) + 1] = e
  BY <1>2, AppendProperties
<1>4. Len(f) + 1 = Len(s)
  BY <1>2
<1> QED BY <1>1, <1>2, <1>3, <1>4 DEF ReplaceLast

LEMMA TwoMore ==
    ASSUME NEW S, NEW s \in Seq(S), Len(s) = 1, NEW a \in S, NEW b \in S
    PROVE  /\ s \o <<a, b>> \in Seq(S) /\ Len(s \o <<a, b>>) = 3
           /\ (s \o <<a, b>>)[1] = s[1] /\ (s \o <<a, b>>)[2] = a /\ (s \o <<a, b>>)[3] = b
<1>1. PICK t : t = <<a, b>>
  OBVIOUS
<1>2. t \in Seq(S) /\ Len(t) = 2 /\ t[1] = a /\ t[2] = b
  BY <1>1
<1>3. /\ s \o t \in Seq(S) /\ Len(s \o t) = Len(s) + Len(t)
      /\ \A i \in 1 .. Len(s) + Len(t) : (s \o t)[i] = IF i <= Len(s) THEN s[i] ELSE t[i - Len(s)]
  BY ONLY <1>2, s \in Seq(S), ConcatProperties, Zenon
<1>4. Len(s \o t) = 3 /\ \A i \in 1..3 : (s \o t)[i] = IF i <= 1 THEN s[i] ELSE t[i - 1]
  BY <1>2, <1>3
<1> QED BY <1>1, <1>2, <1>3, <1>4

\* The definition of Max says what one expects where there is a greatest number.
LEMMA MaxIs ==
    ASSUME NEW T, NEW x \in T, \A y \in T : y \in Int /\ y <= x
    PROVE  Max(T) = x
<1>1. x \in Int
  OBVIOUS
<1>2. Max(T) \in T /\ \A y \in T : Max(T) >= y
  BY DEF Max
<1>3. Max(T) \in Int /\ Max(T) >= x /\ Max(T) <= x
  BY <1>2
<1> QED BY <1>1, <1>3

LEMMA LeastNumber ==
    ASSUME NEW T, T \subseteq Nat, T # {}
    PROVE  \E x \in T : \A y \in T : x <= y
<1>1. PICK x \in T : \A y \in T : <<y, x>> \notin OpToRel(<, Nat)
  BY NatLessThanWellFounded, WFMin
<1>2. ASSUME NEW y \in T PROVE x <= y
  <2>1. ~(y < x)
    BY <1>1 DEF OpToRel
  <2> QED BY <2>1
<1> QED BY <1>2

LEMMA GreatestNumber ==
    ASSUME NEW L \in Nat, NEW T \in SUBSET (0..L), T # {}
    PROVE  Max(T) \in T /\ \A y \in T : y <= Max(T)
<1> DEFINE R == {L - x : x \in T}
<1>1. R \subseteq Nat /\ R # {}
  <2>1. \A x \in T : x \in 0..L
    OBVIOUS
  <2>2. \A x \in 0..L : L - x \in Nat
    OBVIOUS
  <2> QED BY <2>1, <2>2
<1>2. PICK z \in R : \A y \in R : z <= y
  BY <1>1, LeastNumber
<1>3. PICK x \in T : z = L - x
  BY <1>2
<1>4. \A y \in T : y \in Int /\ y <= x
  <2> TAKE y \in T
  <2>1. L - y \in R
    OBVIOUS
  <2>2. z <= L - y
    <3> HIDE DEF R
    <3> QED BY <2>1, <1>2
  <2> QED BY <2>2, <1>3
<1>5. Max(T) = x
  <2> HIDE DEF R
  <2> QED BY <1>4, MaxIs
<1> QED BY <1>4, <1>5

-----------------------------------------------------------------------------
(* Lookups.                                                                *)

\* The innermost of the maps that have the name.
LEMMA NearestIs ==
    ASSUME NEW L \in Nat, NEW maps, DOMAIN maps = 1..L, NEW n
    PROVE  \/ Nearest(maps, n) = NoDef /\ \A i \in 1..L : maps[i][n] = NoDef
           \/ \E i \in 1..L : /\ maps[i][n] # NoDef /\ Nearest(maps, n) = maps[i][n]
                              /\ \A j \in 1..L : i < j => maps[j][n] = NoDef
<1> DEFINE where == {i \in DOMAIN maps : maps[i][n] # NoDef}
<1>1. CASE where = {}
  <2>1. Nearest(maps, n) = NoDef
    BY <1>1 DEF Nearest
  <2> QED BY <1>1, <2>1
<1>2. CASE where # {}
  <2>1. where \in SUBSET (0..L)
    OBVIOUS
  <2>2. PICK m : m = Max(where)
    OBVIOUS
  <2>3. m \in where /\ \A y \in where : y <= m
    <3> HIDE DEF where
    <3> QED BY <1>2, <2>1, <2>2, GreatestNumber
  <2>4. Nearest(maps, n) = maps[m][n]
    BY <1>2, <2>2 DEF Nearest
  <2>5. m \in 1..L /\ maps[m][n] # NoDef
    BY <2>3
  <2>6. \A j \in 1..L : m < j => maps[j][n] = NoDef
    BY <2>3, <2>5
  <2> QED BY <2>4, <2>5, <2>6
<1> QED BY <1>1, <1>2

\* Two chains of maps that agree, but for the definitions in Bad, have the same nearest
\* definition, if it is not in Bad.
LEMMA SameNearest ==
    ASSUME NEW L \in Nat, NEW p, DOMAIN p = 1..L, NEW g, DOMAIN g = 1..L, NEW n, NEW Bad, NoDef \notin Bad,
           \A i \in 1..L : p[i][n] \notin Bad => g[i][n] = p[i][n],
           Nearest(p, n) \notin Bad
    PROVE  Nearest(g, n) = Nearest(p, n)
<1>1. CASE Nearest(p, n) = NoDef
  <2>1. \A i \in 1..L : p[i][n] = NoDef
    BY <1>1, NearestIs
  <2>2. \A i \in 1..L : g[i][n] = NoDef
    BY <2>1
  <2> QED BY <1>1, <2>2, NearestIs
<1>2. CASE Nearest(p, n) # NoDef
  <2>1. PICK i \in 1..L : /\ p[i][n] # NoDef /\ Nearest(p, n) = p[i][n]
                          /\ \A j \in 1..L : i < j => p[j][n] = NoDef
    BY <1>2, NearestIs
  <2>2. g[i][n] = p[i][n] /\ \A j \in 1..L : i < j => g[j][n] = NoDef
    BY <2>1
  <2>3. PICK k \in 1..L : /\ g[k][n] # NoDef /\ Nearest(g, n) = g[k][n]
                          /\ \A j \in 1..L : k < j => g[j][n] = NoDef
    BY <2>1, <2>2, NearestIs
  <2>4. ~(i < k) /\ ~(k < i)
    BY <2>1, <2>2, <2>3
  <2>5. i = k
    BY <2>4
  <2> QED BY <2>1, <2>2, <2>3, <2>5
<1> QED BY <1>1, <1>2

LEMMA NearestTyped ==
    ASSUME NEW L \in Nat, NEW maps, DOMAIN maps = 1..L, NEW n, NEW S, NoDef \in S,
           \A i \in 1..L : maps[i][n] \in S
    PROVE  Nearest(maps, n) \in S
BY NearestIs

-----------------------------------------------------------------------------
(* What the generator does with a visit, whatever the state: x is its open *)
(* contexts, D the definitions, B the structures that come too late.       *)

Defs == [kind : {"variable", "argument", "structure"}, name : Names, type : -2..MaxDefs, repeated : BOOLEAN]
Contexts == [vars : Scopes, structs : SUBSET DefIds]
Stacks == {x \in Seq(Contexts) : Len(x) > 0}
Visits == [op : {"none", "open", "close", "struct", "var", "use"}, id : DefIds, name : Names \cup {""},
           meant : DefIds, own : BOOLEAN]

Looked(x, n) == Nearest([i \in DOMAIN x |-> x[i].vars], n)
Ready(x, t) == t > 0 => \E i \in DOMAIN x : t \in x[i].structs
LostIn(D, B, id) == id # NoDef /\ (D[id].repeated \/ D[id].type \in B)

Stores(D, x, id) == Last(x).vars[D[id].name] = NoDef /\ Ready(x, D[id].type)
WithStructure(x, id) == ReplaceLast(x, [Last(x) EXCEPT !.structs = @ \cup {id}])
WithVariable(x, n, id) == ReplaceLast(x, [Last(x) EXCEPT !.vars = Enter(@, n, id)])
Visited(D, x, v) ==
    IF v.op = "open" THEN Append(x, Context)
    ELSE IF v.op = "close" THEN Front(x)
    ELSE IF v.op = "struct" THEN WithStructure(x, v.id)
    ELSE IF v.op = "var" /\ Stores(D, x, v.id) THEN WithVariable(x, D[v.id].name, v.id)
    ELSE x

\* A visit that finds what the parser and C have in mind; r says that the names of the
\* function's arguments are not the ones of its definition.
Good(D, B, r, x, v) ==
    /\ v.op # "none"
    /\ v.op = "close" => Len(x) > 1
    /\ v.op \in {"struct", "var"} => /\ v.id \in 1..Len(D)
                                     /\ Ready(x, D[v.id].type) \/ D[v.id].type \in B
    /\ v.op = "use" => /\ v.name \in Names /\ v.id \in 0..Len(D) /\ v.meant \in 0..Len(D)
                       /\ ~r /\ ~LostIn(D, B, v.meant) => Looked(x, v.name) = v.meant
                       /\ ~v.own /\ ~LostIn(D, B, v.id) => Looked(x, v.name) = v.id

\* Generation gets from a through the visits c to b, and every visit is good.
Leads(D, B, r, a, c, b) ==
    \E h \in [0..Len(c) -> Stacks] :
        /\ h[0] = a /\ h[Len(c)] = b
        /\ \A k \in 1..Len(c) : Good(D, B, r, h[k - 1], c[k]) /\ h[k] = Visited(D, h[k - 1], c[k])

LEMMA ContextTyped == Context \in Contexts /\ NoName \in Scopes
BY BoundsAssumption DEF Context, Contexts, NoName, Scopes, DefIds, NoDef

LEMMA StackIs ==
    ASSUME NEW x \in Stacks
    PROVE  /\ x \in Seq(Contexts) /\ Len(x) > 0 /\ Len(x) \in Nat /\ Last(x) = x[Len(x)]
           /\ Last(x) \in Contexts /\ Last(x).vars \in Scopes /\ Last(x).structs \in SUBSET DefIds
           /\ \A i \in 1..Len(x) : x[i] \in Contexts /\ x[i].vars \in Scopes /\ x[i].structs \in SUBSET DefIds
           /\ DOMAIN x = 1..Len(x)
<1>1. x \in Seq(Contexts) /\ Len(x) > 0 /\ Len(x) \in Nat /\ DOMAIN x = 1..Len(x)
  BY DEF Stacks
<1>2. Last(x) = x[Len(x)] /\ Len(x) \in 1..Len(x)
  BY <1>1 DEF Last
<1>3. \A i \in 1..Len(x) : x[i] \in Contexts
  BY <1>1
<1>4. \A e \in Contexts : e.vars \in Scopes /\ e.structs \in SUBSET DefIds
  BY DEF Contexts
<1> QED BY <1>1, <1>2, <1>3, <1>4

\* Each change of the open contexts: what is new and what stays.
LEMMA OpenedIs ==
    ASSUME NEW x \in Stacks
    PROVE  /\ Append(x, Context) \in Stacks /\ Len(Append(x, Context)) = Len(x) + 1
           /\ \A i \in 1..Len(x) : Append(x, Context)[i] = x[i]
           /\ Append(x, Context)[Len(x) + 1] = Context
<1>1. x \in Seq(Contexts) /\ Len(x) \in Nat
  BY StackIs
<1>2. /\ Append(x, Context) \in Seq(Contexts) /\ Len(Append(x, Context)) = Len(x) + 1
      /\ \A i \in 1..Len(x) : Append(x, Context)[i] = x[i]
      /\ Append(x, Context)[Len(x) + 1] = Context
  BY <1>1, ContextTyped, AppendProperties
<1> QED BY <1>1, <1>2 DEF Stacks

LEMMA ClosedIs ==
    ASSUME NEW x \in Stacks, Len(x) > 1
    PROVE  /\ Front(x) \in Stacks /\ Len(Front(x)) = Len(x) - 1
           /\ \A i \in 1..(Len(x) - 1) : Front(x)[i] = x[i]
<1>1. x \in Seq(Contexts) /\ Len(x) \in Nat /\ Len(x) > 0
  BY StackIs
<1>2. /\ Front(x) \in Seq(Contexts) /\ Len(Front(x)) = Len(x) - 1
      /\ \A i \in 1..(Len(x) - 1) : Front(x)[i] = x[i]
  BY <1>1, FrontIs
<1> QED BY <1>1, <1>2 DEF Stacks

LEMMA WithStructureIs ==
    ASSUME NEW x \in Stacks, NEW id \in DefIds, NEW y, y = WithStructure(x, id)
    PROVE  /\ y \in Stacks /\ Len(y) = Len(x)
           /\ \A i \in 1..(Len(x) - 1) : y[i] = x[i]
           /\ y[Len(x)].vars = x[Len(x)].vars /\ y[Len(x)].structs = x[Len(x)].structs \cup {id}
<1>1. /\ x \in Seq(Contexts) /\ Len(x) \in Nat /\ Len(x) > 0 /\ Last(x) = x[Len(x)] /\ Last(x) \in Contexts
      /\ Last(x).structs \in SUBSET DefIds
  BY StackIs
<1>2. PICK e : e = [Last(x) EXCEPT !.structs = @ \cup {id}]
  OBVIOUS
<1>3. e \in Contexts /\ e.vars = Last(x).vars /\ e.structs = Last(x).structs \cup {id}
  BY <1>1, <1>2 DEF Contexts
<1>4. /\ ReplaceLast(x, e) \in Seq(Contexts) /\ Len(ReplaceLast(x, e)) = Len(x)
      /\ \A i \in 1..(Len(x) - 1) : ReplaceLast(x, e)[i] = x[i]
      /\ ReplaceLast(x, e)[Len(x)] = e
  BY <1>1, <1>3, ReplaceLastIs
<1>5. y = ReplaceLast(x, e)
  BY <1>2 DEF WithStructure
<1> QED BY <1>1, <1>3, <1>4, <1>5 DEF Stacks

LEMMA WithVariableIs ==
    ASSUME NEW x \in Stacks, NEW n \in Names, NEW id \in DefIds, NEW y, y = WithVariable(x, n, id)
    PROVE  /\ y \in Stacks /\ Len(y) = Len(x)
           /\ \A i \in 1..(Len(x) - 1) : y[i] = x[i]
           /\ y[Len(x)].structs = x[Len(x)].structs
           /\ y[Len(x)].vars = [x[Len(x)].vars EXCEPT ![n] = id]
<1>1. /\ x \in Seq(Contexts) /\ Len(x) \in Nat /\ Len(x) > 0 /\ Last(x) = x[Len(x)] /\ Last(x) \in Contexts
      /\ Last(x).vars \in Scopes
  BY StackIs
<1>2. PICK e : e = [Last(x) EXCEPT !.vars = Enter(@, n, id)]
  OBVIOUS
<1>3. [Last(x).vars EXCEPT ![n] = id] \in Scopes
  BY <1>1 DEF Scopes
<1>4. e \in Contexts /\ e.structs = Last(x).structs /\ e.vars = [Last(x).vars EXCEPT ![n] = id]
  BY <1>1, <1>2, <1>3 DEF Contexts, Enter
<1>5. /\ ReplaceLast(x, e) \in Seq(Contexts) /\ Len(ReplaceLast(x, e)) = Len(x)
      /\ \A i \in 1..(Len(x) - 1) : ReplaceLast(x, e)[i] = x[i]
      /\ ReplaceLast(x, e)[Len(x)] = e
  BY <1>1, <1>4, ReplaceLastIs
<1>6. y = ReplaceLast(x, e)
  BY <1>2 DEF WithVariable
<1> QED BY <1>1, <1>4, <1>5, <1>6 DEF Stacks

LEMMA VisitedTyped ==
    ASSUME NEW D \in Seq(Defs), Len(D) <= MaxDefs, NEW B, NEW r, NEW x \in Stacks, NEW v \in Visits,
           Good(D, B, r, x, v)
    PROVE  Visited(D, x, v) \in Stacks
<1>1. CASE v.op = "open"
  BY <1>1, OpenedIs DEF Visited
<1>2. CASE v.op = "close"
  BY <1>2, ClosedIs DEF Visited, Good
<1>3. v.id \in DefIds
  BY DEF Visits
<1>4. CASE v.op = "struct"
  BY <1>3, <1>4, WithStructureIs DEF Visited
<1>5. CASE v.op = "var"
  <2>1. D[v.id].name \in Names
    <3>1. v.id \in 1..Len(D)
      BY <1>5 DEF Good
    <3>2. D[v.id] \in Defs
      BY <3>1
    <3> QED BY <3>2 DEF Defs
  <2> QED BY <1>3, <1>5, <2>1, WithVariableIs DEF Visited
<1> QED BY <1>1, <1>2, <1>4, <1>5 DEF Visited

LEMMA LeadsNone ==
    ASSUME NEW D, NEW B, NEW r, NEW a \in Stacks
    PROVE  Leads(D, B, r, a, <<>>, a)
<1>1. PICK h : h = [k \in 0..0 |-> a]
  OBVIOUS
<1>2. h \in [0..0 -> Stacks] /\ h[0] = a /\ Len(<<>>) = 0 /\ 1..0 = {}
  BY <1>1
<1> QED BY <1>2 DEF Leads

LEMMA LeadsOne ==
    ASSUME NEW D \in Seq(Defs), Len(D) <= MaxDefs, NEW B, NEW r, NEW a, NEW c \in Seq(Visits), NEW b,
           Leads(D, B, r, a, c, b), NEW v \in Visits, Good(D, B, r, b, v), NEW y, y = Visited(D, b, v)
    PROVE  Leads(D, B, r, a, Append(c, v), y) /\ y \in Stacks /\ b \in Stacks
<1>1. PICK h \in [0..Len(c) -> Stacks] :
         /\ h[0] = a /\ h[Len(c)] = b
         /\ \A k \in 1..Len(c) : Good(D, B, r, h[k - 1], c[k]) /\ h[k] = Visited(D, h[k - 1], c[k])
  BY DEF Leads
<1>2. Len(c) \in Nat /\ Len(c) \in 0..Len(c)
  OBVIOUS
<1>3. b \in Stacks
  BY <1>1, <1>2
<1>4. y \in Stacks
  BY <1>3, VisitedTyped
<1>5. /\ Len(Append(c, v)) = Len(c) + 1 /\ Append(c, v)[Len(c) + 1] = v
      /\ \A k \in 1..Len(c) : Append(c, v)[k] = c[k]
  BY AppendProperties
<1>6. PICK g : g = [k \in 0..(Len(c) + 1) |-> IF k = Len(c) + 1 THEN y ELSE h[k]]
  OBVIOUS
<1>7. g \in [0..(Len(c) + 1) -> Stacks]
  BY <1>1, <1>2, <1>4, <1>6
<1>8. /\ g[Len(c) + 1] = y /\ \A k \in 0..Len(c) : g[k] = h[k]
  BY <1>2, <1>6
<1>9. g[0] = a
  BY <1>1, <1>2, <1>8
<1>10. \A k \in 1..(Len(c) + 1) : /\ Good(D, B, r, g[k - 1], Append(c, v)[k])
                                  /\ g[k] = Visited(D, g[k - 1], Append(c, v)[k])
  <2> TAKE k \in 1..(Len(c) + 1)
  <2>1. CASE k = Len(c) + 1
    <3>1. k - 1 = Len(c)
      BY <1>2, <2>1
    <3>2. g[k - 1] = b /\ Append(c, v)[k] = v /\ g[k] = y
      BY <1>1, <1>2, <1>5, <1>8, <2>1, <3>1
    <3> QED BY <3>2
  <2>2. CASE k # Len(c) + 1
    <3>1. k \in 1..Len(c) /\ k \in 0..Len(c) /\ k - 1 \in 0..Len(c)
      BY <1>2, <2>2
    <3> QED BY <1>1, <1>5, <1>8, <3>1
  <2> QED BY <2>1, <2>2
<1>11. Leads(D, B, r, a, Append(c, v), y)
  BY <1>5, <1>7, <1>8, <1>9, <1>10 DEF Leads
<1> QED BY <1>3, <1>4, <1>11

LEMMA LeadsHead ==
    ASSUME NEW D, NEW B, NEW r, NEW a, NEW c \in Seq(Visits), c # <<>>, NEW b, Leads(D, B, r, a, c, b)
    PROVE  /\ a \in Stacks /\ Good(D, B, r, a, Head(c)) /\ Visited(D, a, Head(c)) \in Stacks
           /\ Leads(D, B, r, Visited(D, a, Head(c)), Tail(c), b)
<1>1. PICK h \in [0..Len(c) -> Stacks] :
         /\ h[0] = a /\ h[Len(c)] = b
         /\ \A k \in 1..Len(c) : Good(D, B, r, h[k - 1], c[k]) /\ h[k] = Visited(D, h[k - 1], c[k])
  BY DEF Leads
<1>2. /\ Tail(c) \in Seq(Visits) /\ Len(Tail(c)) = Len(c) - 1 /\ Len(c) \in Nat /\ Len(c) > 0
      /\ \A k \in 1..Len(Tail(c)) : Tail(c)[k] = c[k + 1]
      /\ Head(c) = c[1]
  BY HeadTailProperties
<1>3. 0 \in 0..Len(c) /\ 1 \in 0..Len(c) /\ 1 \in 1..Len(c) /\ 1 - 1 = 0
  BY <1>2
<1>4. a \in Stacks /\ Good(D, B, r, a, Head(c)) /\ h[1] = Visited(D, a, Head(c)) /\ h[1] \in Stacks
  BY <1>1, <1>2, <1>3
<1>5. PICK g : g = [k \in 0..(Len(c) - 1) |-> h[k + 1]]
  OBVIOUS
<1>6. \A k \in 0..(Len(c) - 1) : k + 1 \in 0..Len(c) /\ g[k] = h[k + 1]
  BY <1>2, <1>5
<1>7. g \in [0..(Len(c) - 1) -> Stacks]
  BY <1>1, <1>5, <1>6
<1>8. g[0] = h[1] /\ g[Len(c) - 1] = b
  BY <1>1, <1>2, <1>6
<1>9. \A k \in 1..(Len(c) - 1) : Good(D, B, r, g[k - 1], Tail(c)[k]) /\ g[k] = Visited(D, g[k - 1], Tail(c)[k])
  <2> TAKE k \in 1..(Len(c) - 1)
  <2>1. k + 1 \in 1..Len(c) /\ (k + 1) - 1 = (k - 1) + 1 /\ k - 1 \in 0..(Len(c) - 1) /\ k \in 0..(Len(c) - 1)
    BY <1>2
  <2>2. g[k - 1] = h[(k + 1) - 1] /\ g[k] = h[k + 1] /\ Tail(c)[k] = c[k + 1]
    BY <1>2, <1>6, <2>1
  <2> QED BY <1>1, <2>1, <2>2
<1>10. Leads(D, B, r, h[1], Tail(c), b)
  BY <1>2, <1>7, <1>8, <1>9 DEF Leads
<1> QED BY <1>4, <1>10

\* Definitions and structures that come later change nothing for the visits so far.
Grows(D, E) == D \in Seq(Defs) /\ E \in Seq(Defs) /\ Len(D) <= Len(E) /\ \A i \in 1..Len(D) : E[i] = D[i]

LEMMA LostStays ==
    ASSUME NEW D, NEW E, Grows(D, E), NEW B, NEW id \in 0..Len(D)
    PROVE  LostIn(E, B, id) <=> LostIn(D, B, id)
<1>1. Len(D) \in Nat
  BY DEF Grows
<1>2. id # NoDef => id \in 1..Len(D)
  BY <1>1 DEF NoDef
<1> QED BY <1>2 DEF Grows, LostIn

LEMMA GoodGrows ==
    ASSUME NEW D, NEW E, Grows(D, E), NEW B, NEW C, B \subseteq C, NEW r, NEW x, NEW v, Good(D, B, r, x, v)
    PROVE  Good(E, C, r, x, v) /\ Visited(E, x, v) = Visited(D, x, v)
<1>1. Len(D) \in Nat /\ Len(E) \in Nat /\ Len(D) <= Len(E) /\ \A i \in 1..Len(D) : E[i] = D[i]
  BY DEF Grows
<1>2. 1..Len(D) \subseteq 1..Len(E) /\ 0..Len(D) \subseteq 0..Len(E)
  BY <1>1
<1>3. v.op \in {"struct", "var"} => v.id \in 1..Len(D) /\ E[v.id] = D[v.id]
  BY <1>1 DEF Good
<1>4. Visited(E, x, v) = Visited(D, x, v)
  BY <1>3 DEF Visited, Stores
<1>5. \A id \in 0..Len(D) : LostIn(D, B, id) => LostIn(E, C, id)
  BY LostStays DEF LostIn
<1>6. v.op = "use" => /\ v.name \in Names /\ v.id \in 0..Len(E) /\ v.meant \in 0..Len(E)
                      /\ ~r /\ ~LostIn(E, C, v.meant) => Looked(x, v.name) = v.meant
                      /\ ~v.own /\ ~LostIn(E, C, v.id) => Looked(x, v.name) = v.id
  BY <1>2, <1>5 DEF Good
<1>7. v.op \in {"struct", "var"} => v.id \in 1..Len(E) /\ (Ready(x, E[v.id].type) \/ E[v.id].type \in C)
  BY <1>2, <1>3 DEF Good
<1> QED BY <1>4, <1>6, <1>7 DEF Good

LEMMA LeadsGrows ==
    ASSUME NEW D, NEW E, Grows(D, E), NEW B, NEW C, B \subseteq C, NEW r, NEW a, NEW c, NEW b,
           Leads(D, B, r, a, c, b)
    PROVE  Leads(E, C, r, a, c, b)
<1>1. PICK h \in [0..Len(c) -> Stacks] :
         /\ h[0] = a /\ h[Len(c)] = b
         /\ \A k \in 1..Len(c) : Good(D, B, r, h[k - 1], c[k]) /\ h[k] = Visited(D, h[k - 1], c[k])
  BY DEF Leads
<1>2. \A k \in 1..Len(c) : Good(E, C, r, h[k - 1], c[k]) /\ h[k] = Visited(E, h[k - 1], c[k])
  BY <1>1, GoodGrows
<1> QED BY <1>1, <1>2 DEF Leads

-----------------------------------------------------------------------------
(* What generation finds behind the code so far matches what the parser    *)
(* has: dom and mean are its domains and C's names, p the definition it    *)
(* is in.                                                                  *)

Domains == [vars : Scopes, structs : Scopes, externs : SUBSET Names]

\* At one level; the second is the function's own, whose names C may have otherwise.
Level(D, B, i, e, dm, m) ==
    /\ \A n \in Names : dm.structs[n] # NoDef => dm.structs[n] \in e.structs \cup B
    /\ i # 2 => \A n \in Names : ~LostIn(D, B, m[n]) => e.vars[n] = m[n]
    /\ i = 2 => e.vars = dm.vars

Entering(D, ids, map) == [n \in Names |->
    LET mine == {i \in ToSet(ids) : D[i].name = n}
    IN  IF mine = {} THEN map[n] ELSE Max(mine)]

Matches(D, B, b, dom, mean, p) ==
    /\ Len(dom) = Len(b) /\ Len(mean) = Len(b) /\ Len(b) >= 3
    /\ \A i \in 1..Len(b) : Level(D, B, i, b[i], dom[i], mean[i])
    /\ \A i \in 1..(Len(b) - 1) : i # 2 => dom[i].vars = mean[i]
    /\ mean[Len(b)] = Entering(D, p.ids, dom[Len(b)].vars)
    /\ p.open => Ready(b, p.type) \/ p.type \in B

LEMMA EnteringNone ==
    ASSUME NEW D, NEW map \in Scopes
    PROVE  Entering(D, <<>>, map) = map
<1>1. ToSet(<<>>) = {}
  BY DEF ToSet
<1> QED BY <1>1 DEF Entering, Scopes

LEMMA ScopeIs ==
    ASSUME NEW map \in Scopes, NEW n \in Names
    PROVE  map[n] \in DefIds
BY DEF Scopes

LEMMA DomainIs ==
    ASSUME NEW dm \in Domains
    PROVE  dm.vars \in Scopes /\ dm.structs \in Scopes /\ dm.externs \in SUBSET Names
BY DEF Domains

\* A name looked up by the generator: as C has it, and as the parser has it.
LEMMA LookedUp ==
    ASSUME NEW D, NEW B, NEW b \in Stacks, NEW dom \in Seq(Domains), NEW mean \in Seq(Scopes), NEW p,
           Matches(D, B, b, dom, mean, p), NEW n \in Names
    PROVE  /\ mean[2] = dom[2].vars /\ ~LostIn(D, B, Nearest(mean, n)) => Looked(b, n) = Nearest(mean, n)
           /\ /\ mean[Len(b)][n] = dom[Len(b)].vars[n]
              /\ ~LostIn(D, B, Nearest([i \in DOMAIN dom |-> dom[i].vars], n))
              => Looked(b, n) = Nearest([i \in DOMAIN dom |-> dom[i].vars], n)
<1> DEFINE Bad == {id \in DefIds : LostIn(D, B, id)}
           g == [i \in DOMAIN b |-> b[i].vars]
           q == [i \in DOMAIN dom |-> dom[i].vars]
<1>1. /\ Len(b) \in Nat /\ Len(dom) = Len(b) /\ Len(mean) = Len(b) /\ Len(b) >= 3
      /\ DOMAIN b = 1..Len(b) /\ DOMAIN dom = 1..Len(b) /\ DOMAIN mean = 1..Len(b)
  BY StackIs DEF Matches
<1>2. \A i \in 1..Len(b) : /\ mean[i][n] \in DefIds /\ dom[i].vars[n] \in DefIds
                           /\ g[i] = b[i].vars /\ q[i] = dom[i].vars
  <2> TAKE i \in 1..Len(b)
  <2>1. mean[i] \in Scopes
    BY <1>1
  <2>2. dom[i] \in Domains
    BY <1>1
  <2>3. dom[i].vars \in Scopes
    BY <2>2, DomainIs
  <2> QED BY <2>1, <2>3, <1>1, ScopeIs
<1>3. \A i \in 1..Len(b) : /\ i # 2 /\ ~LostIn(D, B, mean[i][n]) => b[i].vars[n] = mean[i][n]
                           /\ i = 2 => b[i].vars = dom[i].vars
  BY DEF Matches, Level
<1>4. \A i \in 1..Len(b) : i # 2 /\ i # Len(b) => dom[i].vars = mean[i]
  <2>1. Len(b) \in Nat
    BY <1>1
  <2>2. \A i \in 1..Len(b) : i # Len(b) => i \in 1..(Len(b) - 1)
    BY <2>1
  <2> QED BY <2>2 DEF Matches
<1>5. DOMAIN g = 1..Len(b) /\ DOMAIN q = 1..Len(b) /\ NoDef \in DefIds /\ 2 \in 1..Len(b)
  BY <1>1, BoundsAssumption DEF DefIds, NoDef
<1>6. NoDef \notin Bad
  BY DEF LostIn
<1>7. Nearest(mean, n) \in DefIds /\ Nearest(q, n) \in DefIds
  <2> HIDE DEF q
  <2> QED BY <1>1, <1>2, <1>5, NearestTyped
<1>8. ASSUME mean[2] = dom[2].vars, ~LostIn(D, B, Nearest(mean, n))
      PROVE  Looked(b, n) = Nearest(mean, n)
  <2>1. \A i \in 1..Len(b) : mean[i][n] \notin Bad => g[i][n] = mean[i][n]
    BY <1>2, <1>3, <1>8
  <2>2. Nearest(mean, n) \notin Bad
    BY <1>8
  <2>3. Nearest(g, n) = Nearest(mean, n)
    <3> HIDE DEF g, Bad
    <3> QED BY <2>1, <2>2, <1>1, <1>5, <1>6, SameNearest
  <2> QED BY <2>3 DEF Looked
<1>9. ASSUME mean[Len(b)][n] = dom[Len(b)].vars[n], ~LostIn(D, B, Nearest(q, n))
      PROVE  Looked(b, n) = Nearest(q, n)
  <2>1. \A i \in 1..Len(b) : q[i][n] \notin Bad => g[i][n] = q[i][n]
    <3> TAKE i \in 1..Len(b)
    <3>1. i # 2 => q[i][n] = mean[i][n]
      BY <1>2, <1>4, <1>9
    <3> QED BY <3>1, <1>2, <1>3
  <2>2. Nearest(q, n) \notin Bad
    BY <1>9
  <2>3. Nearest(g, n) = Nearest(q, n)
    <3> HIDE DEF g, q, Bad
    <3> QED BY <2>1, <2>2, <1>1, <1>5, <1>6, SameNearest
  <2> QED BY <2>3 DEF Looked
<1> QED BY <1>8, <1>9

LEMMA ReadyStays ==
    ASSUME NEW x, NEW y, DOMAIN x \subseteq DOMAIN y, \A i \in DOMAIN x : x[i].structs \subseteq y[i].structs,
           NEW t, Ready(x, t)
    PROVE  Ready(y, t)
BY DEF Ready

\* Only the innermost level changes.
LEMMA MatchesLast ==
    ASSUME NEW D, NEW E, Grows(D, E), NEW B, NEW b \in Stacks, NEW dom, NEW mean, NEW p,
           Matches(D, B, b, dom, mean, p),
           \A i \in 1..Len(b), n \in Names : mean[i][n] \in 0..Len(D),
           NEW y, Len(y) = Len(b), NEW dom2, Len(dom2) = Len(b), NEW mean2, Len(mean2) = Len(b), NEW p2,
           \A i \in 1..(Len(b) - 1) : y[i] = b[i] /\ dom2[i] = dom[i] /\ mean2[i] = mean[i],
           Level(E, B, Len(b), y[Len(b)], dom2[Len(b)], mean2[Len(b)]),
           mean2[Len(b)] = Entering(E, p2.ids, dom2[Len(b)].vars),
           p2.open => Ready(y, p2.type) \/ p2.type \in B
    PROVE  Matches(E, B, y, dom2, mean2, p2)
<1>1. Len(b) \in Nat /\ Len(b) >= 3
  BY StackIs DEF Matches
<1>2. \A i \in 1..Len(b) : Level(E, B, i, y[i], dom2[i], mean2[i])
  <2> TAKE i \in 1..Len(b)
  <2>1. CASE i = Len(b)
    BY <2>1
  <2>2. CASE i # Len(b)
    <3>1. i \in 1..(Len(b) - 1)
      BY <1>1, <2>2
    <3>2. Level(D, B, i, b[i], dom[i], mean[i]) /\ \A n \in Names : mean[i][n] \in 0..Len(D)
      BY DEF Matches
    <3>3. Level(E, B, i, b[i], dom[i], mean[i])
      BY <3>2, LostStays DEF Level
    <3> QED BY <3>1, <3>3
  <2> QED BY <2>1, <2>2
<1>3. \A i \in 1..(Len(b) - 1) : i # 2 => dom2[i].vars = mean2[i]
  BY DEF Matches
<1> QED BY <1>1, <1>2, <1>3 DEF Matches

-----------------------------------------------------------------------------
(* The open statements: d is the number of contexts that are open inside   *)
(* each; the one that a for opens first is where its condition is visited. *)

Width(bl) == IF bl.kind = "for" THEN 2 ELSE 1

Blocks == [kind : {"body", "if", "start", "started", "for"}, use : Visits]

Depths(D, B, r, b, bls, d) ==
    /\ d[1] = 3 /\ d[Len(bls)] = Len(b) /\ Len(bls) > 0 /\ bls[1].kind = "body"
    /\ \A j \in 2..Len(bls) : d[j] = d[j - 1] + Width(bls[j]) /\ bls[j].kind # "body"
    /\ \A i, j \in 1..Len(bls) : i < j => d[i] < d[j]
    /\ \A j \in 1..Len(bls) : 3 <= d[j] /\ d[j] <= Len(b)
    /\ \A j \in 1..Len(bls) : bls[j].kind = "for" =>
          d[j] > 3 /\ bls[j].use.op = "use" /\ Good(D, B, r, SubSeq(b, 1, d[j] - 1), bls[j].use)

Nested(D, B, r, b, bls) == \E d \in [1..Len(bls) -> Nat] : Depths(D, B, r, b, bls, d)

LEMMA SamePrefix ==
    ASSUME NEW S, NEW x \in Seq(S), NEW y \in Seq(S), NEW n \in Nat, n <= Len(x), n <= Len(y),
           \A i \in 1..n : x[i] = y[i]
    PROVE  SubSeq(x, 1, n) = SubSeq(y, 1, n)
<1>1. Len(x) \in Nat /\ Len(y) \in Nat /\ n \in 0..Len(x) /\ n \in 0..Len(y)
  OBVIOUS
<1>2. /\ SubSeq(x, 1, n) \in Seq(S) /\ Len(SubSeq(x, 1, n)) = n
      /\ \A i \in 1..n : SubSeq(x, 1, n)[i] = x[i]
  BY <1>1, PrefixIs
<1>3. /\ SubSeq(y, 1, n) \in Seq(S) /\ Len(SubSeq(y, 1, n)) = n
      /\ \A i \in 1..n : SubSeq(y, 1, n)[i] = y[i]
  BY <1>1, PrefixIs
<1> QED BY <1>2, <1>3, SeqEqual

\* A visit in contexts that are still there.
LEMMA GoodStays ==
    ASSUME NEW D, NEW E, Grows(D, E), NEW B, NEW r, NEW b \in Stacks, NEW y \in Stacks, NEW n \in Nat,
           n <= Len(b), n <= Len(y), \A i \in 1..n : y[i] = b[i], NEW v, Good(D, B, r, SubSeq(b, 1, n), v)
    PROVE  Good(E, B, r, SubSeq(y, 1, n), v)
<1>1. b \in Seq(Contexts) /\ y \in Seq(Contexts)
  BY StackIs
<1>2. SubSeq(y, 1, n) = SubSeq(b, 1, n)
  BY <1>1, SamePrefix
<1>3. Good(E, B, r, SubSeq(b, 1, n), v)
  BY GoodGrows
<1> QED BY <1>2, <1>3

LEMMA DepthsSame ==
    ASSUME NEW D, NEW E, Grows(D, E), NEW B, NEW r, NEW b \in Stacks, NEW bls, Nested(D, B, r, b, bls),
           NEW y \in Stacks, Len(y) = Len(b), \A i \in 1..(Len(b) - 1) : y[i] = b[i]
    PROVE  Nested(E, B, r, y, bls)
<1>1. PICK d \in [1..Len(bls) -> Nat] : Depths(D, B, r, b, bls, d)
  BY DEF Nested
<1>2. Len(b) \in Nat
  BY StackIs
<1>3. \A j \in 1..Len(bls) : bls[j].kind = "for" => Good(E, B, r, SubSeq(y, 1, d[j] - 1), bls[j].use)
  <2> SUFFICES ASSUME NEW j \in 1..Len(bls), bls[j].kind = "for"
               PROVE  Good(E, B, r, SubSeq(y, 1, d[j] - 1), bls[j].use)
    OBVIOUS
  <2>1. d[j] \in Nat /\ d[j] > 3 /\ d[j] <= Len(b) /\ Good(D, B, r, SubSeq(b, 1, d[j] - 1), bls[j].use)
    BY <1>1 DEF Depths
  <2>2. d[j] - 1 \in Nat /\ d[j] - 1 <= Len(b) /\ d[j] - 1 <= Len(y) /\ d[j] - 1 <= Len(b) - 1
    BY <2>1, <1>2
  <2>3. \A i \in 1..(d[j] - 1) : i \in 1..(Len(b) - 1)
    BY <2>2, <1>2
  <2> QED BY <2>1, <2>2, <2>3, GoodStays
<1>4. Depths(E, B, r, y, bls, d)
  BY <1>1, <1>3 DEF Depths
<1> QED BY <1>1, <1>4 DEF Nested

LEMMA DepthsOpened ==
    ASSUME NEW D \in Seq(Defs), NEW B, NEW r, NEW b \in Stacks, NEW bls \in Seq(Blocks), Nested(D, B, r, b, bls),
           NEW y \in Stacks, Len(y) = Len(b) + 1, \A i \in 1..Len(b) : y[i] = b[i],
           NEW bl \in Blocks, bl.kind \in {"if", "start"}
    PROVE  Nested(D, B, r, y, Append(bls, bl))
<1>1. PICK d \in [1..Len(bls) -> Nat] : Depths(D, B, r, b, bls, d)
  BY DEF Nested
<1>2. Len(b) \in Nat /\ Len(bls) \in Nat /\ Len(bls) > 0 /\ Len(bls) \in 1..Len(bls) /\ d[Len(bls)] = Len(b)
  BY <1>1, StackIs DEF Depths
<1>3. /\ Len(Append(bls, bl)) = Len(bls) + 1 /\ Append(bls, bl)[Len(bls) + 1] = bl
      /\ \A j \in 1..Len(bls) : Append(bls, bl)[j] = bls[j]
  BY AppendProperties
<1>4. PICK e : e = [j \in 1..(Len(bls) + 1) |-> IF j = Len(bls) + 1 THEN Len(b) + 1 ELSE d[j]]
  OBVIOUS
<1>5. e[Len(bls) + 1] = Len(b) + 1 /\ \A j \in 1..Len(bls) : e[j] = d[j]
  BY <1>2, <1>4
<1>6. e \in [1..(Len(bls) + 1) -> Nat]
  BY <1>2, <1>4
<1>7. \A j \in 1..(Len(bls) + 1) : j \in 1..Len(bls) \/ j = Len(bls) + 1
  BY <1>2
<1>8. \A j \in 1..Len(bls) : d[j] \in Nat /\ 3 <= d[j] /\ d[j] <= Len(b)
  BY <1>1 DEF Depths
<1>9. \A j \in 1..(Len(bls) + 1) : 3 <= e[j] /\ e[j] <= Len(y)
  BY <1>2, <1>5, <1>7, <1>8
<1>10. \A i, j \in 1..(Len(bls) + 1) : i < j => e[i] < e[j]
  <2> SUFFICES ASSUME NEW i \in 1..(Len(bls) + 1), NEW j \in 1..(Len(bls) + 1), i < j PROVE e[i] < e[j]
    OBVIOUS
  <2>1. i \in 1..Len(bls)
    BY <1>2
  <2>2. CASE j \in 1..Len(bls)
    BY <2>1, <2>2, <1>1, <1>5 DEF Depths
  <2>3. CASE j = Len(bls) + 1
    BY <2>1, <2>3, <1>2, <1>5, <1>8
  <2> QED BY <1>7, <2>2, <2>3
<1>11. \A j \in 2..(Len(bls) + 1) : e[j] = e[j - 1] + Width(Append(bls, bl)[j]) /\ Append(bls, bl)[j].kind # "body"
  <2> TAKE j \in 2..(Len(bls) + 1)
  <2>1. CASE j = Len(bls) + 1
    <3>1. j - 1 = Len(bls)
      BY <1>2, <2>1
    <3> QED BY <3>1, <2>1, <1>2, <1>3, <1>5 DEF Width
  <2>2. CASE j # Len(bls) + 1
    <3>1. j \in 2..Len(bls) /\ j \in 1..Len(bls) /\ j - 1 \in 1..Len(bls)
      BY <1>2, <2>2
    <3> QED BY <3>1, <1>1, <1>3, <1>5 DEF Depths
  <2> QED BY <2>1, <2>2
<1>12. \A j \in 1..(Len(bls) + 1) : Append(bls, bl)[j].kind = "for" =>
           /\ e[j] > 3 /\ Append(bls, bl)[j].use.op = "use"
           /\ Good(D, B, r, SubSeq(y, 1, e[j] - 1), Append(bls, bl)[j].use)
  <2> SUFFICES ASSUME NEW j \in 1..Len(bls), bls[j].kind = "for"
               PROVE  d[j] > 3 /\ bls[j].use.op = "use" /\ Good(D, B, r, SubSeq(y, 1, d[j] - 1), bls[j].use)
    BY <1>3, <1>5, <1>7
  <2>1. d[j] > 3 /\ bls[j].use.op = "use" /\ Good(D, B, r, SubSeq(b, 1, d[j] - 1), bls[j].use)
    BY <1>1 DEF Depths
  <2>2. d[j] - 1 \in Nat /\ d[j] - 1 <= Len(b) /\ d[j] - 1 <= Len(y)
    BY <2>1, <1>2, <1>8
  <2>3. Grows(D, D)
    BY DEF Grows
  <2>4. \A i \in 1..(d[j] - 1) : i \in 1..Len(b)
    BY <2>2, <1>2
  <2> QED BY <2>1, <2>2, <2>3, <2>4, GoodStays
<1>13. e[1] = 3 /\ Append(bls, bl)[1].kind = "body"
  <2>1. 1 \in 1..Len(bls)
    BY <1>2
  <2> QED BY <2>1, <1>1, <1>3, <1>5 DEF Depths
<1>14. Len(bls) + 1 > 0
  BY <1>2
<1>15. Depths(D, B, r, y, Append(bls, bl), e)
  BY <1>3, <1>5, <1>9, <1>10, <1>11, <1>12, <1>13, <1>14 DEF Depths
<1> QED BY <1>3, <1>6, <1>15 DEF Nested

\* The start of a for has its expression: the same contexts are open.
LEMMA DepthsStarted ==
    ASSUME NEW D, NEW B, NEW r, NEW b \in Stacks, NEW bls \in Seq(Blocks), Nested(D, B, r, b, bls),
           Last(bls).kind = "start", NEW bl \in Blocks, bl.kind = "started"
    PROVE  ReplaceLast(bls, bl) \in Seq(Blocks) /\ Nested(D, B, r, b, ReplaceLast(bls, bl))
<1>1. PICK d \in [1..Len(bls) -> Nat] : Depths(D, B, r, b, bls, d)
  BY DEF Nested
<1>2. Len(bls) \in Nat /\ Len(bls) > 0
  BY <1>1 DEF Depths
<1>3. bls[Len(bls)].kind = "start" /\ Len(bls) # 1
  BY <1>1 DEF Last, Depths
<1>4. PICK cs : cs = ReplaceLast(bls, bl)
  OBVIOUS
<1>5. /\ cs \in Seq(Blocks) /\ Len(cs) = Len(bls) /\ cs[Len(bls)] = bl
      /\ \A j \in 1..(Len(bls) - 1) : cs[j] = bls[j]
  <2>1. /\ ReplaceLast(bls, bl) \in Seq(Blocks) /\ Len(ReplaceLast(bls, bl)) = Len(bls)
        /\ \A j \in 1..(Len(bls) - 1) : ReplaceLast(bls, bl)[j] = bls[j]
        /\ ReplaceLast(bls, bl)[Len(bls)] = bl
    BY <1>2, ReplaceLastIs
  <2> QED BY <1>4, <2>1
<1>6. \A j \in 1..Len(bls) : j \in 1..(Len(bls) - 1) \/ j = Len(bls)
  BY <1>2
<1>7. 1 \in 1..(Len(bls) - 1) /\ \A j \in 2..Len(bls) : j \in 1..Len(bls)
  <2>1. PICK k \in Nat : k = Len(bls)
    BY <1>2
  <2>2. k > 0 /\ k # 1
    BY <2>1, <1>2, <1>3
  <2>3. 1 \in 1..(k - 1) /\ \A j \in 2..k : j \in 1..k
    BY <2>2
  <2> QED BY <2>1, <2>3
<1>8. \A j \in 1..Len(bls) : /\ Width(cs[j]) = Width(bls[j]) /\ (cs[j].kind = "body" => bls[j].kind = "body")
                             /\ cs[j].kind = "for" => cs[j] = bls[j]
  BY <1>3, <1>5, <1>6 DEF Width
<1>9. Depths(D, B, r, b, cs, d)
  <2>1. Len(cs) = Len(bls) /\ cs[1] = bls[1]
    BY <1>5, <1>7
  <2>2. /\ d[1] = 3 /\ d[Len(cs)] = Len(b) /\ Len(cs) > 0 /\ cs[1].kind = "body"
        /\ \A i, j \in 1..Len(cs) : i < j => d[i] < d[j]
        /\ \A j \in 1..Len(cs) : 3 <= d[j] /\ d[j] <= Len(b)
    BY <2>1, <1>1 DEF Depths
  <2>3. \A j \in 2..Len(cs) : d[j] = d[j - 1] + Width(cs[j]) /\ cs[j].kind # "body"
    <3> TAKE j \in 2..Len(cs)
    <3>1. j \in 2..Len(bls) /\ j \in 1..Len(bls)
      BY <2>1, <1>7
    <3>2. d[j] = d[j - 1] + Width(bls[j]) /\ bls[j].kind # "body"
      BY <3>1, <1>1 DEF Depths
    <3> QED BY <3>1, <3>2, <1>8
  <2>4. \A j \in 1..Len(cs) : cs[j].kind = "for" =>
           d[j] > 3 /\ cs[j].use.op = "use" /\ Good(D, B, r, SubSeq(b, 1, d[j] - 1), cs[j].use)
    <3> SUFFICES ASSUME NEW j \in 1..Len(bls), cs[j].kind = "for"
                 PROVE  d[j] > 3 /\ cs[j].use.op = "use" /\ Good(D, B, r, SubSeq(b, 1, d[j] - 1), cs[j].use)
      BY <2>1
    <3>1. cs[j] = bls[j]
      BY <1>8
    <3>2. d[j] > 3 /\ bls[j].use.op = "use" /\ Good(D, B, r, SubSeq(b, 1, d[j] - 1), bls[j].use)
      BY <3>1, <1>1 DEF Depths
    <3> QED BY <3>1, <3>2
  <2> QED BY <2>2, <2>3, <2>4 DEF Depths
<1> QED BY <1>4, <1>5, <1>9 DEF Nested

\* The body of a for: its start is over, a second context is open.
LEMMA DepthsInFor ==
    ASSUME NEW D \in Seq(Defs), NEW B, NEW r, NEW b \in Stacks, NEW bls \in Seq(Blocks), Nested(D, B, r, b, bls),
           Last(bls).kind \in {"start", "started"},
           NEW y \in Stacks, Len(y) = Len(b) + 1, \A i \in 1..Len(b) : y[i] = b[i],
           NEW bl \in Blocks, bl.kind = "for", bl.use.op = "use", Good(D, B, r, b, bl.use)
    PROVE  Nested(D, B, r, y, ReplaceLast(bls, bl))
<1>1. PICK d \in [1..Len(bls) -> Nat] : Depths(D, B, r, b, bls, d)
  BY DEF Nested
<1>2. Len(b) \in Nat /\ Len(bls) \in Nat /\ Len(bls) > 0 /\ Len(bls) \in 1..Len(bls) /\ d[Len(bls)] = Len(b)
  BY <1>1, StackIs DEF Depths
<1>3. bls[Len(bls)].kind \in {"start", "started"} /\ Len(bls) # 1
  BY <1>1 DEF Last, Depths
<1>4. PICK cs : cs = ReplaceLast(bls, bl)
  OBVIOUS
<1>5. Len(cs) = Len(bls) /\ cs[Len(bls)] = bl /\ \A j \in 1..(Len(bls) - 1) : cs[j] = bls[j]
  <2>1. /\ Len(ReplaceLast(bls, bl)) = Len(bls)
        /\ \A j \in 1..(Len(bls) - 1) : ReplaceLast(bls, bl)[j] = bls[j]
        /\ ReplaceLast(bls, bl)[Len(bls)] = bl
    BY <1>2, ReplaceLastIs
  <2> QED BY <1>4, <2>1
<1>6. PICK e : e = [j \in 1..Len(bls) |-> IF j = Len(bls) THEN Len(b) + 1 ELSE d[j]]
  OBVIOUS
<1>7. e[Len(bls)] = Len(b) + 1 /\ \A j \in 1..(Len(bls) - 1) : e[j] = d[j]
  BY <1>2, <1>6
<1>8. e \in [1..Len(bls) -> Nat]
  BY <1>2, <1>6
<1>9. \A j \in 1..Len(bls) : j \in 1..(Len(bls) - 1) \/ j = Len(bls)
  BY <1>2
<1>10. \A j \in 1..Len(bls) : d[j] \in Nat /\ 3 <= d[j] /\ d[j] <= Len(b)
  BY <1>1 DEF Depths
<1>11. \A j \in 1..(Len(bls) - 1) : j \in 1..Len(bls)
  BY <1>2
<1>12. \A j \in 1..Len(bls) : 3 <= e[j] /\ e[j] <= Len(y)
  BY <1>2, <1>7, <1>9, <1>10, <1>11
<1>13. \A i, j \in 1..Len(bls) : i < j => e[i] < e[j]
  <2> SUFFICES ASSUME NEW i \in 1..Len(bls), NEW j \in 1..Len(bls), i < j PROVE e[i] < e[j]
    OBVIOUS
  <2>1. i \in 1..(Len(bls) - 1)
    BY <1>2
  <2>2. CASE j \in 1..(Len(bls) - 1)
    BY <2>1, <2>2, <1>1, <1>7 DEF Depths
  <2>3. CASE j = Len(bls)
    BY <2>1, <2>3, <1>2, <1>7, <1>10, <1>11
  <2> QED BY <1>9, <2>2, <2>3
<1>14. \A j \in 2..Len(bls) : e[j] = e[j - 1] + Width(cs[j]) /\ cs[j].kind # "body"
  <2> TAKE j \in 2..Len(bls)
  <2>1. /\ j - 1 \in 1..(Len(bls) - 1) /\ d[j] = d[j - 1] + Width(bls[j]) /\ j \in 1..Len(bls)
        /\ bls[j].kind # "body"
    BY <1>1, <1>2 DEF Depths
  <2>2. CASE j = Len(bls)
    <3>1. Len(b) = d[j - 1] + 1 /\ d[j - 1] \in Nat
      BY <2>1, <2>2, <1>2, <1>3, <1>11 DEF Width
    <3> QED BY <3>1, <2>1, <2>2, <1>2, <1>5, <1>7 DEF Width
  <2>3. CASE j # Len(bls)
    <3>1. j \in 1..(Len(bls) - 1)
      BY <1>2, <2>3
    <3> QED BY <3>1, <2>1, <1>5, <1>7
  <2> QED BY <2>2, <2>3
<1>15. \A j \in 1..Len(bls) : cs[j].kind = "for" =>
           e[j] > 3 /\ cs[j].use.op = "use" /\ Good(D, B, r, SubSeq(y, 1, e[j] - 1), cs[j].use)
  <2> SUFFICES ASSUME NEW j \in 1..Len(bls), cs[j].kind = "for"
               PROVE  e[j] > 3 /\ cs[j].use.op = "use" /\ Good(D, B, r, SubSeq(y, 1, e[j] - 1), cs[j].use)
    OBVIOUS
  <2>0. Grows(D, D)
    BY DEF Grows
  <2>1. CASE j = Len(bls)
    <3>1. e[j] > 3 /\ e[j] - 1 = Len(b)
      BY <2>1, <1>2, <1>7, <1>10
    <3>2. SubSeq(b, 1, Len(b)) = b
      BY StackIs, SubSeqFull
    <3>3. Good(D, B, r, SubSeq(y, 1, Len(b)), bl.use)
      <4>1. Len(b) <= Len(b) /\ Len(b) <= Len(y)
        BY <1>2
      <4>2. Good(D, B, r, SubSeq(b, 1, Len(b)), bl.use)
        BY <3>2
      <4> QED BY <4>1, <4>2, <2>0, <1>2, GoodStays
    <3> QED BY <3>1, <3>3, <2>1, <1>5
  <2>2. CASE j # Len(bls)
    <3>1. j \in 1..(Len(bls) - 1)
      BY <1>2, <2>2
    <3>2. cs[j] = bls[j] /\ e[j] = d[j]
      BY <3>1, <1>5, <1>7
    <3>3. d[j] > 3 /\ bls[j].use.op = "use" /\ Good(D, B, r, SubSeq(b, 1, d[j] - 1), bls[j].use)
      BY <3>2, <1>1 DEF Depths
    <3>4. d[j] - 1 \in Nat /\ d[j] - 1 <= Len(b) /\ d[j] - 1 <= Len(y)
      BY <3>3, <1>2, <1>10
    <3>5. \A i \in 1..(d[j] - 1) : i \in 1..Len(b)
      BY <3>4, <1>2
    <3> QED BY <2>0, <3>2, <3>3, <3>4, <3>5, GoodStays
  <2> QED BY <2>1, <2>2
<1>16. e[1] = 3 /\ cs[1].kind = "body"
  <2>1. PICK m \in Nat : m = Len(bls) /\ m > 0 /\ m # 1
    BY <1>2, <1>3
  <2>2. 1 \in 1..(Len(bls) - 1)
    BY <2>1
  <2> QED BY <2>2, <1>1, <1>5, <1>7 DEF Depths
<1>17. Depths(D, B, r, y, cs, e)
  BY <1>2, <1>5, <1>7, <1>12, <1>13, <1>14, <1>15, <1>16 DEF Depths
<1> QED BY <1>4, <1>5, <1>8, <1>17 DEF Nested

\* The end of a statement.
LEMMA DepthsClosed ==
    ASSUME NEW D \in Seq(Defs), NEW B, NEW r, NEW b \in Stacks, NEW bls \in Seq(Blocks), Nested(D, B, r, b, bls),
           Len(bls) > 1, NEW y \in Stacks, Len(y) = Len(b) - Width(Last(bls)), \A i \in 1..Len(y) : y[i] = b[i]
    PROVE  /\ Nested(D, B, r, y, Front(bls)) /\ Len(y) >= 3
           /\ Last(bls).kind # "body"
           /\ Last(bls).kind = "for" =>
                 Last(bls).use.op = "use" /\ Good(D, B, r, SubSeq(b, 1, Len(b) - 1), Last(bls).use)
<1>1. PICK d \in [1..Len(bls) -> Nat] : Depths(D, B, r, b, bls, d)
  BY DEF Nested
<1>2. /\ Len(b) \in Nat /\ Len(bls) \in Nat /\ Len(bls) > 0 /\ d[Len(bls)] = Len(b)
      /\ Len(bls) \in 2..Len(bls) /\ Len(bls) - 1 \in 1..Len(bls) /\ Last(bls) = bls[Len(bls)]
      /\ Len(bls) \in 1..Len(bls)
  BY <1>1, StackIs DEF Depths, Last
<1>3. PICK cs : cs = Front(bls)
  OBVIOUS
<1>4. Len(cs) = Len(bls) - 1 /\ \A j \in 1..(Len(bls) - 1) : cs[j] = bls[j]
  <2>1. Len(Front(bls)) = Len(bls) - 1 /\ \A j \in 1..(Len(bls) - 1) : Front(bls)[j] = bls[j]
    BY <1>2, FrontIs
  <2> QED BY <1>3, <2>1
<1>5. \A j \in 1..Len(bls) : d[j] \in Nat /\ 3 <= d[j] /\ d[j] <= Len(b)
  BY <1>1 DEF Depths
<1>6. \A j \in 1..(Len(bls) - 1) : j \in 1..Len(bls)
  BY <1>2
<1>7. d[Len(bls) - 1] = Len(y)
  <2>1. d[Len(bls)] = d[Len(bls) - 1] + Width(bls[Len(bls)])
    BY <1>1, <1>2 DEF Depths
  <2>2. Width(bls[Len(bls)]) \in Nat
    BY DEF Width
  <2>3. d[Len(bls) - 1] \in Nat
    BY <1>2, <1>5
  <2> QED BY <2>1, <2>2, <2>3, <1>2
<1>8. Len(y) >= 3 /\ Len(y) \in Nat
  BY <1>2, <1>5, <1>7
<1>9. PICK e : e = [j \in 1..(Len(bls) - 1) |-> d[j]]
  OBVIOUS
<1>10. e \in [1..(Len(bls) - 1) -> Nat] /\ \A j \in 1..(Len(bls) - 1) : e[j] = d[j]
  BY <1>5, <1>6, <1>9
<1>11. \A j \in 1..(Len(bls) - 1) : d[j] <= Len(y)
  <2> TAKE j \in 1..(Len(bls) - 1)
  <2>1. CASE j = Len(bls) - 1
    BY <2>1, <1>7, <1>8
  <2>2. CASE j # Len(bls) - 1
    <3>1. j < Len(bls) - 1
      BY <1>2, <2>2
    <3>2. d[j] < d[Len(bls) - 1]
      BY <3>1, <1>1, <1>2, <1>6 DEF Depths
    <3> QED BY <3>2, <1>5, <1>6, <1>7, <1>8
  <2> QED BY <2>1, <2>2
<1>12. \A j \in 1..(Len(bls) - 1) : cs[j].kind = "for" =>
           e[j] > 3 /\ cs[j].use.op = "use" /\ Good(D, B, r, SubSeq(y, 1, e[j] - 1), cs[j].use)
  <2> SUFFICES ASSUME NEW j \in 1..(Len(bls) - 1), bls[j].kind = "for"
               PROVE  d[j] > 3 /\ bls[j].use.op = "use" /\ Good(D, B, r, SubSeq(y, 1, d[j] - 1), bls[j].use)
    BY <1>4, <1>10
  <2>1. d[j] > 3 /\ bls[j].use.op = "use" /\ Good(D, B, r, SubSeq(b, 1, d[j] - 1), bls[j].use)
    BY <1>1, <1>6 DEF Depths
  <2>2. d[j] - 1 \in Nat /\ d[j] - 1 <= Len(b) /\ d[j] - 1 <= Len(y)
    <3>1. j \in 1..Len(bls)
      BY <1>6
    <3>2. d[j] \in Nat /\ 3 <= d[j] /\ d[j] <= Len(b)
      BY <3>1, <1>5
    <3>3. d[j] <= Len(y)
      BY <1>11
    <3> QED BY ONLY <3>2, <3>3, Len(b) \in Nat, Len(y) \in Nat, <1>2, <1>8
  <2>3. Grows(D, D)
    BY DEF Grows
  <2>4. \A i \in 1..(d[j] - 1) : i \in 1..Len(y)
    BY <2>2, <1>8
  <2> QED BY <2>1, <2>2, <2>3, <2>4, GoodStays
<1>13. \A i, j \in 1..(Len(bls) - 1) : i < j => e[i] < e[j]
  BY <1>1, <1>6, <1>10 DEF Depths
<1>14. \A j \in 2..(Len(bls) - 1) : e[j] = e[j - 1] + Width(cs[j]) /\ cs[j].kind # "body"
  <2> TAKE j \in 2..(Len(bls) - 1)
  <2>1. j \in 2..Len(bls) /\ j \in 1..(Len(bls) - 1) /\ j - 1 \in 1..(Len(bls) - 1)
    BY <1>2
  <2> QED BY <2>1, <1>1, <1>4, <1>10 DEF Depths
<1>15. e[1] = 3 /\ cs[1].kind = "body" /\ e[Len(bls) - 1] = Len(y) /\ Len(bls) - 1 > 0
  <2>1. 1 \in 1..(Len(bls) - 1) /\ Len(bls) - 1 \in 1..(Len(bls) - 1) /\ Len(bls) - 1 > 0
    BY <1>2
  <2> QED BY <2>1, <1>1, <1>4, <1>7, <1>10 DEF Depths
<1>16. \A j \in 1..(Len(bls) - 1) : 3 <= e[j] /\ e[j] <= Len(y)
  BY <1>5, <1>6, <1>10, <1>11
<1>17. Depths(D, B, r, y, cs, e)
  BY <1>4, <1>12, <1>13, <1>14, <1>15, <1>16 DEF Depths
<1>18. /\ Last(bls).kind # "body"
       /\ Last(bls).kind = "for" =>
             Last(bls).use.op = "use" /\ Good(D, B, r, SubSeq(b, 1, Len(b) - 1), Last(bls).use)
  BY <1>1, <1>2 DEF Depths
<1> QED BY <1>3, <1>4, <1>8, <1>10, <1>17, <1>18 DEF Nested

\* A new scope, and the end of one or two.
LEMMA MatchesOpened ==
    ASSUME NEW D, NEW B, NEW b \in Stacks, NEW dom \in Seq(Domains), NEW mean \in Seq(Scopes), NEW p,
           Matches(D, B, b, dom, mean, p), ~p.open, p.ids = <<>>
    PROVE  Matches(D, B, Append(b, Context), Append(dom, Domain), Append(mean, NoName), p)
<1>1. /\ Len(b) \in Nat /\ Len(dom) = Len(b) /\ Len(mean) = Len(b) /\ Len(b) >= 3
      /\ \A i \in 1..Len(b) : Level(D, B, i, b[i], dom[i], mean[i])
      /\ \A i \in 1..(Len(b) - 1) : i # 2 => dom[i].vars = mean[i]
      /\ mean[Len(b)] = Entering(D, p.ids, dom[Len(b)].vars)
  BY StackIs DEF Matches
<1>2. PICK y : y = Append(b, Context)
  OBVIOUS
<1>3. Len(y) = Len(b) + 1 /\ y[Len(b) + 1] = Context /\ \A i \in 1..Len(b) : y[i] = b[i]
  BY <1>2, OpenedIs
<1>4. Domain \in Domains /\ NoName \in Scopes /\ NoName = Domain.vars /\ NoName = Domain.structs
  BY ContextTyped DEF Domain, Domains
<1>5. PICK dm : dm = Append(dom, Domain)
  OBVIOUS
<1>6. Len(dm) = Len(b) + 1 /\ dm[Len(b) + 1] = Domain /\ \A i \in 1..Len(b) : dm[i] = dom[i]
  BY <1>1, <1>4, <1>5, AppendProperties
<1>7. PICK m : m = Append(mean, NoName)
  OBVIOUS
<1>8. Len(m) = Len(b) + 1 /\ m[Len(b) + 1] = NoName /\ \A i \in 1..Len(b) : m[i] = mean[i]
  BY <1>1, <1>4, <1>7, AppendProperties
<1>9. Level(D, B, Len(b) + 1, Context, Domain, NoName)
  <2>1. \A n \in Names : NoName[n] = NoDef
    BY DEF NoName
  <2>2. Len(b) + 1 # 2
    BY <1>1
  <2>3. Context.vars = NoName
    BY DEF Context
  <2> QED BY <2>1, <2>2, <2>3, <1>4 DEF Level
<1>10. \A i \in 1..Len(y) : Level(D, B, i, y[i], dm[i], m[i])
  <2> TAKE i \in 1..Len(y)
  <2>1. i \in 1..Len(b) \/ i = Len(b) + 1
    BY <1>1, <1>3
  <2> QED BY <2>1, <1>1, <1>3, <1>6, <1>8, <1>9
<1>11. mean[Len(b)] = dom[Len(b)].vars
  <2>1. dom[Len(b)] \in Domains
    BY <1>1
  <2> QED BY <2>1, <1>1, DomainIs, EnteringNone
<1>12. \A i \in 1..(Len(y) - 1) : i # 2 => dm[i].vars = m[i]
  <2> TAKE i \in 1..(Len(y) - 1)
  <2>1. i \in 1..Len(b) /\ (i \in 1..(Len(b) - 1) \/ i = Len(b))
    BY <1>1, <1>3
  <2> QED BY <2>1, <1>1, <1>6, <1>8, <1>11
<1>13. m[Len(y)] = Entering(D, p.ids, dm[Len(y)].vars)
  BY <1>3, <1>4, <1>6, <1>8, EnteringNone
<1>14. Len(y) >= 3
  BY <1>1, <1>3
<1> QED BY <1>2, <1>3, <1>5, <1>6, <1>7, <1>8, <1>10, <1>12, <1>13, <1>14 DEF Matches

LEMMA MatchesCut ==
    ASSUME NEW D, NEW B, NEW b \in Stacks, NEW dom \in Seq(Domains), NEW mean \in Seq(Scopes), NEW p,
           Matches(D, B, b, dom, mean, p), ~p.open, p.ids = <<>>,
           NEW n \in Nat, n >= 3, n < Len(b), NEW y, Len(y) = n, \A i \in 1..n : y[i] = b[i]
    PROVE  Matches(D, B, y, SubSeq(dom, 1, n), SubSeq(mean, 1, n), p)
<1>1. /\ Len(b) \in Nat /\ Len(dom) = Len(b) /\ Len(mean) = Len(b) /\ Len(b) >= 3
      /\ \A i \in 1..Len(b) : Level(D, B, i, b[i], dom[i], mean[i])
      /\ \A i \in 1..(Len(b) - 1) : i # 2 => dom[i].vars = mean[i]
  BY StackIs DEF Matches
<1>2. n \in 0..Len(dom) /\ n \in 0..Len(mean)
  BY <1>1
<1>3. PICK dm : dm = SubSeq(dom, 1, n)
  OBVIOUS
<1>4. Len(dm) = n /\ \A i \in 1..n : dm[i] = dom[i]
  <2>1. Len(SubSeq(dom, 1, n)) = n /\ \A i \in 1..n : SubSeq(dom, 1, n)[i] = dom[i]
    BY <1>2, PrefixIs
  <2> QED BY <1>3, <2>1
<1>5. PICK m : m = SubSeq(mean, 1, n)
  OBVIOUS
<1>6. Len(m) = n /\ \A i \in 1..n : m[i] = mean[i]
  <2>1. Len(SubSeq(mean, 1, n)) = n /\ \A i \in 1..n : SubSeq(mean, 1, n)[i] = mean[i]
    BY <1>2, PrefixIs
  <2> QED BY <1>5, <2>1
<1>7. \A i \in 1..n : i \in 1..Len(b) /\ i \in 1..(Len(b) - 1)
  BY <1>1
<1>8. \A i \in 1..n : Level(D, B, i, y[i], dm[i], m[i]) /\ (i # 2 => dm[i].vars = m[i])
  BY <1>1, <1>4, <1>6, <1>7
<1>9. m[n] = Entering(D, p.ids, dm[n].vars)
  <2>1. n \in 1..n /\ n \in 1..Len(dom)
    BY <1>1
  <2>2. dom[n] \in Domains
    BY <2>1
  <2>3. dm[n].vars \in Scopes /\ m[n] = dm[n].vars
    BY <2>1, <2>2, <1>4, <1>8, DomainIs
  <2> QED BY <2>3, EnteringNone
<1>10. \A i \in 1..(n - 1) : i \in 1..n
  OBVIOUS
<1> QED BY <1>3, <1>4, <1>5, <1>6, <1>8, <1>9, <1>10 DEF Matches

-----------------------------------------------------------------------------
(* The invariant.                                                          *)

ReadyOf(E) == {E[i] : i \in {j \in DOMAIN E : \E k \in DOMAIN E : E[k] = NoDef /\ j < k}}
LateOf(E) == ToSet(E) \ ReadyOf(E)

\* The contexts in which generation begins.
ArgumentsIn(D, n) == {i \in DOMAIN D : D[i].kind = "argument" /\ D[i].name = n}
StartOf(D, R) ==
    <<[Context EXCEPT !.structs = R],
      [Context EXCEPT !.vars = [n \in Names |->
          IF ArgumentsIn(D, n) = {} THEN NoDef ELSE Max(ArgumentsIn(D, n))]],
      Context>>

Traced(D, E, r, c, b) == Leads(D, LateOf(E), r, StartOf(D, ReadyOf(E)), c, b)
Tracing(D, E, r, c, dom, mean, p, bls) ==
    \E b \in Stacks : /\ Traced(D, E, r, c, b)
                      /\ Len(dom) > 1 => /\ Matches(D, LateOf(E), b, dom, mean, p)
                                         /\ Nested(D, LateOf(E), r, b, bls)

DefTypes == -2..MaxDefs
Pendings == [open : BOOLEAN, type : DefTypes, ids : Seq(DefIds)]
Functions == [declared : BOOLEAN, args : Seq([name : Names, type : DefTypes]), hasBody : BOOLEAN, renamed : BOOLEAN]
Findings == [visit : Visits, storage : DefIds, typed : BOOLEAN]

Typed ==
    /\ phase \in {"parse", "generate", "done", "refused", "stopped"}
    /\ defs \in Seq(Defs) /\ Len(defs) <= MaxDefs /\ size \in 0..MaxSize
    /\ domains \in Seq(Domains) /\ meaning \in Seq(Scopes) /\ Len(meaning) = Len(domains) /\ Len(domains) > 0
    /\ function \in Functions /\ exprs \in Seq(DefIds) /\ blocks \in Seq(Blocks) /\ pending \in Pendings
    /\ code \in Seq(Visits) /\ ctx \in Seq(Contexts) /\ found \in Findings

\* The numbers of definitions are those of definitions.
Ranged ==
    /\ \A i \in 1..Len(domains), n \in Names :
          domains[i].vars[n] \in 0..Len(defs) /\ meaning[i][n] \in 0..Len(defs)
    /\ \A k \in 1..Len(pending.ids) : pending.ids[k] \in 1..Len(defs)

FileScope ==
    /\ domains[1].vars = NoName /\ meaning[1] = NoName
    /\ \A n \in Names : domains[1].structs[n] # NoDef => domains[1].structs[n] \in ToSet(exprs)
    /\ function.hasBody => function.declared
    /\ \A i, j \in 1..Len(function.args) : function.args[i].name = function.args[j].name => i = j
    /\ ~function.hasBody => /\ ~function.renamed /\ code = <<>> /\ Len(domains) = 1
                            /\ \A i \in 1..Len(defs) : defs[i].kind # "argument"
    /\ Len(domains) > 1 /\ ~function.renamed => meaning[2] = domains[2].vars
    /\ pending.open => Len(domains) > 1
    /\ ~pending.open => pending.ids = <<>>

Quiet == phase \in {"parse", "refused"} => ctx = <<>> /\ found = NothingFound

DeclInv ==
    /\ Typed /\ Ranged /\ FileScope /\ Quiet
    /\ phase = "parse" /\ function.hasBody =>
          Tracing(defs, exprs, function.renamed, code, domains, meaning, pending, blocks)
    /\ phase = "generate" => \E b : Leads(defs, LateOf(exprs), function.renamed, ctx, code, b)
    /\ NamesMeanTheSame /\ CheckedAsGenerated /\ TypesKnown

LEMMA NothingTyped ==
    /\ Domain \in Domains /\ NoName \in Scopes /\ \A n \in Names : NoName[n] = NoDef
    /\ NoFunction \in Functions /\ NothingPending \in Pendings /\ NothingFound \in Findings
    /\ NoDef \in DefIds /\ BuiltIn \in DefTypes /\ External \in DefTypes /\ DefIds \subseteq DefTypes
    /\ \A k \in {"body", "if", "start", "started", "for"} : Block(k) \in Blocks
    /\ \A op \in {"none", "open", "close", "struct", "var", "use"}, id \in DefIds : Visit(op, id) \in Visits
<1>1. MaxDefs \in Nat
  BY BoundsAssumption
<1>2. NoDef \in DefIds /\ BuiltIn \in DefTypes /\ External \in DefTypes /\ DefIds \subseteq DefTypes
  BY <1>1 DEF NoDef, BuiltIn, External, DefIds, DefTypes
<1>3. \A op \in {"none", "open", "close", "struct", "var", "use"}, id \in DefIds : Visit(op, id) \in Visits
  BY <1>2 DEF Visit, Visits
<1>4. \A k \in {"body", "if", "start", "started", "for"} : Block(k) \in Blocks
  BY <1>2, <1>3 DEF Block, Blocks
<1>5. Domain \in Domains /\ NoName \in Scopes /\ \A n \in Names : NoName[n] = NoDef
  BY <1>2 DEF Domain, Domains, NoName, Scopes
<1>6. NoFunction \in Functions /\ NothingPending \in Pendings
  <2>1. <<>> \in Seq([name : Names, type : DefTypes]) /\ <<>> \in Seq(DefIds)
    OBVIOUS
  <2> QED BY <2>1, <1>2 DEF NoFunction, Functions, NothingPending, Pendings
<1>7. NothingFound \in Findings
  BY <1>2, <1>3 DEF NothingFound, Findings
<1> QED BY <1>2, <1>3, <1>4, <1>5, <1>6, <1>7

LEMMA NothingWrong ==
    found = NothingFound => NamesMeanTheSame /\ CheckedAsGenerated /\ TypesKnown
<1> SUFFICES ASSUME found = NothingFound PROVE NamesMeanTheSame /\ CheckedAsGenerated /\ TypesKnown
  OBVIOUS
<1>1. found.visit.op = "none"
  BY DEF NothingFound, Visit
<1> QED BY <1>1 DEF NamesMeanTheSame, CheckedAsGenerated, TypesKnown

LEMMA InitInv == Init => DeclInv
<1> SUFFICES ASSUME Init PROVE DeclInv
  OBVIOUS
<1>1. /\ phase = "parse" /\ defs = <<>> /\ domains = <<Domain>> /\ meaning = <<NoName>> /\ function = NoFunction
      /\ exprs = <<>> /\ blocks = <<>> /\ pending = NothingPending /\ size = 0 /\ code = <<>>
      /\ ctx = <<>> /\ found = NothingFound
  BY DEF Init
<1>2. Typed
  <2>1. Len(defs) <= MaxDefs /\ size \in 0..MaxSize /\ defs \in Seq(Defs)
    BY <1>1, BoundsAssumption
  <2>2. domains \in Seq(Domains) /\ meaning \in Seq(Scopes) /\ Len(domains) = 1 /\ Len(meaning) = 1
    BY <1>1, NothingTyped
  <2>3. exprs \in Seq(DefIds) /\ blocks \in Seq(Blocks) /\ code \in Seq(Visits) /\ ctx \in Seq(Contexts)
    BY <1>1
  <2> QED BY <1>1, <2>1, <2>2, <2>3, NothingTyped DEF Typed
<1>3. Ranged
  BY <1>1, NothingTyped DEF Ranged, NothingPending, Domain, NoDef
<1>4. FileScope
  BY <1>1, NothingTyped DEF FileScope, NothingPending, Domain, NoFunction
<1>5. ~function.hasBody
  BY <1>1 DEF NoFunction
<1> QED BY <1>1, <1>2, <1>3, <1>4, <1>5, NothingWrong DEF DeclInv, Quiet

LEMMA RefuseInv ==
    ASSUME DeclInv, phase = "parse", Refuse
    PROVE  DeclInv'
<1>1. ctx = <<>> /\ found = NothingFound
  BY DEF DeclInv, Quiet
<1>2. /\ phase' = "refused" /\ defs' = <<>> /\ domains' = <<Domain>> /\ meaning' = <<NoName>>
      /\ function' = NoFunction /\ exprs' = <<>> /\ blocks' = <<>> /\ pending' = NothingPending /\ size' = 0
      /\ code' = <<>> /\ ctx' = <<>> /\ found' = NothingFound
  BY <1>1 DEF Refuse
<1>3. Typed'
  <2>1. Len(defs') <= MaxDefs /\ size' \in 0..MaxSize /\ defs' \in Seq(Defs)
    BY <1>2, BoundsAssumption
  <2>2. domains' \in Seq(Domains) /\ meaning' \in Seq(Scopes) /\ Len(domains') = 1 /\ Len(meaning') = 1
    BY <1>2, NothingTyped
  <2>3. exprs' \in Seq(DefIds) /\ blocks' \in Seq(Blocks) /\ code' \in Seq(Visits) /\ ctx' \in Seq(Contexts)
    BY <1>2
  <2> QED BY <1>2, <2>1, <2>2, <2>3, NothingTyped DEF Typed
<1>4. Ranged'
  BY <1>2, NothingTyped DEF Ranged, NothingPending, Domain, NoDef
<1>5. FileScope'
  BY <1>2, NothingTyped DEF FileScope, NothingPending, Domain, NoFunction
<1>6. (NamesMeanTheSame /\ CheckedAsGenerated /\ TypesKnown)'
  BY <1>2 DEF NothingFound, Visit, NamesMeanTheSame, CheckedAsGenerated, TypesKnown
<1> QED BY <1>2, <1>3, <1>4, <1>5, <1>6 DEF DeclInv, Quiet

\* What is left to show of a step of the parser.
LEMMA ParseStep ==
    ASSUME DeclInv, phase = "parse", phase' \in {"parse", "stopped"}, ctx' = ctx, found' = found,
           Typed', Ranged', FileScope',
           phase' = "parse" /\ function'.hasBody =>
              Tracing(defs', exprs', function'.renamed, code', domains', meaning', pending', blocks')
    PROVE  DeclInv'
<1>1. ctx' = <<>> /\ found' = NothingFound
  BY DEF DeclInv, Quiet
<1>2. found'.visit.op = "none"
  <2>1. NothingFound.visit.op = "none"
    BY DEF NothingFound, Visit
  <2> QED BY <1>1, <2>1
<1>3. (NamesMeanTheSame /\ CheckedAsGenerated /\ TypesKnown)'
  BY <1>2 DEF NamesMeanTheSame, CheckedAsGenerated, TypesKnown
<1> QED BY <1>1, <1>3 DEF DeclInv, Quiet

\* In the body.
LEMMA BodyIs ==
    ASSUME DeclInv, phase = "parse", Len(domains) > 1
    PROVE  /\ function.hasBody /\ Len(domains) >= 3 /\ Len(meaning) = Len(domains) /\ Len(domains) \in Nat
           /\ \E b \in Stacks : /\ Traced(defs, exprs, function.renamed, code, b) /\ Len(b) = Len(domains)
                                /\ Matches(defs, LateOf(exprs), b, domains, meaning, pending)
                                /\ Nested(defs, LateOf(exprs), function.renamed, b, blocks)
<1>1. function.hasBody
  BY DEF DeclInv, FileScope
<1>2. PICK b \in Stacks : /\ Traced(defs, exprs, function.renamed, code, b)
                          /\ Matches(defs, LateOf(exprs), b, domains, meaning, pending)
                          /\ Nested(defs, LateOf(exprs), function.renamed, b, blocks)
  BY <1>1 DEF DeclInv, Tracing
<1>3. Len(b) = Len(domains) /\ Len(meaning) = Len(domains) /\ Len(b) >= 3 /\ Len(b) \in Nat
  BY <1>2, StackIs DEF Matches
<1> QED BY <1>1, <1>2, <1>3

\* The expression in the start of a for, if the body is there.
LEMMA StartedIs ==
    ASSUME DeclInv, phase = "parse", Len(domains) > 1
    PROVE  /\ Started \in Seq(Blocks)
           /\ \A b \in Stacks : Nested(defs, LateOf(exprs), function.renamed, b, blocks)
                                => Nested(defs, LateOf(exprs), function.renamed, b, Started)
<1>1. blocks \in Seq(Blocks)
  BY DEF DeclInv, Typed
<1>2. PICK b \in Stacks : Nested(defs, LateOf(exprs), function.renamed, b, blocks)
  BY BodyIs
<1>3. PICK bl : bl = Block("started")
  OBVIOUS
<1>4. bl \in Blocks /\ bl.kind = "started"
  <2>1. bl \in Blocks
    BY <1>3, NothingTyped
  <2> QED BY <2>1, <1>3 DEF Block
<1>5. CASE InStart
  <2>1. Started = ReplaceLast(blocks, bl) /\ Last(blocks).kind = "start"
    BY <1>3, <1>5 DEF Started, InStart
  <2> QED BY <2>1, <1>1, <1>2, <1>4, DepthsStarted
<1>6. CASE ~InStart
  BY <1>1, <1>6 DEF Started
<1> QED BY <1>5, <1>6

\* Types and variables that the parser finds.
LEMMA TypeFound ==
    ASSUME DeclInv, NEW t \in Types
    PROVE  /\ TypeNamed(t) \in DefTypes
           /\ AtRoot /\ TypeNamed(t) > 0 => TypeNamed(t) \in ToSet(exprs)
           /\ \A b \in Stacks : Matches(defs, LateOf(exprs), b, domains, meaning, pending) =>
                  Ready(b, TypeNamed(t)) \/ TypeNamed(t) \in LateOf(exprs)
<1> DEFINE maps == [i \in DOMAIN domains |-> domains[i].structs]
<1>1. domains \in Seq(Domains) /\ Len(domains) \in Nat /\ DOMAIN domains = 1..Len(domains)
  BY DEF DeclInv, Typed
<1>2. \A i \in 1..Len(domains) : domains[i].structs \in Scopes
  <2> TAKE i \in 1..Len(domains)
  <2>1. domains[i] \in Domains
    BY <1>1
  <2> QED BY <2>1, DomainIs
<1>3. CASE t = "int" \/ (t # "int" /\ GetStructDefineByName(t) = NoDef)
  <2>1. TypeNamed(t) \in {BuiltIn, External}
    BY <1>3 DEF TypeNamed
  <2>2. TypeNamed(t) \in DefTypes /\ ~(TypeNamed(t) > 0)
    BY <2>1, NothingTyped DEF BuiltIn, External
  <2> QED BY <2>2 DEF Ready
<1>4. CASE t # "int" /\ GetStructDefineByName(t) # NoDef
  <2>1. t \in Names
    BY <1>4 DEF Types
  <2>2. TypeNamed(t) = Nearest(maps, t) /\ Nearest(maps, t) # NoDef
    BY <1>4 DEF TypeNamed, GetStructDefineByName
  <2>3. DOMAIN maps = 1..Len(domains) /\ \A i \in 1..Len(domains) : maps[i] = domains[i].structs
    BY <1>1
  <2>4. PICK i \in 1..Len(domains) : domains[i].structs[t] # NoDef /\ TypeNamed(t) = domains[i].structs[t]
    <3> HIDE DEF maps
    <3> QED BY <1>1, <2>2, <2>3, NearestIs
  <2>5. TypeNamed(t) \in DefIds
    BY <1>2, <2>1, <2>4, ScopeIs
  <2>6. AtRoot => TypeNamed(t) \in ToSet(exprs)
    <3> SUFFICES ASSUME AtRoot PROVE domains[i].structs[t] \in ToSet(exprs)
      BY <2>4
    <3>1. i = 1
      BY DEF AtRoot
    <3> QED BY <3>1, <2>1, <2>4 DEF DeclInv, FileScope
  <2>7. \A b \in Stacks : Matches(defs, LateOf(exprs), b, domains, meaning, pending) =>
            Ready(b, TypeNamed(t)) \/ TypeNamed(t) \in LateOf(exprs)
    <3> TAKE b \in Stacks
    <3> HAVE Matches(defs, LateOf(exprs), b, domains, meaning, pending)
    <3>1. i \in 1..Len(b) /\ i \in DOMAIN b
      BY StackIs DEF Matches
    <3>2. domains[i].structs[t] \in b[i].structs \cup LateOf(exprs)
      BY <3>1, <2>1, <2>4 DEF Matches, Level
    <3> QED BY <3>1, <3>2, <2>4 DEF Ready
  <2> QED BY <2>5, <2>6, <2>7, NothingTyped
<1> QED BY <1>3, <1>4

-----------------------------------------------------------------------------
(* Definitions, structures and visits that are added.                      *)

LEMMA GrowsSame == ASSUME NEW D \in Seq(Defs) PROVE Grows(D, D)
BY DEF Grows

LEMMA GrowsAppend ==
    ASSUME NEW D \in Seq(Defs), NEW d \in Defs
    PROVE  /\ Grows(D, Append(D, d)) /\ Append(D, d) \in Seq(Defs) /\ Len(Append(D, d)) = Len(D) + 1
           /\ Len(D) \in Nat /\ Append(D, d)[Len(D) + 1] = d /\ \A i \in 1..Len(D) : Append(D, d)[i] = D[i]
<1>1. /\ Append(D, d) \in Seq(Defs) /\ Len(Append(D, d)) = Len(D) + 1 /\ Len(D) \in Nat
      /\ Append(D, d)[Len(D) + 1] = d /\ \A i \in 1..Len(D) : Append(D, d)[i] = D[i]
  BY AppendProperties
<1> QED BY <1>1 DEF Grows

LEMMA ReadyAppend ==
    ASSUME NEW E \in Seq(DefIds), NEW id \in DefIds, id # NoDef
    PROVE  /\ Append(E, id) \in Seq(DefIds) /\ ToSet(Append(E, id)) = ToSet(E) \cup {id}
           /\ ReadyOf(Append(E, id)) = ReadyOf(E) /\ LateOf(E) \subseteq LateOf(Append(E, id))
<1> DEFINE F == Append(E, id)
<1>1. /\ F \in Seq(DefIds) /\ Len(F) = Len(E) + 1 /\ Len(E) \in Nat /\ DOMAIN F = 1..(Len(E) + 1)
      /\ DOMAIN E = 1..Len(E) /\ F[Len(E) + 1] = id /\ \A i \in 1..Len(E) : F[i] = E[i]
  BY AppendProperties
<1>2. \A i \in 1..(Len(E) + 1) : i \in 1..Len(E) \/ i = Len(E) + 1
  BY <1>1
<1>3. 1..Len(E) \subseteq 1..(Len(E) + 1) /\ Len(E) + 1 \in 1..(Len(E) + 1)
  BY <1>1
<1> HIDE DEF F
<1>4. ToSet(F) = ToSet(E) \cup {id}
  BY <1>1, <1>2, <1>3 DEF ToSet
<1>5. \A j \in 1..(Len(E) + 1), k \in 1..(Len(E) + 1) :
          F[k] = NoDef /\ j < k => j \in 1..Len(E) /\ k \in 1..Len(E) /\ E[k] = NoDef
  BY <1>1, <1>2
<1>6. ReadyOf(F) \subseteq ReadyOf(E)
  BY <1>1, <1>5 DEF ReadyOf
<1>7. ReadyOf(E) \subseteq ReadyOf(F)
  BY <1>1, <1>3 DEF ReadyOf
<1> QED BY <1>1, <1>4, <1>6, <1>7 DEF F, LateOf

LEMMA StartAppend ==
    ASSUME NEW D \in Seq(Defs), NEW d \in Defs, d.kind # "argument", NEW R
    PROVE  StartOf(Append(D, d), R) = StartOf(D, R)
<1>1. /\ Len(Append(D, d)) = Len(D) + 1 /\ Len(D) \in Nat /\ DOMAIN Append(D, d) = 1..(Len(D) + 1)
      /\ DOMAIN D = 1..Len(D) /\ Append(D, d)[Len(D) + 1] = d
      /\ \A i \in 1..Len(D) : Append(D, d)[i] = D[i]
  BY AppendProperties
<1>2. \A i \in 1..(Len(D) + 1) : i \in 1..Len(D) \/ i = Len(D) + 1
  BY <1>1
<1>3. 1..Len(D) \subseteq 1..(Len(D) + 1)
  BY <1>1
<1>4. \A n : ArgumentsIn(Append(D, d), n) = ArgumentsIn(D, n)
  BY <1>1, <1>2, <1>3 DEF ArgumentsIn
<1> QED BY <1>4 DEF StartOf

LEMMA TracedGrows ==
    ASSUME NEW D, NEW D2, Grows(D, D2), NEW E, NEW E2, StartOf(D2, ReadyOf(E2)) = StartOf(D, ReadyOf(E)),
           LateOf(E) \subseteq LateOf(E2), NEW r, NEW c, NEW b, Traced(D, E, r, c, b)
    PROVE  Traced(D2, E2, r, c, b)
BY LeadsGrows DEF Traced

LEMMA TracedOne ==
    ASSUME NEW D \in Seq(Defs), Len(D) <= MaxDefs, NEW E, NEW r, NEW c \in Seq(Visits), NEW b,
           Traced(D, E, r, c, b), NEW v \in Visits, Good(D, LateOf(E), r, b, v), NEW y, y = Visited(D, b, v)
    PROVE  Traced(D, E, r, Append(c, v), y) /\ y \in Stacks
BY LeadsOne DEF Traced

\* A domain that is changed at the innermost level.
LEMMA DomainsReplaced ==
    ASSUME Typed, NEW e \in Domains, domains' = ReplaceLast(domains, e)
    PROVE  /\ domains' \in Seq(Domains) /\ Len(domains') = Len(domains) /\ Len(domains) \in Nat
           /\ domains'[Len(domains)] = e /\ Last(domains) = domains[Len(domains)] /\ Last(domains) \in Domains
           /\ \A i \in 1..(Len(domains) - 1) : domains'[i] = domains[i]
           /\ \A i \in 1..Len(domains) : i \in 1..(Len(domains) - 1) \/ i = Len(domains)
           /\ \A i \in 1..Len(domains) : domains[i] \in Domains
<1>1. domains \in Seq(Domains) /\ Len(domains) > 0 /\ Len(domains) \in Nat
  BY DEF Typed
<1>2. /\ ReplaceLast(domains, e) \in Seq(Domains) /\ Len(ReplaceLast(domains, e)) = Len(domains)
      /\ \A i \in 1..(Len(domains) - 1) : ReplaceLast(domains, e)[i] = domains[i]
      /\ ReplaceLast(domains, e)[Len(domains)] = e
  BY <1>1, ReplaceLastIs
<1>3. \A i \in 1..Len(domains) : i \in 1..(Len(domains) - 1) \/ i = Len(domains)
  BY <1>1
<1>4. \A i \in 1..Len(domains) : domains[i] \in Domains
  BY <1>1
<1>5. Last(domains) = domains[Len(domains)] /\ Last(domains) \in Domains
  BY <1>1, LastIs
<1> QED BY <1>1, <1>2, <1>3, <1>4, <1>5

LEMMA ExternTypeInv ==
    ASSUME DeclInv, NEW n \in Names, ExternType(n)
    PROVE  DeclInv'
<1>1. /\ phase = "parse" /\ size < MaxSize /\ size' = size + 1
      /\ domains' = ReplaceLast(domains, [Last(domains) EXCEPT !.externs = @ \cup {n}])
      /\ phase' \in {"parse", "stopped"} /\ defs' = defs /\ meaning' = meaning /\ function' = function
      /\ exprs' = exprs /\ blocks' = blocks /\ pending' = pending /\ code' = code /\ ctx' = ctx /\ found' = found
      /\ AtRoot \/ InBlock
  BY DEF ExternType, AtRoot, InBlock, InBody
<1>2. Typed /\ Ranged /\ FileScope /\ Len(domains) \in Nat /\ Len(domains) > 0
  BY DEF DeclInv, Typed
<1>3. PICK e : e = [Last(domains) EXCEPT !.externs = @ \cup {n}]
  OBVIOUS
<1>4. Last(domains) \in Domains /\ Last(domains) = domains[Len(domains)]
  BY <1>2, LastIs DEF Typed
<1>5. e \in Domains /\ e.vars = Last(domains).vars /\ e.structs = Last(domains).structs
  BY <1>3, <1>4 DEF Domains
<1>6. /\ domains' \in Seq(Domains) /\ Len(domains') = Len(domains) /\ domains'[Len(domains)] = e
      /\ \A i \in 1..(Len(domains) - 1) : domains'[i] = domains[i]
      /\ \A i \in 1..Len(domains) : i \in 1..(Len(domains) - 1) \/ i = Len(domains)
  BY <1>1, <1>2, <1>3, <1>5, DomainsReplaced
<1>7. \A i \in 1..Len(domains) : domains'[i].vars = domains[i].vars /\ domains'[i].structs = domains[i].structs
  BY <1>4, <1>5, <1>6
<1>8. Typed'
  <2>1. size' \in 0..MaxSize
    BY <1>1, <1>2, BoundsAssumption DEF Typed
  <2> QED BY <2>1, <1>1, <1>2, <1>6 DEF Typed
<1>9. Ranged'
  BY <1>1, <1>2, <1>6, <1>7 DEF Ranged
<1>10. FileScope'
  <2>1. 1 \in 1..Len(domains) /\ (Len(domains) > 1 => 2 \in 1..Len(domains))
    BY <1>2
  <2> QED BY <2>1, <1>1, <1>2, <1>6, <1>7 DEF FileScope
<1>11. ASSUME function.hasBody
       PROVE  Tracing(defs, exprs, function.renamed, code, domains', meaning, pending, blocks)
  <2>1. CASE Len(domains) > 1
    <3>1. PICK b \in Stacks : /\ Traced(defs, exprs, function.renamed, code, b) /\ Len(b) = Len(domains)
                              /\ Matches(defs, LateOf(exprs), b, domains, meaning, pending)
                              /\ Nested(defs, LateOf(exprs), function.renamed, b, blocks)
      BY <1>1, <2>1, BodyIs
    <3>2. \A i \in 1..Len(b) : Level(defs, LateOf(exprs), i, b[i], domains'[i], meaning[i])
      BY <3>1, <1>7 DEF Matches, Level
    <3>3. Len(b) \in Nat /\ Len(b) \in 1..Len(b) /\ \A i \in 1..(Len(b) - 1) : i \in 1..Len(b)
      BY StackIs
    <3>4. Matches(defs, LateOf(exprs), b, domains', meaning, pending)
      BY <3>1, <3>2, <3>3, <1>6, <1>7 DEF Matches
    <3> QED BY <3>1, <3>4 DEF Tracing
  <2>2. CASE ~(Len(domains) > 1)
    BY <2>2, <1>1, <1>6, <1>11 DEF DeclInv, Tracing
  <2> QED BY <2>1, <2>2
<1> QED BY <1>1, <1>8, <1>9, <1>10, <1>11, ParseStep

LEMMA StructDefInv ==
    ASSUME DeclInv, NEW n \in Names, NEW t \in Types, StructDef(n, t)
    PROVE  DeclInv'
<1> DEFINE id == Len(defs) + 1
           d == Def("structure", n, TypeNamed(t), FALSE)
<1>1. phase = "parse" /\ (AtRoot \/ InBlock) /\ id <= MaxDefs
  BY DEF StructDef, AtRoot, InBlock, InBody
<1>2. CASE Refuse
  BY <1>1, <1>2, RefuseInv
<1>3. CASE ~Refuse
  <2>1. /\ defs' = Append(defs, d)
        /\ domains' = ReplaceLast(domains, [Last(domains) EXCEPT !.structs = Enter(@, n, id)])
        /\ IF AtRoot THEN exprs' = Append(exprs, id) /\ code' = code /\ blocks' = blocks
           ELSE code' = Append(code, Visit("struct", id)) /\ exprs' = exprs /\ blocks' = Started
        /\ phase' = phase /\ meaning' = meaning /\ function' = function
        /\ pending' = pending /\ size' = size /\ ctx' = ctx /\ found' = found
    BY <1>3 DEF StructDef
  <2>2. Typed /\ Ranged /\ FileScope /\ Len(domains) \in Nat /\ Len(domains) > 0
    BY DEF DeclInv, Typed
  <2>3. /\ defs \in Seq(Defs) /\ Len(defs) \in Nat /\ MaxDefs \in Nat /\ code \in Seq(Visits)
        /\ exprs \in Seq(DefIds)
    BY <2>2, BoundsAssumption DEF Typed
  <2>4. id \in DefIds /\ id # NoDef /\ id \in Nat /\ id = Len(defs) + 1 /\ id \in 1..id
    BY <1>1, <2>3 DEF DefIds, NoDef
  <2>5. d \in Defs /\ d.kind = "structure" /\ d.type = TypeNamed(t)
    BY TypeFound DEF Def, Defs, DefTypes
  <2>6. /\ Grows(defs, defs') /\ defs' \in Seq(Defs) /\ Len(defs') = id /\ defs'[id] = d
        /\ \A i \in 1..Len(defs) : defs'[i] = defs[i]
    BY <2>1, <2>3, <2>5, GrowsAppend
  <2> HIDE DEF id, d
  <2>7. PICK e : e = [Last(domains) EXCEPT !.structs = Enter(@, n, id)]
    OBVIOUS
  <2>8. Last(domains) \in Domains /\ Last(domains) = domains[Len(domains)]
    BY <2>2, LastIs DEF Typed
  <2>9. [Last(domains).structs EXCEPT ![n] = id] \in Scopes
    BY <2>4, <2>8 DEF Domains, Scopes
  <2>10. /\ e \in Domains /\ e.vars = Last(domains).vars
         /\ \A m \in Names : e.structs[m] = IF m = n THEN id ELSE Last(domains).structs[m]
    BY <2>7, <2>8, <2>9 DEF Domains, Enter, Scopes
  <2>11. /\ domains' \in Seq(Domains) /\ Len(domains') = Len(domains) /\ domains'[Len(domains)] = e
         /\ \A i \in 1..(Len(domains) - 1) : domains'[i] = domains[i]
         /\ \A i \in 1..Len(domains) : i \in 1..(Len(domains) - 1) \/ i = Len(domains)
    BY <2>1, <2>2, <2>7, <2>10, DomainsReplaced
  <2>12. \A i \in 1..Len(domains) : domains'[i].vars = domains[i].vars
    BY <2>8, <2>10, <2>11
  <2>13. IF AtRoot
         THEN /\ exprs' \in Seq(DefIds) /\ ToSet(exprs') = ToSet(exprs) \cup {id}
              /\ ReadyOf(exprs') = ReadyOf(exprs) /\ LateOf(exprs) \subseteq LateOf(exprs')
         ELSE exprs' = exprs
    BY <2>1, <2>3, <2>4, ReadyAppend
  <2>14. StartOf(defs', ReadyOf(exprs')) = StartOf(defs, ReadyOf(exprs)) /\ LateOf(exprs) \subseteq LateOf(exprs')
    BY <2>1, <2>3, <2>5, <2>13, StartAppend
  <2>15. Visit("struct", id) \in Visits
    BY <2>4, NothingTyped
  <2>16. Typed'
    <3>1. Len(defs') <= MaxDefs
      BY <1>1, <2>6
    <3>2. exprs' \in Seq(DefIds)
      BY <2>3, <2>13
    <3>3. code' \in Seq(Visits)
      <4>1. Append(code, Visit("struct", id)) \in Seq(Visits)
        BY <2>3, <2>15
      <4> QED BY <4>1, <2>1, <2>3
    <3>4. blocks' \in Seq(Blocks)
      <4>1. CASE AtRoot
        BY <4>1, <2>1, <2>2 DEF Typed
      <4>2. CASE ~AtRoot
        <5>1. Len(domains) > 1
          BY <1>1, <4>2 DEF InBlock, InBody
        <5> QED BY <5>1, <4>2, <1>1, <2>1, StartedIs
      <4> QED BY <4>1, <4>2
    <3> QED BY <3>1, <3>2, <3>3, <3>4, <2>1, <2>2, <2>6, <2>11 DEF Typed
  <2>17. Ranged'
    <3>1. 0..Len(defs) \subseteq 0..Len(defs') /\ 1..Len(defs) \subseteq 1..Len(defs')
      BY <2>3, <2>4, <2>6
    <3> QED BY <3>1, <2>1, <2>2, <2>11, <2>12 DEF Ranged
  <2>18. FileScope'
    <3>1. 1 \in 1..Len(domains) /\ (Len(domains) > 1 => 2 \in 1..Len(domains))
      BY <2>2
    <3>2. \A m \in Names : domains'[1].structs[m] # NoDef => domains'[1].structs[m] \in ToSet(exprs')
      <4>1. CASE AtRoot
        <5>1. Len(domains) = 1
          BY <4>1 DEF AtRoot
        <5> QED BY <5>1, <4>1, <2>2, <2>8, <2>10, <2>11, <2>13 DEF FileScope
      <4>2. CASE ~AtRoot
        <5>1. PICK k \in Nat : k = Len(domains) /\ k > 0 /\ k # 1
          BY <4>2, <1>1, <2>2 DEF AtRoot
        <5>2. 1 \in 1..(Len(domains) - 1)
          BY <5>1
        <5> QED BY <5>2, <4>2, <2>2, <2>11, <2>13 DEF FileScope
      <4> QED BY <4>1, <4>2
    <3>3. ~function.hasBody => code' = code /\ \A i \in 1..Len(defs') : defs'[i].kind # "argument"
      <4> SUFFICES ASSUME ~function.hasBody
                   PROVE  code' = code /\ \A i \in 1..Len(defs') : defs'[i].kind # "argument"
        OBVIOUS
      <4>1. AtRoot /\ \A i \in 1..Len(defs) : defs[i].kind # "argument"
        BY <1>1, <2>2 DEF FileScope, AtRoot
      <4>2. \A i \in 1..id : i \in 1..Len(defs) \/ i = id
        BY <2>3, <2>4
      <4> QED BY <4>1, <4>2, <2>1, <2>5, <2>6
    <3> QED BY <3>1, <3>2, <3>3, <2>1, <2>2, <2>11, <2>12 DEF FileScope
  <2>19. ASSUME function.hasBody
         PROVE  Tracing(defs', exprs', function.renamed, code', domains', meaning, pending, blocks')
    <3>1. CASE AtRoot
      <4>1. Len(domains) = 1
        BY <3>1 DEF AtRoot
      <4>2. PICK b \in Stacks : Traced(defs, exprs, function.renamed, code, b)
        BY <1>1, <2>19 DEF DeclInv, Tracing
      <4>3. Traced(defs', exprs', function.renamed, code, b)
        BY <4>2, <2>6, <2>14, TracedGrows
      <4>4. code' = code
        BY <3>1, <2>1
      <4>5. Len(domains') = 1
        BY <4>1, <2>11
      <4>6. ~(Len(domains') > 1)
        BY <4>5
      <4> QED BY <4>3, <4>4, <4>6 DEF Tracing
    <3>2. CASE ~AtRoot
      <4>1. Len(domains) > 1 /\ InBlock /\ ~pending.open /\ pending.ids = <<>>
        BY <1>1, <3>2, <2>2 DEF InBlock, InBody, FileScope
      <4>2. PICK b \in Stacks : /\ Traced(defs, exprs, function.renamed, code, b) /\ Len(b) = Len(domains)
                                /\ Matches(defs, LateOf(exprs), b, domains, meaning, pending)
                                /\ Nested(defs, LateOf(exprs), function.renamed, b, blocks)
                                /\ Len(meaning) = Len(domains)
        BY <1>1, <4>1, BodyIs
      <4>3. exprs' = exprs /\ code' = Append(code, Visit("struct", id))
        BY <2>1, <3>2
      <4>4. Traced(defs', exprs, function.renamed, code, b)
        BY <4>2, <4>3, <2>6, <2>14, TracedGrows
      <4>5. PICK y : y = WithStructure(b, id)
        OBVIOUS
      <4>6. /\ y \in Stacks /\ Len(y) = Len(b) /\ \A i \in 1..(Len(b) - 1) : y[i] = b[i]
            /\ y[Len(b)].vars = b[Len(b)].vars /\ y[Len(b)].structs = b[Len(b)].structs \cup {id}
        BY <4>5, <2>4, WithStructureIs
      <4>7. Good(defs', LateOf(exprs), function.renamed, b, Visit("struct", id))
        <5>1. Ready(b, TypeNamed(t)) \/ TypeNamed(t) \in LateOf(exprs)
          BY <4>2, TypeFound
        <5>2. id \in 1..Len(defs') /\ defs'[id].type = TypeNamed(t)
          BY <2>4, <2>5, <2>6
        <5> QED BY <5>1, <5>2 DEF Good, Visit
      <4>8. y = Visited(defs', b, Visit("struct", id))
        BY <4>5 DEF Visited, Visit
      <4>9. Traced(defs', exprs, function.renamed, code', y)
        <5>1. Len(defs') <= MaxDefs
          BY <1>1, <2>6
        <5> QED BY <5>1, <4>3, <4>4, <4>7, <4>8, <2>3, <2>6, <2>15, TracedOne
      <4>10. Level(defs', LateOf(exprs), Len(b), y[Len(b)], e, meaning[Len(b)])
        <5>1. Len(b) \in 1..Len(b) /\ Len(b) # 2
          BY <4>2, <2>2 DEF Matches
        <5>2. Level(defs, LateOf(exprs), Len(b), b[Len(b)], domains[Len(b)], meaning[Len(b)])
          BY <5>1, <4>2 DEF Matches
        <5>3. \A m \in Names : meaning[Len(b)][m] \in 0..Len(defs)
          BY <5>1, <4>2, <2>2 DEF Ranged
        <5>4. \A m \in Names : LostIn(defs', LateOf(exprs), meaning[Len(b)][m])
                                 <=> LostIn(defs, LateOf(exprs), meaning[Len(b)][m])
          BY <5>3, <2>6, LostStays
        <5> QED BY <5>1, <5>2, <5>4, <4>2, <4>6, <2>8, <2>10 DEF Level
      <4>11. Matches(defs', LateOf(exprs), y, domains', meaning, pending)
        <5>1. \A i \in 1..Len(b), m \in Names : meaning[i][m] \in 0..Len(defs)
          BY <4>2, <2>2 DEF Ranged
        <5>2. meaning[Len(b)] = Entering(defs', pending.ids, domains'[Len(b)].vars)
          <6>1. meaning[Len(b)] = Entering(defs, pending.ids, domains[Len(b)].vars)
            BY <4>2 DEF Matches
          <6>2. \A map : Entering(defs', <<>>, map) = Entering(defs, <<>>, map)
            <7>1. ToSet(<<>>) = {}
              BY DEF ToSet
            <7> QED BY <7>1 DEF Entering
          <6> QED BY <6>1, <6>2, <4>1, <4>2, <2>8, <2>10, <2>11
        <5>3. /\ Len(domains') = Len(b) /\ Len(meaning) = Len(b) /\ domains'[Len(b)] = e
              /\ \A i \in 1..(Len(b) - 1) : y[i] = b[i] /\ domains'[i] = domains[i]
          BY <4>2, <4>6, <2>11
        <5>4. Level(defs', LateOf(exprs), Len(b), y[Len(b)], domains'[Len(b)], meaning[Len(b)])
          BY <5>3, <4>10
        <5>5. ~pending.open /\ Grows(defs, defs') /\ Len(y) = Len(b)
          BY <4>1, <4>6, <2>6
        <5>6. Matches(defs, LateOf(exprs), b, domains, meaning, pending)
          BY <4>2
        <5> QED BY <5>1, <5>2, <5>3, <5>4, <5>5, <5>6, MatchesLast
      <4>12. Nested(defs', LateOf(exprs), function.renamed, y, blocks')
        <5>1. Nested(defs, LateOf(exprs), function.renamed, b, Started) /\ blocks' = Started
          BY <4>1, <4>2, <3>2, <1>1, <2>1, StartedIs
        <5>2. Nested(defs', LateOf(exprs), function.renamed, y, Started)
          BY <5>1, <4>2, <4>6, <2>6, DepthsSame
        <5> QED BY <5>1, <5>2
      <4> QED BY <4>3, <4>6, <4>9, <4>11, <4>12 DEF Tracing
    <3> QED BY <3>1, <3>2
  <2> QED BY <1>1, <2>1, <2>16, <2>17, <2>18, <2>19, ParseStep
<1> QED BY <1>2, <1>3

-----------------------------------------------------------------------------
(* The function's head and body.                                           *)

ArgumentDefs == [name : Names, type : DefTypes]

LEMMA HeadIs ==
    ASSUME DeclInv, NEW list \in Lists, AcceptsHead(list), NEW f, f = DeclaredAs(list)
    PROVE  /\ f \in Functions /\ f.args \in Seq(ArgumentDefs) /\ f.declared /\ f.renamed = function.renamed
           /\ Len(f.args) = Len(list) /\ Len(list) \in Nat /\ DOMAIN list = 1..Len(list)
           /\ \A i, j \in 1..Len(f.args) : f.args[i].name = f.args[j].name => i = j
           /\ WithFunction \in Seq(DefIds) /\ ToSet(exprs) \subseteq ToSet(WithFunction)
           /\ function.declared => f = function /\ WithFunction = exprs
           /\ f.hasBody = function.hasBody
           /\ ArgumentsOf(list) \in Seq(ArgumentDefs) /\ Len(ArgumentsOf(list)) = Len(list)
           /\ \A i \in 1..Len(list) : ArgumentsOf(list)[i].name \in Names
<1>1. /\ function \in Functions /\ exprs \in Seq(DefIds)
      /\ \A i, j \in 1..Len(function.args) : function.args[i].name = function.args[j].name => i = j
  BY DEF DeclInv, Typed, FileScope
<1>2. list \in Seq(Names \X Types) /\ Len(list) \in Nat /\ DOMAIN list = 1..Len(list)
  BY ListsAssumption
<1>3. \A i \in 1..Len(list) : list[i] \in Names \X Types
  BY <1>2
<1>4. PICK as : as = ArgumentsOf(list)
  OBVIOUS
<1>5. as = [i \in 1..Len(list) |-> [name |-> list[i][1], type |-> TypeNamed(list[i][2])]]
  BY <1>2, <1>4 DEF ArgumentsOf
<1>6. \A i \in 1..Len(list) : as[i] \in ArgumentDefs /\ as[i].name = list[i][1] /\ as[i].name \in Names
  <2> TAKE i \in 1..Len(list)
  <2>1. list[i][1] \in Names /\ list[i][2] \in Types
    BY <1>3
  <2>2. TypeNamed(list[i][2]) \in DefTypes
    BY <2>1, TypeFound
  <2> QED BY <2>1, <2>2, <1>5 DEF ArgumentDefs
<1>7. as \in [1..Len(list) -> ArgumentDefs]
  BY <1>5, <1>6
<1>8. as \in Seq(ArgumentDefs) /\ Len(as) = Len(list)
  BY <1>2, <1>7, FunctionIsSeq
<1>9. \A i, j \in 1..Len(as) : as[i].name = as[j].name => i = j
  <2> SUFFICES ASSUME NEW i \in 1..Len(list), NEW j \in 1..Len(list), as[i].name = as[j].name PROVE i = j
    BY <1>8
  <2>1. list[i][1] = list[j][1]
    BY <1>6
  <2>2. Unique(list)
    BY DEF AcceptsHead
  <2> QED BY <2>1, <2>2, <1>2 DEF Unique
<1>10. function.args \in Seq(ArgumentDefs) /\ function.declared \in BOOLEAN
  BY <1>1 DEF Functions, ArgumentDefs
<1>11. CASE function.declared
  <2>1. f = function /\ WithFunction = exprs
    BY <1>11 DEF DeclaredAs, WithFunction
  <2>2. Len(as) = Len(function.args)
    BY <1>4, <1>11 DEF AcceptsHead, HasSamePrototype
  <2> QED BY <2>1, <2>2, <1>1, <1>2, <1>4, <1>6, <1>8, <1>10, <1>11
<1>12. CASE ~function.declared
  <2>1. f = [function EXCEPT !.declared = TRUE, !.args = as]
    BY <1>4, <1>12 DEF DeclaredAs
  <2>2. /\ f \in Functions /\ f.args = as /\ f.declared /\ f.hasBody = function.hasBody
        /\ f.renamed = function.renamed
    BY <2>1, <1>1, <1>8 DEF Functions, ArgumentDefs
  <2>3. WithFunction = Append(exprs, NoDef)
    BY <1>12 DEF WithFunction
  <2>4. /\ Append(exprs, NoDef) \in Seq(DefIds) /\ Len(Append(exprs, NoDef)) = Len(exprs) + 1
        /\ Len(exprs) \in Nat /\ \A i \in 1..Len(exprs) : Append(exprs, NoDef)[i] = exprs[i]
        /\ DOMAIN exprs = 1..Len(exprs) /\ DOMAIN Append(exprs, NoDef) = 1..(Len(exprs) + 1)
    BY <1>1, NothingTyped, AppendProperties
  <2>5. 1..Len(exprs) \subseteq 1..(Len(exprs) + 1)
    BY <2>4
  <2>6. ToSet(exprs) \subseteq ToSet(Append(exprs, NoDef))
    BY <2>4, <2>5 DEF ToSet
  <2>7. /\ f.args \in Seq(ArgumentDefs) /\ Len(f.args) = Len(list)
        /\ \A i, j \in 1..Len(f.args) : f.args[i].name = f.args[j].name => i = j
    BY <2>2, <1>8, <1>9
  <2>8. WithFunction \in Seq(DefIds) /\ ToSet(exprs) \subseteq ToSet(WithFunction)
    BY <2>3, <2>4, <2>6
  <2>9. /\ ArgumentsOf(list) \in Seq(ArgumentDefs) /\ Len(ArgumentsOf(list)) = Len(list)
        /\ \A i \in 1..Len(list) : ArgumentsOf(list)[i].name \in Names
    BY <1>4, <1>6, <1>8
  <2> QED BY <2>2, <2>7, <2>8, <2>9, <1>2, <1>12
<1> QED BY <1>10, <1>11, <1>12

LEMMA FunctionDeclInv ==
    ASSUME DeclInv, NEW list \in Lists, FunctionDecl(list)
    PROVE  DeclInv'
<1>1. phase = "parse" /\ AtRoot
  BY DEF FunctionDecl, AtRoot
<1>2. CASE Refuse
  BY <1>1, <1>2, RefuseInv
<1>3. CASE ~Refuse
  <2>1. /\ AcceptsHead(list) /\ function' = DeclaredAs(list) /\ exprs' = WithFunction
        /\ phase' = phase /\ defs' = defs /\ domains' = domains /\ meaning' = meaning /\ blocks' = blocks
        /\ pending' = pending /\ size' = size /\ code' = code /\ ctx' = ctx /\ found' = found
    BY <1>3 DEF FunctionDecl
  <2>2. /\ function' \in Functions /\ function'.declared /\ function'.renamed = function.renamed
        /\ \A i, j \in 1..Len(function'.args) : function'.args[i].name = function'.args[j].name => i = j
        /\ exprs' \in Seq(DefIds) /\ ToSet(exprs) \subseteq ToSet(exprs')
        /\ function.declared => function' = function /\ exprs' = exprs
        /\ function'.hasBody = function.hasBody
    BY <2>1, HeadIs
  <2>3. Typed /\ Ranged /\ FileScope
    BY DEF DeclInv
  <2>4. Typed'
    BY <2>1, <2>2, <2>3 DEF Typed
  <2>5. Ranged'
    BY <2>1, <2>3 DEF Ranged
  <2>6. FileScope'
    BY <2>1, <2>2, <2>3 DEF FileScope
  <2>7. ASSUME function'.hasBody
        PROVE  Tracing(defs, exprs', function'.renamed, code, domains, meaning, pending, blocks)
    <3>1. function' = function /\ exprs' = exprs
      BY <2>2, <2>3, <2>7 DEF FileScope
    <3> QED BY <3>1, <1>1, <2>7 DEF DeclInv
  <2> QED BY <1>1, <2>1, <2>4, <2>5, <2>6, <2>7, ParseStep
<1> QED BY <1>2, <1>3

LEMMA EndBodyInv ==
    ASSUME DeclInv, EndBody
    PROVE  DeclInv'
<1>1. /\ phase = "parse" /\ Len(domains) > 1 /\ ~pending.open
      /\ domains' = <<domains[1]>> /\ meaning' = <<meaning[1]>> /\ blocks' = <<>>
      /\ phase' = phase /\ defs' = defs /\ function' = function /\ exprs' = exprs
      /\ pending' = pending /\ size' = size /\ code' = code /\ ctx' = ctx /\ found' = found
  BY DEF EndBody, InBody
<1>2. Typed /\ Ranged /\ FileScope
  BY DEF DeclInv
<1>3. /\ domains \in Seq(Domains) /\ meaning \in Seq(Scopes) /\ Len(domains) \in Nat /\ Len(domains) > 0
      /\ Len(meaning) = Len(domains) /\ 1 \in 1..Len(domains)
  BY <1>2 DEF Typed
<1>4. domains[1] \in Domains /\ meaning[1] \in Scopes
  BY <1>3
<1>5. /\ domains' \in Seq(Domains) /\ meaning' \in Seq(Scopes) /\ Len(domains') = 1 /\ Len(meaning') = 1
      /\ domains'[1] = domains[1] /\ meaning'[1] = meaning[1]
  BY <1>1, <1>4
<1>6. Typed'
  BY <1>1, <1>2, <1>5 DEF Typed
<1>7. Ranged'
  BY <1>1, <1>2, <1>3, <1>5 DEF Ranged
<1>8. FileScope'
  BY <1>1, <1>2, <1>5 DEF FileScope
<1>9. Tracing(defs, exprs, function.renamed, code, domains', meaning', pending, blocks')
  <2>1. PICK b \in Stacks : Traced(defs, exprs, function.renamed, code, b)
    BY <1>1, BodyIs
  <2> QED BY <2>1, <1>5 DEF Tracing
<1> QED BY <1>1, <1>6, <1>7, <1>8, <1>9, ParseStep

\* The arguments in the order of the head, and their numbers behind the k definitions there are.
NamedIn(args, n) == {i \in DOMAIN args : args[i].name = n}
Numbers(list, k, args) == [n \in Names |->
    IF NamedIn(args, n) = {} THEN NoDef
    ELSE [i \in DOMAIN list |-> k + i][CHOOSE i \in NamedIn(args, n) : TRUE]]
ArgumentsFrom(list, args) == [i \in DOMAIN list |-> Def("argument", args[i].name, args[i].type, FALSE)]
WithArguments(D, list, args) == D \o ArgumentsFrom(list, args)

LEMMA NumbersAre ==
    ASSUME NEW list, NEW k \in Nat, NEW args \in Seq(ArgumentDefs), DOMAIN list = 1..Len(args), NEW n \in Names
    PROVE  \/ NamedIn(args, n) = {} /\ Numbers(list, k, args)[n] = NoDef
           \/ \E i \in 1..Len(args) : args[i].name = n /\ Numbers(list, k, args)[n] = k + i
<1>1. DOMAIN args = 1..Len(args)
  OBVIOUS
<1>2. CASE NamedIn(args, n) = {}
  BY <1>2 DEF Numbers
<1>3. CASE NamedIn(args, n) # {}
  <2>1. PICK i : i = CHOOSE j \in NamedIn(args, n) : TRUE
    OBVIOUS
  <2>2. i \in NamedIn(args, n)
    BY <1>3, <2>1
  <2>3. i \in 1..Len(args) /\ args[i].name = n
    BY <1>1, <2>2 DEF NamedIn
  <2>4. Numbers(list, k, args)[n] = [j \in DOMAIN list |-> k + j][i]
    BY <1>3, <2>1 DEF Numbers
  <2> QED BY <2>3, <2>4
<1> QED BY <1>2, <1>3

LEMMA NumbersTyped ==
    ASSUME NEW list, NEW k \in Nat, NEW args \in Seq(ArgumentDefs), DOMAIN list = 1..Len(args),
           k + Len(args) <= MaxDefs
    PROVE  /\ Numbers(list, k, args) \in Scopes
           /\ \A n \in Names : Numbers(list, k, args)[n] \in 0..(k + Len(args))
<1>1. \A n \in Names : Numbers(list, k, args)[n] \in 0..(k + Len(args))
  <2> TAKE n \in Names
  <2>1. Len(args) \in Nat
    OBVIOUS
  <2> QED BY <2>1, NumbersAre DEF NoDef
<1>2. 0..(k + Len(args)) \subseteq DefIds
  <2>1. Len(args) \in Nat /\ MaxDefs \in Nat
    BY BoundsAssumption
  <2> QED BY <2>1 DEF DefIds
<1>3. \A n \in Names : Numbers(list, k, args)[n] \in DefIds
  BY <1>1, <1>2
<1>4. Numbers(list, k, args) = [n \in Names |-> Numbers(list, k, args)[n]]
  BY DEF Numbers
<1>5. Numbers(list, k, args) \in Scopes
  BY <1>3, <1>4 DEF Scopes
<1> QED BY <1>1, <1>5

LEMMA ArgumentsAdded ==
    ASSUME NEW D \in Seq(Defs), NEW k \in Nat, k = Len(D), \A i \in 1..Len(D) : D[i].kind # "argument",
           NEW list, NEW args \in Seq(ArgumentDefs), DOMAIN list = 1..Len(args),
           \A i, j \in 1..Len(args) : args[i].name = args[j].name => i = j,
           NEW R
    PROVE  /\ Grows(D, WithArguments(D, list, args))
           /\ Len(WithArguments(D, list, args)) = Len(D) + Len(args)
           /\ StartOf(WithArguments(D, list, args), R)[2].vars = Numbers(list, k, args)
<1>1. PICK s : s = ArgumentsFrom(list, args)
  OBVIOUS
<1>0. PICK E : E = WithArguments(D, list, args)
  OBVIOUS
<1>2. Len(args) \in Nat /\ Len(D) \in Nat
  OBVIOUS
<1>3. \A i \in 1..Len(args) : s[i] \in Defs /\ s[i].kind = "argument" /\ s[i].name = args[i].name
  <2> TAKE i \in 1..Len(args)
  <2>1. args[i] \in ArgumentDefs
    OBVIOUS
  <2>2. args[i].name \in Names /\ args[i].type \in -2..MaxDefs
    BY <2>1 DEF ArgumentDefs, DefTypes
  <2>3. s[i] = Def("argument", args[i].name, args[i].type, FALSE)
    BY <1>1 DEF ArgumentsFrom
  <2> QED BY <2>2, <2>3 DEF Def, Defs
<1>4. s \in Seq(Defs) /\ Len(s) = Len(args)
  <2>1. PICK m \in Nat : m = Len(args)
    BY <1>2
  <2>2. s \in [1..m -> Defs]
    BY <1>1, <1>3, <2>1 DEF ArgumentsFrom
  <2> QED BY <2>1, <2>2, FunctionIsSeq
<1>5. /\ E \in Seq(Defs) /\ Len(E) = Len(D) + Len(args)
      /\ \A i \in 1..(Len(D) + Len(args)) : E[i] = IF i <= Len(D) THEN D[i] ELSE s[i - Len(D)]
  <2>1. E = D \o s
    BY <1>0, <1>1 DEF WithArguments
  <2>2. /\ D \o s \in Seq(Defs) /\ Len(D \o s) = Len(D) + Len(s)
        /\ \A i \in 1 .. Len(D) + Len(s) : (D \o s)[i] = IF i <= Len(D) THEN D[i] ELSE s[i - Len(D)]
    BY ONLY <1>4, D \in Seq(Defs), ConcatProperties, Zenon
  <2> QED BY <2>1, <2>2, <1>4
<1>6. \A i \in 1..Len(D) : E[i] = D[i]
  BY <1>2, <1>5
<1>7. Grows(D, E)
  BY <1>2, <1>5, <1>6 DEF Grows
<1>8. \A i \in 1..Len(args) : E[Len(D) + i] = s[i] /\ Len(D) + i \in 1..Len(E)
  <2> TAKE i \in 1..Len(args)
  <2>1. /\ Len(D) + i \in 1..(Len(D) + Len(args)) /\ ~(Len(D) + i <= Len(D))
        /\ (Len(D) + i) - Len(D) = i
    BY <1>2
  <2> QED BY <2>1, <1>5
<1>9. \A i \in 1..Len(E) : i \in 1..Len(D) \/ \E j \in 1..Len(args) : i = Len(D) + j
  <2> TAKE i \in 1..Len(E)
  <2>1. ~(i \in 1..Len(D)) => i - Len(D) \in 1..Len(args) /\ i = Len(D) + (i - Len(D))
    BY <1>2, <1>5
  <2> QED BY <2>1
<1>10. DOMAIN E = 1..Len(E)
  BY <1>5
<1>11. ASSUME NEW n \in Names
       PROVE  (IF ArgumentsIn(E, n) = {} THEN NoDef ELSE Max(ArgumentsIn(E, n))) = Numbers(list, k, args)[n]
  <2>1. \A x \in ArgumentsIn(E, n) : \E j \in 1..Len(args) : x = Len(D) + j /\ args[j].name = n
    <3> TAKE x \in ArgumentsIn(E, n)
    <3>1. x \in 1..Len(E) /\ E[x].kind = "argument" /\ E[x].name = n
      BY <1>10 DEF ArgumentsIn
    <3>2. ~(x \in 1..Len(D))
      BY <3>1, <1>6
    <3>3. PICK j \in 1..Len(args) : x = Len(D) + j
      BY <3>1, <3>2, <1>9
    <3>4. args[j].name = n
      BY <3>1, <3>3, <1>3, <1>8
    <3> QED BY <3>3, <3>4
  <2>2. \A j \in 1..Len(args) : args[j].name = n => Len(D) + j \in ArgumentsIn(E, n)
    BY <1>3, <1>8, <1>10 DEF ArgumentsIn
  <2>3. CASE NamedIn(args, n) = {} /\ Numbers(list, k, args)[n] = NoDef
    <3>1. ArgumentsIn(E, n) = {}
      BY <2>1, <2>3 DEF NamedIn
    <3> QED BY <3>1, <2>3
  <2>4. CASE \E i \in 1..Len(args) : args[i].name = n /\ Numbers(list, k, args)[n] = Len(D) + i
    <3>1. PICK i \in 1..Len(args) : args[i].name = n /\ Numbers(list, k, args)[n] = Len(D) + i
      BY <2>4
    <3>2. Len(D) + i \in ArgumentsIn(E, n)
      BY <2>2, <3>1
    <3>3. \A x \in ArgumentsIn(E, n) : x = Len(D) + i
      BY <2>1, <3>1
    <3>4. \A x \in ArgumentsIn(E, n) : x \in Int /\ x <= Len(D) + i
      BY <3>3, <1>2
    <3>5. Max(ArgumentsIn(E, n)) = Len(D) + i
      BY <3>2, <3>4, MaxIs
    <3> QED BY <3>1, <3>2, <3>5
  <2>5. \/ NamedIn(args, n) = {} /\ Numbers(list, k, args)[n] = NoDef
        \/ \E i \in 1..Len(args) : args[i].name = n /\ Numbers(list, k, args)[n] = k + i
    BY NumbersAre
  <2> QED BY <2>3, <2>4, <2>5, <1>2
<1>12. StartOf(E, R)[2].vars = [n \in Names |-> IF ArgumentsIn(E, n) = {} THEN NoDef ELSE Max(ArgumentsIn(E, n))]
  BY DEF StartOf, Context
<1>13. StartOf(E, R)[2].vars = Numbers(list, k, args)
  BY <1>11, <1>12 DEF Numbers
<1> QED BY <1>0, <1>5, <1>7, <1>13

\* The contexts of a body that begins match its domains.
LEMMA StartMatches ==
    ASSUME NEW D, NEW E, ToSet(E) \subseteq DefIds, NEW r, NEW s, s = StartOf(D, ReadyOf(E)), s[2].vars \in Scopes,
           NEW dom, Len(dom) = 3, NEW mean, Len(mean) = 3, NEW bl, bl = Block("body"),
           dom[1].vars = NoName, mean[1] = NoName,
           \A n \in Names : dom[1].structs[n] # NoDef => dom[1].structs[n] \in ToSet(E),
           dom[2] = [Domain EXCEPT !.vars = s[2].vars], dom[3] = Domain, mean[3] = NoName,
           NEW p, ~p.open, p.ids = <<>>
    PROVE  /\ s \in Stacks /\ Traced(D, E, r, <<>>, s)
           /\ Matches(D, LateOf(E), s, dom, mean, p) /\ Nested(D, LateOf(E), r, s, <<bl>>)
<1>1. PICK c1 : c1 = [Context EXCEPT !.structs = ReadyOf(E)]
  OBVIOUS
<1>2. PICK c2 : c2 = [Context EXCEPT !.vars = s[2].vars]
  OBVIOUS
<1>3. s = <<c1, c2, Context>>
  <2>1. s[2].vars = [n \in Names |-> IF ArgumentsIn(D, n) = {} THEN NoDef ELSE Max(ArgumentsIn(D, n))]
    BY DEF StartOf, Context
  <2> QED BY <1>1, <1>2, <2>1 DEF StartOf
<1>4. ReadyOf(E) \subseteq ToSet(E)
  BY DEF ReadyOf, ToSet
<1>5. Context \in Contexts /\ Context.vars = NoName /\ Context.structs = {}
  BY ContextTyped DEF Context
<1>6. c1 \in Contexts /\ c1.vars = NoName /\ c1.structs = ReadyOf(E)
  BY <1>1, <1>4, <1>5 DEF Contexts, Context
<1>7. c2 \in Contexts /\ c2.vars = s[2].vars
  BY <1>2, <1>5 DEF Contexts, Context
<1>8. s \in Seq(Contexts) /\ Len(s) = 3 /\ s[1] = c1 /\ s[2] = c2 /\ s[3] = Context
  BY <1>3, <1>5, <1>6, <1>7
<1>9. s \in Stacks
  <2>1. Len(s) > 0
    BY <1>8
  <2> QED BY <2>1, <1>8 DEF Stacks
<1>10. Traced(D, E, r, <<>>, s)
  BY <1>9, LeadsNone DEF Traced
<1>11. \A n \in Names : NoName[n] = NoDef
  BY NothingTyped
<1>12. /\ dom[2].vars = c2.vars /\ dom[2].structs = NoName /\ dom[3].vars = NoName /\ dom[3].structs = NoName
  BY <1>7 DEF Domain
<1>13. Level(D, LateOf(E), 1, s[1], dom[1], mean[1])
  BY <1>6, <1>8, <1>11 DEF Level, LateOf
<1>14. Level(D, LateOf(E), 2, s[2], dom[2], mean[2])
  BY <1>8, <1>11, <1>12 DEF Level
<1>15. Level(D, LateOf(E), 3, s[3], dom[3], mean[3])
  BY <1>5, <1>8, <1>11, <1>12 DEF Level
<1>17. Entering(D, p.ids, dom[3].vars) = NoName
  BY <1>12, ContextTyped, EnteringNone
<1>18. Matches(D, LateOf(E), s, dom, mean, p)
  <2>1. \A i \in 1..3 : i = 1 \/ i = 2 \/ i = 3
    OBVIOUS
  <2>2. \A i \in 1..3 : Level(D, LateOf(E), i, s[i], dom[i], mean[i])
    BY <2>1, <1>13, <1>14, <1>15
  <2>3. \A i \in 1..(3 - 1) : i # 2 => dom[i].vars = mean[i]
    <3>1. \A i \in 1..(3 - 1) : i = 1 \/ i = 2
      OBVIOUS
    <3> QED BY <3>1
  <2> QED BY <2>2, <2>3, <1>8, <1>17 DEF Matches
<1>19. Nested(D, LateOf(E), r, s, <<bl>>)
  <2>1. PICK d : d = [j \in 1..1 |-> 3]
    OBVIOUS
  <2>2. Len(<<bl>>) = 1 /\ <<bl>>[1] = bl /\ bl.kind = "body"
    BY DEF Block
  <2>3. d \in [1..1 -> Nat] /\ d[1] = 3 /\ \A j \in 1..1 : j = 1 /\ d[j] = 3
    BY <2>1
  <2>4. 2..1 = {} /\ ~\E i, j \in 1..1 : i < j
    OBVIOUS
  <2>5. Depths(D, LateOf(E), r, s, <<bl>>, d)
    BY <2>2, <2>3, <2>4, <1>8 DEF Depths
  <2> QED BY <2>2, <2>3, <2>5 DEF Nested
<1> QED BY <1>9, <1>10, <1>18, <1>19

LEMMA BeginBodyInv ==
    ASSUME DeclInv, NEW list \in Lists, BeginBody(list)
    PROVE  DeclInv'
<1>1. phase = "parse" /\ AtRoot /\ Len(defs) + Len(list) <= MaxDefs
  BY DEF BeginBody, AtRoot
<1>2. CASE Refuse
  BY <1>1, <1>2, RefuseInv
<1>3. CASE ~Refuse
  <2> DEFINE f == DeclaredAs(list)
             by == Numbers(list, Len(defs), f.args)
             mine == Numbers(list, Len(defs), ArgumentsOf(list))
  <2>4. /\ AcceptsHead(list) /\ ~function.hasBody
        /\ function' = [f EXCEPT !.hasBody = TRUE, !.renamed = (f.args # ArgumentsOf(list))]
        /\ exprs' = WithFunction /\ defs' = WithArguments(defs, list, f.args)
        /\ domains' = domains \o <<[Domain EXCEPT !.vars = by], Domain>>
        /\ meaning' = meaning \o <<mine, NoName>>
        /\ blocks' = <<Block("body")>>
        /\ phase' = phase /\ pending' = pending /\ size' = size /\ code' = code /\ ctx' = ctx /\ found' = found
    BY <1>3 DEF BeginBody, Numbers, NamedIn, ArgumentsFrom, WithArguments
  <2> HIDE DEF f, by, mine
  <2>5. /\ f \in Functions /\ f.args \in Seq(ArgumentDefs) /\ f.declared
        /\ Len(f.args) = Len(list) /\ Len(list) \in Nat /\ DOMAIN list = 1..Len(list)
        /\ \A i, j \in 1..Len(f.args) : f.args[i].name = f.args[j].name => i = j
        /\ exprs' \in Seq(DefIds) /\ ToSet(exprs) \subseteq ToSet(exprs')
        /\ ArgumentsOf(list) \in Seq(ArgumentDefs) /\ Len(ArgumentsOf(list)) = Len(list)
    BY <2>4, HeadIs DEF f
  <2>6. Typed /\ Ranged /\ FileScope
    BY DEF DeclInv
  <2>7. /\ defs \in Seq(Defs) /\ Len(defs) \in Nat /\ domains \in Seq(Domains) /\ meaning \in Seq(Scopes)
        /\ Len(domains) = 1 /\ Len(meaning) = 1 /\ ~pending.open /\ pending.ids = <<>> /\ code = <<>>
    <3>1. Len(domains) = 1 /\ code = <<>> /\ ~pending.open /\ pending.ids = <<>>
      BY <1>1, <2>4, <2>6 DEF AtRoot, FileScope
    <3> QED BY <3>1, <2>6 DEF Typed
  <2>8. /\ Grows(defs, defs') /\ Len(defs') = Len(defs) + Len(list)
        /\ StartOf(defs', ReadyOf(exprs'))[2].vars = by
    <3>1. \A i \in 1..Len(defs) : defs[i].kind # "argument"
      BY <2>4, <2>6 DEF FileScope
    <3>2. DOMAIN list = 1..Len(f.args) /\ Len(f.args) = Len(list)
      BY <2>5
    <3>3. defs' = WithArguments(defs, list, f.args)
      BY <2>4
    <3>4. f.args \in Seq(ArgumentDefs) /\ \A i, j \in 1..Len(f.args) : f.args[i].name = f.args[j].name => i = j
      BY <2>5
    <3>5. /\ Grows(defs, defs') /\ Len(defs') = Len(defs) + Len(f.args)
          /\ StartOf(defs', ReadyOf(exprs'))[2].vars = Numbers(list, Len(defs), f.args)
      <4>1. PICK k \in Nat : k = Len(defs)
        BY <2>7
      <4>2. /\ Grows(defs, WithArguments(defs, list, f.args))
            /\ Len(WithArguments(defs, list, f.args)) = Len(defs) + Len(f.args)
            /\ StartOf(WithArguments(defs, list, f.args), ReadyOf(exprs'))[2].vars = Numbers(list, k, f.args)
        <5>1. PICK a : a = f.args
          OBVIOUS
        <5>2. a \in Seq(ArgumentDefs) /\ DOMAIN list = 1..Len(a)
          BY <3>2, <3>4, <5>1
        <5>3. \A i, j \in 1..Len(a) : a[i].name = a[j].name => i = j
          BY <3>4, <5>1
        <5>4. defs \in Seq(Defs)
          BY <2>7
        <5>5. \A R : /\ Grows(defs, WithArguments(defs, list, a))
                     /\ Len(WithArguments(defs, list, a)) = Len(defs) + Len(a)
                     /\ StartOf(WithArguments(defs, list, a), R)[2].vars = Numbers(list, k, a)
          BY <3>1, <4>1, <5>2, <5>3, <5>4, ArgumentsAdded
        <5> QED BY <5>1, <5>5
      <4> QED BY <3>3, <4>1, <4>2
    <3> QED BY <3>2, <3>5 DEF by
  <2>9. /\ by \in Scopes /\ mine \in Scopes
        /\ \A n \in Names : by[n] \in 0..Len(defs') /\ mine[n] \in 0..Len(defs')
    <3>1. /\ DOMAIN list = 1..Len(f.args) /\ DOMAIN list = 1..Len(ArgumentsOf(list))
          /\ Len(defs) + Len(f.args) <= MaxDefs /\ Len(defs) + Len(ArgumentsOf(list)) <= MaxDefs
      BY <1>1, <2>5
    <3>2. /\ Numbers(list, Len(defs), f.args) \in Scopes
          /\ \A n \in Names : Numbers(list, Len(defs), f.args)[n] \in 0..(Len(defs) + Len(f.args))
      BY <3>1, <2>5, <2>7, NumbersTyped
    <3>3. /\ Numbers(list, Len(defs), ArgumentsOf(list)) \in Scopes
          /\ \A n \in Names : Numbers(list, Len(defs), ArgumentsOf(list))[n] \in 0..(Len(defs) + Len(ArgumentsOf(list)))
      BY <3>1, <2>5, <2>7, NumbersTyped
    <3> QED BY <3>2, <3>3, <2>5, <2>8 DEF by, mine
  <2>10. PICK own : own = [Domain EXCEPT !.vars = by]
    OBVIOUS
  <2>11. own \in Domains /\ own.vars = by /\ own.structs = NoName /\ Domain \in Domains
    BY <2>9, <2>10, NothingTyped DEF Domain, Domains
  <2>12. /\ domains' \in Seq(Domains) /\ Len(domains') = 3 /\ domains'[1] = domains[1]
         /\ domains'[2] = own /\ domains'[3] = Domain
    <3>1. domains' = domains \o <<own, Domain>>
      BY <2>4, <2>10
    <3> QED BY <3>1, <2>7, <2>11, TwoMore
  <2>13. /\ meaning' \in Seq(Scopes) /\ Len(meaning') = 3 /\ meaning'[1] = meaning[1]
         /\ meaning'[2] = mine /\ meaning'[3] = NoName
    BY <2>4, <2>7, <2>9, NothingTyped, TwoMore
  <2>14. /\ function' \in Functions /\ function'.declared /\ function'.hasBody /\ function'.args = f.args
         /\ function'.renamed = (f.args # ArgumentsOf(list))
    BY <2>4, <2>5 DEF Functions
  <2>15. Typed'
    <3>1. blocks' \in Seq(Blocks)
      BY <2>4, NothingTyped
    <3>2. defs' \in Seq(Defs) /\ Len(defs') <= MaxDefs
      BY <1>1, <2>8 DEF Grows
    <3> QED BY <3>1, <3>2, <2>4, <2>5, <2>6, <2>12, <2>13, <2>14 DEF Typed
  <2>16. \A i \in 1..3 : i = 1 \/ i = 2 \/ i = 3
    OBVIOUS
  <2>17. Ranged'
    <3>1. \A n \in Names : NoName[n] \in 0..Len(defs') /\ Domain.vars = NoName
      BY <2>5, <2>7, <2>8, NothingTyped DEF NoDef, Domain
    <3>2. \A n \in Names : domains[1].vars[n] \in 0..Len(defs') /\ meaning[1][n] \in 0..Len(defs')
      BY <3>1, <2>6 DEF FileScope
    <3>3. \A i \in 1..3, n \in Names : domains'[i].vars[n] \in 0..Len(defs') /\ meaning'[i][n] \in 0..Len(defs')
      BY <3>1, <3>2, <2>9, <2>11, <2>12, <2>13, <2>16
    <3>4. Len(pending'.ids) = 0
      BY <2>4, <2>7
    <3> QED BY <3>3, <3>4, <2>12 DEF Ranged
  <2>18. FileScope'
    <3>1. ~function'.renamed => meaning'[2] = domains'[2].vars
      BY <2>11, <2>12, <2>13, <2>14 DEF by, mine
    <3>2. ~pending'.open /\ pending'.ids = <<>>
      BY <2>4, <2>7
    <3> QED BY <3>1, <3>2, <2>5, <2>6, <2>12, <2>13, <2>14 DEF FileScope
  <2>19. Tracing(defs', exprs', function'.renamed, code', domains', meaning', pending', blocks')
    <3>1. PICK s : s = StartOf(defs', ReadyOf(exprs'))
      OBVIOUS
    <3>2. ToSet(exprs') \subseteq DefIds
      BY <2>5 DEF ToSet
    <3>3. /\ domains'[1].vars = NoName /\ meaning'[1] = NoName
          /\ \A n \in Names : domains'[1].structs[n] # NoDef => domains'[1].structs[n] \in ToSet(exprs')
      BY <2>5, <2>6, <2>12, <2>13 DEF FileScope
    <3>4. s[2].vars = by /\ s[2].vars \in Scopes
      BY <3>1, <2>8, <2>9
    <3>5. domains'[2] = [Domain EXCEPT !.vars = s[2].vars]
      BY <3>4, <2>10, <2>12
    <3>6. /\ s \in Stacks /\ Traced(defs', exprs', function'.renamed, <<>>, s)
          /\ Matches(defs', LateOf(exprs'), s, domains', meaning', pending)
          /\ Nested(defs', LateOf(exprs'), function'.renamed, s, <<Block("body")>>)
      BY <3>1, <3>2, <3>3, <3>4, <3>5, <2>7, <2>12, <2>13, StartMatches
    <3> QED BY <3>6, <2>4, <2>7 DEF Tracing
  <2> QED BY <1>1, <2>4, <2>15, <2>17, <2>18, <2>19, ParseStep
<1> QED BY <1>2, <1>3

-----------------------------------------------------------------------------
(* Statements of the body.                                                 *)

\* Statements that define nothing.
LEMMA StatementStep ==
    ASSUME DeclInv, phase = "parse", Len(domains) > 1,
           domains' \in Seq(Domains), meaning' \in Seq(Scopes), Len(meaning') = Len(domains'), Len(domains') >= 3,
           \A i \in 1..Len(domains'), n \in Names :
              domains'[i].vars[n] \in 0..Len(defs) /\ meaning'[i][n] \in 0..Len(defs),
           \A i \in 1..2 : domains'[i] = domains[i] /\ meaning'[i] = meaning[i],
           phase' = phase, defs' = defs, function' = function, exprs' = exprs, pending' = pending,
           ctx' = ctx, found' = found,
           size' \in 0..MaxSize, code' \in Seq(Visits), blocks' \in Seq(Blocks),
           NEW b \in Stacks, Traced(defs, exprs, function.renamed, code', b),
           Matches(defs, LateOf(exprs), b, domains', meaning', pending),
           Nested(defs, LateOf(exprs), function.renamed, b, blocks')
    PROVE  DeclInv'
<1>1. Typed /\ Ranged /\ FileScope
  BY DEF DeclInv
<1>2. Len(domains') > 0 /\ Len(domains') > 1
  OBVIOUS
<1>3. Typed'
  BY <1>1, <1>2 DEF Typed
<1>4. Ranged'
  BY <1>1 DEF Ranged
<1>5. function.hasBody
  BY <1>1 DEF FileScope
<1>6. FileScope'
  <2>1. 1 \in 1..2 /\ 2 \in 1..2
    OBVIOUS
  <2> QED BY <2>1, <1>1, <1>2, <1>5 DEF FileScope
<1>7. Tracing(defs', exprs', function'.renamed, code', domains', meaning', pending', blocks')
  BY DEF Tracing
<1> QED BY <1>3, <1>4, <1>6, <1>7, ParseStep

LEMMA RangedNearest ==
    ASSUME DeclInv, NEW n \in Names
    PROVE  Nearest(VarMaps, n) \in 0..Len(defs) /\ Nearest(meaning, n) \in 0..Len(defs)
<1>1. /\ Len(domains) \in Nat /\ Len(defs) \in Nat /\ DOMAIN domains = 1..Len(domains)
      /\ DOMAIN meaning = 1..Len(domains)
  BY DEF DeclInv, Typed
<1>2. NoDef \in 0..Len(defs)
  BY <1>1 DEF NoDef
<1>3. \A i \in 1..Len(domains) : domains[i].vars[n] \in 0..Len(defs) /\ meaning[i][n] \in 0..Len(defs)
  BY DEF DeclInv, Ranged
<1>4. PICK q : q = VarMaps
  OBVIOUS
<1>5. DOMAIN q = 1..Len(domains) /\ \A i \in 1..Len(domains) : q[i] = domains[i].vars
  BY <1>1, <1>4 DEF VarMaps
<1>6. Nearest(q, n) \in 0..Len(defs)
  <2>1. \A i \in 1..Len(domains) : q[i][n] \in 0..Len(defs)
    BY <1>3, <1>5
  <2> QED BY <2>1, <1>1, <1>2, <1>5, NearestTyped
<1>7. Nearest(meaning, n) \in 0..Len(defs)
  <2>1. \A i \in 1..Len(domains) : meaning[i][n] \in 0..Len(defs)
    BY <1>3
  <2> QED BY <2>1, <1>1, <1>2, NearestTyped
<1> QED BY <1>4, <1>6, <1>7

LEMMA UseTyped ==
    ASSUME NEW n \in Names, Nearest(VarMaps, n) \in DefIds, Nearest(meaning, n) \in DefIds, NEW v, v = Use(n)
    PROVE  /\ v.op = "use" /\ v.id = Nearest(VarMaps, n) /\ v.name = n /\ v.meant = Nearest(meaning, n)
           /\ v.own = FALSE /\ v \in Visits
<1>1. PICK w : w = Visit("use", Nearest(VarMaps, n))
  OBVIOUS
<1>2. w \in Visits /\ w.op = "use" /\ w.id = Nearest(VarMaps, n) /\ w.own = FALSE
  <2>1. w \in Visits
    BY <1>1, NothingTyped
  <2> QED BY <1>1, <2>1 DEF Visit
<1>3. v = [w EXCEPT !.name = n, !.meant = Nearest(meaning, n)]
  BY <1>1 DEF Use
<1> QED BY <1>2, <1>3 DEF Visits

\* A name in an expression finds what it should.
LEMMA UseIs ==
    ASSUME DeclInv, phase = "parse", Len(domains) > 1, ~pending.open, NEW n \in Names,
           NEW b \in Stacks, Matches(defs, LateOf(exprs), b, domains, meaning, pending), NEW v, v = Use(n)
    PROVE  /\ v \in Visits /\ v.op = "use" /\ Good(defs, LateOf(exprs), function.renamed, b, v)
           /\ Visited(defs, b, v) = b
<1>1. Typed /\ Ranged /\ FileScope
  BY DEF DeclInv
<1>2. domains \in Seq(Domains) /\ meaning \in Seq(Scopes) /\ Len(defs) \in Nat /\ Len(defs) <= MaxDefs
  BY <1>1 DEF Typed
<1>3. Nearest(VarMaps, n) \in 0..Len(defs) /\ Nearest(meaning, n) \in 0..Len(defs)
  BY RangedNearest
<1>4. 0..Len(defs) \subseteq DefIds
  BY <1>2, BoundsAssumption DEF DefIds
<1>5. /\ v.op = "use" /\ v.id = Nearest(VarMaps, n) /\ v.name = n /\ v.meant = Nearest(meaning, n) /\ ~v.own
      /\ v \in Visits
  BY <1>3, <1>4, UseTyped
<1>6. meaning[Len(b)][n] = domains[Len(b)].vars[n]
  <2>1. pending.ids = <<>>
    BY <1>1 DEF FileScope
  <2>2. meaning[Len(b)] = Entering(defs, <<>>, domains[Len(b)].vars)
    BY <2>1 DEF Matches
  <2>3. Len(b) \in 1..Len(domains)
    BY StackIs DEF Matches
  <2>4. domains[Len(b)] \in Domains
    BY <2>3, <1>2
  <2>5. domains[Len(b)].vars \in Scopes
    BY <2>4, DomainIs
  <2> QED BY <2>2, <2>5, EnteringNone
<1>7. /\ meaning[2] = domains[2].vars /\ ~LostIn(defs, LateOf(exprs), Nearest(meaning, n))
         => Looked(b, n) = Nearest(meaning, n)
      /\ ~LostIn(defs, LateOf(exprs), Nearest(VarMaps, n)) => Looked(b, n) = Nearest(VarMaps, n)
  <2>1. /\ /\ meaning[2] = domains[2].vars /\ ~LostIn(defs, LateOf(exprs), Nearest(meaning, n))
           => Looked(b, n) = Nearest(meaning, n)
        /\ /\ meaning[Len(b)][n] = domains[Len(b)].vars[n]
           /\ ~LostIn(defs, LateOf(exprs), Nearest([i \in DOMAIN domains |-> domains[i].vars], n))
           => Looked(b, n) = Nearest([i \in DOMAIN domains |-> domains[i].vars], n)
    BY <1>2, LookedUp
  <2> QED BY <2>1, <1>6 DEF VarMaps
<1>8. ~function.renamed => meaning[2] = domains[2].vars
  BY <1>1 DEF FileScope
<1>9. Good(defs, LateOf(exprs), function.renamed, b, v)
  BY <1>3, <1>5, <1>7, <1>8 DEF Good
<1>10. Visited(defs, b, v) = b
  BY <1>5 DEF Visited
<1> QED BY <1>5, <1>9, <1>10

LEMMA ReferenceInv ==
    ASSUME DeclInv, NEW n \in Names, Reference(n)
    PROVE  DeclInv'
<1>1. phase = "parse" /\ Len(domains) > 1 /\ ~pending.open /\ size < MaxSize
  BY DEF Reference, InBlock, InBody
<1>2. CASE Refuse
  BY <1>1, <1>2, RefuseInv
<1>3. CASE ~Refuse
  <2>1. /\ code' = Append(code, Use(n)) /\ size' = size + 1
        /\ phase' = phase /\ defs' = defs /\ domains' = domains /\ meaning' = meaning /\ function' = function
        /\ exprs' = exprs /\ blocks' = Started /\ pending' = pending /\ ctx' = ctx /\ found' = found
    BY <1>3 DEF Reference
  <2>2. Typed /\ Ranged
    BY DEF DeclInv
  <2>3. PICK b \in Stacks : /\ Traced(defs, exprs, function.renamed, code, b) /\ Len(b) = Len(domains)
                            /\ Matches(defs, LateOf(exprs), b, domains, meaning, pending)
                            /\ Nested(defs, LateOf(exprs), function.renamed, b, blocks)
                            /\ Len(domains) >= 3
    BY <1>1, BodyIs
  <2>4. PICK v : v = Use(n)
    OBVIOUS
  <2>5. v \in Visits /\ Good(defs, LateOf(exprs), function.renamed, b, v) /\ Visited(defs, b, v) = b
    BY <1>1, <2>3, <2>4, UseIs
  <2>6. defs \in Seq(Defs) /\ Len(defs) <= MaxDefs /\ code \in Seq(Visits)
    BY <2>2 DEF Typed
  <2>7. Traced(defs, exprs, function.renamed, Append(code, v), b)
    BY <2>3, <2>5, <2>6, TracedOne
  <2>8. Append(code, v) \in Seq(Visits) /\ code' = Append(code, v)
    BY <2>1, <2>4, <2>5, <2>6
  <2>9. size' \in 0..MaxSize
    BY <1>1, <2>1, <2>2, BoundsAssumption DEF Typed
  <2>10. /\ domains' \in Seq(Domains) /\ meaning' \in Seq(Scopes) /\ Len(meaning') = Len(domains')
         /\ Len(domains') >= 3
    BY <2>1, <2>2, <2>3 DEF Typed
  <2>11. \A i \in 1..Len(domains'), m \in Names :
            domains'[i].vars[m] \in 0..Len(defs) /\ meaning'[i][m] \in 0..Len(defs)
    BY <2>1, <2>2 DEF Ranged
  <2>12. /\ Traced(defs, exprs, function.renamed, code', b)
         /\ Matches(defs, LateOf(exprs), b, domains', meaning', pending)
         /\ Nested(defs, LateOf(exprs), function.renamed, b, blocks')
    <3>1. Nested(defs, LateOf(exprs), function.renamed, b, Started)
      BY <1>1, <2>3, StartedIs
    <3> QED BY <3>1, <2>1, <2>3, <2>7, <2>8
  <2>13. blocks' \in Seq(Blocks)
    BY <1>1, <2>1, StartedIs
  <2> QED BY <2>13, <1>1, <2>1, <2>8, <2>9, <2>10, <2>11, <2>12, StatementStep
<1> QED BY <1>2, <1>3

\* A scope more, in the parser and in generation.
LEMMA ScopeOpened ==
    ASSUME DeclInv, phase = "parse", Len(domains) > 1, ~pending.open, OpenScope,
           NEW b \in Stacks, Traced(defs, exprs, function.renamed, code, b), Len(b) = Len(domains),
           Matches(defs, LateOf(exprs), b, domains, meaning, pending), NEW y, y = Append(b, Context)
    PROVE  /\ domains' \in Seq(Domains) /\ meaning' \in Seq(Scopes) /\ Len(meaning') = Len(domains')
           /\ Len(domains') >= 3 /\ code' \in Seq(Visits)
           /\ \A i \in 1..Len(domains'), n \in Names :
                 domains'[i].vars[n] \in 0..Len(defs) /\ meaning'[i][n] \in 0..Len(defs)
           /\ \A i \in 1..2 : domains'[i] = domains[i] /\ meaning'[i] = meaning[i]
           /\ y \in Stacks /\ Len(y) = Len(b) + 1 /\ \A i \in 1..Len(b) : y[i] = b[i]
           /\ Traced(defs, exprs, function.renamed, code', y)
           /\ Matches(defs, LateOf(exprs), y, domains', meaning', pending)
<1>1. Typed /\ Ranged /\ FileScope
  BY DEF DeclInv
<1>2. /\ domains \in Seq(Domains) /\ meaning \in Seq(Scopes) /\ Len(domains) \in Nat /\ Len(meaning) = Len(domains)
      /\ Len(domains) >= 3 /\ code \in Seq(Visits) /\ defs \in Seq(Defs) /\ Len(defs) <= MaxDefs /\ Len(defs) \in Nat
  BY <1>1, BodyIs DEF Typed
<1>3. /\ domains' = Append(domains, Domain) /\ meaning' = Append(meaning, NoName)
      /\ code' = Append(code, Visit("open", NoDef))
  BY DEF OpenScope
<1>4. /\ domains' \in Seq(Domains) /\ Len(domains') = Len(domains) + 1 /\ domains'[Len(domains) + 1] = Domain
      /\ \A i \in 1..Len(domains) : domains'[i] = domains[i]
  BY <1>2, <1>3, NothingTyped, AppendProperties
<1>5. /\ meaning' \in Seq(Scopes) /\ Len(meaning') = Len(domains) + 1 /\ meaning'[Len(domains) + 1] = NoName
      /\ \A i \in 1..Len(domains) : meaning'[i] = meaning[i]
  <2>1. NoName \in Scopes
    BY NothingTyped
  <2>2. /\ Append(meaning, NoName) \in Seq(Scopes) /\ Len(Append(meaning, NoName)) = Len(meaning) + 1
        /\ Append(meaning, NoName)[Len(meaning) + 1] = NoName
        /\ \A i \in 1..Len(meaning) : Append(meaning, NoName)[i] = meaning[i]
    BY <2>1, <1>2, AppendProperties
  <2> QED BY <2>2, <1>2, <1>3
<1>6. \A i \in 1..Len(domains'), n \in Names :
         domains'[i].vars[n] \in 0..Len(defs) /\ meaning'[i][n] \in 0..Len(defs)
  <2> TAKE i \in 1..Len(domains'), n \in Names
  <2>1. CASE i = Len(domains) + 1
    <3>1. Domain.vars[n] = NoDef /\ NoName[n] = NoDef
      BY NothingTyped DEF Domain
    <3> QED BY <2>1, <3>1, <1>2, <1>4, <1>5 DEF NoDef
  <2>2. CASE i # Len(domains) + 1
    <3>1. i \in 1..Len(domains)
      BY <2>2, <1>2, <1>4
    <3> QED BY <3>1, <1>1, <1>4, <1>5 DEF Ranged
  <2> QED BY <2>1, <2>2
<1>7. PICK v : v = Visit("open", NoDef)
  OBVIOUS
<1>8. v \in Visits /\ v.op = "open" /\ Append(code, v) \in Seq(Visits)
  <2>1. v \in Visits
    BY <1>7, NothingTyped
  <2>2. v.op = "open"
    BY <1>7 DEF Visit
  <2> QED BY <2>1, <2>2, <1>2
<1>9. Good(defs, LateOf(exprs), function.renamed, b, v)
  BY <1>8 DEF Good
<1>10. y = Visited(defs, b, v)
  BY <1>8 DEF Visited
<1>11. Traced(defs, exprs, function.renamed, Append(code, v), y)
  BY <1>2, <1>8, <1>9, <1>10, TracedOne
<1>12. y \in Stacks /\ Len(y) = Len(b) + 1 /\ \A i \in 1..Len(b) : y[i] = b[i]
  BY OpenedIs
<1>13. pending.ids = <<>>
  BY <1>1 DEF FileScope
<1>14. Matches(defs, LateOf(exprs), y, domains', meaning', pending)
  BY <1>2, <1>3, <1>13, MatchesOpened
<1>15. \A i \in 1..2 : i \in 1..Len(domains)
  BY <1>2
<1>16. Len(domains') >= 3
  BY <1>2, <1>4
<1> QED BY <1>3, <1>4, <1>5, <1>6, <1>7, <1>8, <1>11, <1>12, <1>14, <1>15, <1>16

LEMMA OpenInv ==
    ASSUME DeclInv, InBlock, size < MaxSize, size' = size + 1, OpenScope, NEW k \in {"if", "start"},
           blocks' = Append(Started, Block(k)), UNCHANGED <<phase, defs, function, exprs, pending, ctx, found>>
    PROVE  DeclInv'
<1>1. phase = "parse" /\ Len(domains) > 1 /\ ~pending.open
  BY DEF InBlock, InBody
<1>2. Typed /\ Ranged
  BY DEF DeclInv
<1>3. PICK b \in Stacks : /\ Traced(defs, exprs, function.renamed, code, b) /\ Len(b) = Len(domains)
                          /\ Matches(defs, LateOf(exprs), b, domains, meaning, pending)
                          /\ Nested(defs, LateOf(exprs), function.renamed, b, blocks)
  BY <1>1, BodyIs
<1>4. PICK y : y = Append(b, Context)
  OBVIOUS
<1>5. /\ domains' \in Seq(Domains) /\ meaning' \in Seq(Scopes) /\ Len(meaning') = Len(domains')
      /\ Len(domains') >= 3 /\ code' \in Seq(Visits)
      /\ \A i \in 1..Len(domains'), n \in Names :
            domains'[i].vars[n] \in 0..Len(defs) /\ meaning'[i][n] \in 0..Len(defs)
      /\ \A i \in 1..2 : domains'[i] = domains[i] /\ meaning'[i] = meaning[i]
      /\ y \in Stacks /\ Len(y) = Len(b) + 1 /\ \A i \in 1..Len(b) : y[i] = b[i]
      /\ Traced(defs, exprs, function.renamed, code', y)
      /\ Matches(defs, LateOf(exprs), y, domains', meaning', pending)
  BY <1>1, <1>3, <1>4, ScopeOpened
<1>6. PICK bl : bl = Block(k)
  OBVIOUS
<1>7. bl \in Blocks /\ bl.kind = k
  <2>1. bl \in Blocks
    BY <1>6, NothingTyped
  <2> QED BY <2>1, <1>6 DEF Block
<1>8. /\ defs \in Seq(Defs) /\ Started \in Seq(Blocks)
      /\ Nested(defs, LateOf(exprs), function.renamed, b, Started)
  BY <1>1, <1>2, <1>3, StartedIs DEF Typed
<1>9. Nested(defs, LateOf(exprs), function.renamed, y, Append(Started, bl))
  BY <1>3, <1>5, <1>7, <1>8, DepthsOpened
<1>10. blocks' \in Seq(Blocks) /\ blocks' = Append(Started, bl)
  BY <1>6, <1>7, <1>8
<1>11. size' \in 0..MaxSize
  BY <1>2, BoundsAssumption DEF Typed
<1>12. Nested(defs, LateOf(exprs), function.renamed, y, blocks')
  BY <1>9, <1>10
<1>13. /\ phase' = phase /\ defs' = defs /\ function' = function /\ exprs' = exprs /\ pending' = pending
       /\ ctx' = ctx /\ found' = found
  OBVIOUS
<1> QED BY <1>1, <1>5, <1>10, <1>11, <1>12, <1>13, StatementStep

LEMMA BeginForBodyInv ==
    ASSUME DeclInv, NEW n \in Names, BeginForBody(n)
    PROVE  DeclInv'
<1>1. /\ phase = "parse" /\ Len(domains) > 1 /\ ~pending.open /\ size < MaxSize
      /\ Last(blocks).kind \in {"start", "started"}
  BY DEF BeginForBody, InBody
<1>2. CASE Refuse
  BY <1>1, <1>2, RefuseInv
<1>3. CASE ~Refuse
  <2>1. /\ blocks' = ReplaceLast(blocks, [kind |-> "for", use |-> Use(n)]) /\ size' = size + 1 /\ OpenScope
        /\ phase' = phase /\ defs' = defs /\ function' = function /\ exprs' = exprs /\ pending' = pending
        /\ ctx' = ctx /\ found' = found
    BY <1>3 DEF BeginForBody
  <2>2. Typed /\ Ranged
    BY DEF DeclInv
  <2>3. PICK b \in Stacks : /\ Traced(defs, exprs, function.renamed, code, b) /\ Len(b) = Len(domains)
                            /\ Matches(defs, LateOf(exprs), b, domains, meaning, pending)
                            /\ Nested(defs, LateOf(exprs), function.renamed, b, blocks)
    BY <1>1, BodyIs
  <2>4. PICK y : y = Append(b, Context)
    OBVIOUS
  <2>5. /\ domains' \in Seq(Domains) /\ meaning' \in Seq(Scopes) /\ Len(meaning') = Len(domains')
        /\ Len(domains') >= 3 /\ code' \in Seq(Visits)
        /\ \A i \in 1..Len(domains'), m \in Names :
              domains'[i].vars[m] \in 0..Len(defs) /\ meaning'[i][m] \in 0..Len(defs)
        /\ \A i \in 1..2 : domains'[i] = domains[i] /\ meaning'[i] = meaning[i]
        /\ y \in Stacks /\ Len(y) = Len(b) + 1 /\ \A i \in 1..Len(b) : y[i] = b[i]
        /\ Traced(defs, exprs, function.renamed, code', y)
        /\ Matches(defs, LateOf(exprs), y, domains', meaning', pending)
    BY <1>1, <2>1, <2>3, <2>4, ScopeOpened
  <2>6. PICK v : v = Use(n)
    OBVIOUS
  <2>7. v \in Visits /\ v.op = "use" /\ Good(defs, LateOf(exprs), function.renamed, b, v)
    BY <1>1, <2>3, <2>6, UseIs
  <2>8. PICK bl : bl = [kind |-> "for", use |-> v]
    OBVIOUS
  <2>9. bl \in Blocks /\ bl.kind = "for" /\ bl.use = v
    BY <2>7, <2>8 DEF Blocks
  <2>10. defs \in Seq(Defs) /\ blocks \in Seq(Blocks)
    BY <2>2 DEF Typed
  <2>11. Good(defs, LateOf(exprs), function.renamed, b, bl.use) /\ bl.use.op = "use"
    BY <2>7, <2>9
  <2>12. Nested(defs, LateOf(exprs), function.renamed, y, ReplaceLast(blocks, bl))
    BY <1>1, <2>3, <2>5, <2>9, <2>10, <2>11, DepthsInFor
  <2>13. blocks' = ReplaceLast(blocks, bl)
    BY <2>1, <2>6, <2>8
  <2>14. blocks' \in Seq(Blocks)
    <3>1. Len(blocks) > 0
      BY <2>3 DEF Nested, Depths
    <3>2. ReplaceLast(blocks, bl) \in Seq(Blocks)
      BY <3>1, <2>9, <2>10, ReplaceLastIs
    <3> QED BY <3>2, <2>13
  <2>15. size' \in 0..MaxSize
    BY <1>1, <2>1, <2>2, BoundsAssumption DEF Typed
  <2>16. Nested(defs, LateOf(exprs), function.renamed, y, blocks')
    BY <2>12, <2>13
  <2> QED BY <1>1, <2>1, <2>5, <2>14, <2>15, <2>16, StatementStep
<1> QED BY <1>2, <1>3

LEMMA ThreeMore ==
    ASSUME NEW S, NEW s \in Seq(S), NEW a \in S, NEW b \in S, NEW c \in S
    PROVE  s \o <<a, b, c>> = Append(Append(Append(s, a), b), c)
<1>1. PICK t : t = <<a, b, c>>
  OBVIOUS
<1>2. t \in Seq(S) /\ Len(t) = 3 /\ t[1] = a /\ t[2] = b /\ t[3] = c
  BY <1>1
<1>3. /\ s \o t \in Seq(S) /\ Len(s \o t) = Len(s) + Len(t)
      /\ \A i \in 1 .. Len(s) + Len(t) : (s \o t)[i] = IF i <= Len(s) THEN s[i] ELSE t[i - Len(s)]
  BY ONLY <1>2, s \in Seq(S), ConcatProperties, Zenon
<1>4. PICK u : u = Append(s, a)
  OBVIOUS
<1>5. u \in Seq(S) /\ Len(u) = Len(s) + 1 /\ u[Len(s) + 1] = a /\ \A i \in 1..Len(s) : u[i] = s[i]
  BY <1>4, AppendProperties
<1>6. PICK v : v = Append(u, b)
  OBVIOUS
<1>7. v \in Seq(S) /\ Len(v) = Len(u) + 1 /\ v[Len(u) + 1] = b /\ \A i \in 1..Len(u) : v[i] = u[i]
  BY <1>5, <1>6, AppendProperties
<1>8. PICK w : w = Append(v, c)
  OBVIOUS
<1>9. w \in Seq(S) /\ Len(w) = Len(v) + 1 /\ w[Len(v) + 1] = c /\ \A i \in 1..Len(v) : w[i] = v[i]
  BY <1>7, <1>8, AppendProperties
<1>10. PICK k \in Nat : k = Len(s)
  OBVIOUS
<1>11. /\ Len(s \o t) = k + 3 /\ Len(w) = k + 3
       /\ \A i \in 1..(k + 3) : (s \o t)[i] = IF i <= k THEN s[i] ELSE t[i - k]
  BY <1>2, <1>3, <1>5, <1>7, <1>9, <1>10
<1>12. w[k + 3] = c /\ w[k + 2] = b /\ w[k + 1] = a /\ \A i \in 1..k : w[i] = s[i]
  <2>1. Len(u) = k + 1 /\ Len(v) = k + 2
    BY <1>5, <1>7, <1>10
  <2>2. \A i \in 1..k : i \in 1..(k + 1) /\ i \in 1..(k + 2)
    BY <1>10
  <2>3. k + 1 \in 1..(k + 1) /\ k + 1 \in 1..(k + 2) /\ k + 2 \in 1..(k + 2)
    BY <1>10
  <2> QED BY <2>1, <2>2, <2>3, <1>5, <1>7, <1>9, <1>10
<1>13. \A i \in 1..(k + 3) : (s \o t)[i] = w[i]
  <2> TAKE i \in 1..(k + 3)
  <2>1. i \in 1..k \/ i = k + 1 \/ i = k + 2 \/ i = k + 3
    BY <1>10
  <2> QED BY <2>1, <1>2, <1>11, <1>12
<1>14. s \o t = w
  BY <1>3, <1>9, <1>11, <1>13, SeqEqual
<1> QED BY <1>1, <1>4, <1>6, <1>8, <1>14

\* What generation visits at the end of an if or a for, and where that leads.
LEMMA BlockEnds ==
    ASSUME DeclInv, phase = "parse", Len(domains) > 1, Len(blocks) > 1, Last(blocks).kind \in {"if", "for"},
           NEW b \in Stacks, Traced(defs, exprs, function.renamed, code, b),
           Nested(defs, LateOf(exprs), function.renamed, b, blocks), Len(b) >= 3,
           NEW c, c = (IF Last(blocks).kind = "if" THEN Append(code, Visit("close", NoDef))
                       ELSE code \o <<Visit("close", NoDef), Last(blocks).use, Visit("close", NoDef)>>)
    PROVE  /\ c \in Seq(Visits)
           /\ \E y \in Stacks : /\ Traced(defs, exprs, function.renamed, c, y)
                                /\ Len(y) = Len(b) - Width(Last(blocks)) /\ \A i \in 1..Len(y) : y[i] = b[i]
                                /\ Len(y) >= 3
                                /\ Nested(defs, LateOf(exprs), function.renamed, y, Front(blocks))
<1>1. Typed
  BY DEF DeclInv
<1>2. /\ defs \in Seq(Defs) /\ Len(defs) <= MaxDefs /\ code \in Seq(Visits) /\ blocks \in Seq(Blocks)
      /\ Len(b) \in Nat /\ Len(b) > 1
  BY <1>1, StackIs DEF Typed
<1>3. PICK v : v = Visit("close", NoDef)
  OBVIOUS
<1>4. v \in Visits
  BY <1>3, NothingTyped
<1>5. v.op = "close"
  BY <1>3 DEF Visit
<1>6. \A x \in Stacks : Len(x) > 1 => Good(defs, LateOf(exprs), function.renamed, x, v)
  BY <1>5 DEF Good
<1>7. \A x : Visited(defs, x, v) = Front(x)
  BY <1>5 DEF Visited
<1>8. PICK x : x = Front(b)
  OBVIOUS
<1>9. x \in Stacks /\ Len(x) = Len(b) - 1 /\ \A i \in 1..(Len(b) - 1) : x[i] = b[i]
  BY <1>2, <1>8, ClosedIs
<1>10. Good(defs, LateOf(exprs), function.renamed, b, v) /\ x = Visited(defs, b, v)
  BY <1>2, <1>6, <1>7, <1>8
<1>11. Traced(defs, exprs, function.renamed, Append(code, v), x)
  BY <1>2, <1>4, <1>10, TracedOne
<1>12. PICK bl : bl = Last(blocks)
  OBVIOUS
<1>13. bl \in Blocks
  BY <1>2, <1>12, LastIs
<1>14. CASE bl.kind = "if"
  <2>1. Width(Last(blocks)) = 1
    BY <1>12, <1>14 DEF Width
  <2>2. Len(x) = Len(b) - Width(Last(blocks)) /\ \A i \in 1..Len(x) : x[i] = b[i]
    BY <2>1, <1>9
  <2>3. Nested(defs, LateOf(exprs), function.renamed, x, Front(blocks)) /\ Len(x) >= 3
    BY <2>2, <1>2, <1>9, DepthsClosed
  <2>4. c = Append(code, v) /\ c \in Seq(Visits)
    BY <1>2, <1>3, <1>4, <1>12, <1>14
  <2> QED BY <2>2, <2>3, <2>4, <1>9, <1>11, <1>12, <1>14
<1>15. CASE bl.kind # "if"
  <2>1. PICK y : y = Front(x)
    OBVIOUS
  <2>2. Len(x) > 1
    BY <1>2, <1>9
  <2>3. y \in Stacks /\ Len(y) = Len(x) - 1 /\ \A i \in 1..(Len(x) - 1) : y[i] = x[i]
    BY <2>1, <2>2, <1>9, ClosedIs
  <2>4. \A i \in 1..(Len(x) - 1) : i \in 1..(Len(b) - 1)
    BY <1>2, <1>9
  <2>5. Len(y) = Len(b) - 2 /\ \A i \in 1..Len(y) : y[i] = b[i]
    BY <2>3, <2>4, <1>2, <1>9
  <2>7. bl.kind = "for"
    BY <1>12, <1>15
  <2>8. Width(Last(blocks)) = 2
    BY <2>7, <1>12 DEF Width
  <2>9. Len(y) = Len(b) - Width(Last(blocks))
    BY <2>5, <2>8
  <2>10. /\ Nested(defs, LateOf(exprs), function.renamed, y, Front(blocks)) /\ Len(y) >= 3
         /\ Last(blocks).kind = "for" => /\ Last(blocks).use.op = "use"
                /\ Good(defs, LateOf(exprs), function.renamed, SubSeq(b, 1, Len(b) - 1), Last(blocks).use)
    BY <2>3, <2>5, <2>9, <1>2, DepthsClosed
  <2>11. PICK u : u = bl.use
    OBVIOUS
  <2>12. u \in Visits /\ u.op = "use" /\ Good(defs, LateOf(exprs), function.renamed, x, u)
    <3>1. u \in Visits
      BY <2>11, <1>13 DEF Blocks
    <3>2. SubSeq(b, 1, Len(b) - 1) = x
      BY <1>8 DEF Front
    <3> QED BY <3>1, <3>2, <2>7, <2>10, <2>11, <1>12
  <2>13. x = Visited(defs, x, u)
    BY <2>12 DEF Visited
  <2>14. Append(code, v) \in Seq(Visits) /\ Append(Append(code, v), u) \in Seq(Visits)
    BY <2>12, <1>2, <1>4
  <2>15. Traced(defs, exprs, function.renamed, Append(Append(code, v), u), x)
    BY <2>12, <2>13, <2>14, <1>2, <1>11, TracedOne
  <2>16. Good(defs, LateOf(exprs), function.renamed, x, v) /\ y = Visited(defs, x, v)
    BY <2>1, <2>2, <1>6, <1>7, <1>9
  <2>17. Traced(defs, exprs, function.renamed, Append(Append(Append(code, v), u), v), y)
    BY <2>14, <2>15, <2>16, <1>2, <1>4, TracedOne
  <2>18. c = Append(Append(Append(code, v), u), v)
    <3>1. code \o <<v, u, v>> = Append(Append(Append(code, v), u), v)
      BY <2>12, <1>2, <1>4, ThreeMore
    <3> QED BY <3>1, <2>11, <1>3, <1>12, <1>15
  <2>19. c \in Seq(Visits)
    <3>1. PICK e \in Seq(Visits) : e = Append(Append(code, v), u)
      BY <2>14
    <3>2. Append(e, v) \in Seq(Visits)
      BY <3>1, <1>4
    <3> QED BY <3>1, <3>2, <2>18
  <2> QED BY <2>3, <2>5, <2>7, <2>9, <2>10, <2>17, <2>18, <2>19, <1>12
<1> QED BY <1>14, <1>15

LEMMA EndBlockInv ==
    ASSUME DeclInv, EndBlock
    PROVE  DeclInv'
<1>1. /\ phase = "parse" /\ Len(domains) > 1 /\ ~pending.open /\ Last(blocks).kind \in {"if", "for"}
      /\ blocks' = Front(blocks)
      /\ phase' = phase /\ defs' = defs /\ function' = function /\ exprs' = exprs /\ pending' = pending
      /\ size' = size /\ ctx' = ctx /\ found' = found
  BY DEF EndBlock, InBody
<1>2. Typed /\ Ranged /\ FileScope
  BY DEF DeclInv
<1>3. PICK b \in Stacks : /\ Traced(defs, exprs, function.renamed, code, b) /\ Len(b) = Len(domains)
                          /\ Matches(defs, LateOf(exprs), b, domains, meaning, pending)
                          /\ Nested(defs, LateOf(exprs), function.renamed, b, blocks)
                          /\ Len(domains) >= 3 /\ Len(domains) \in Nat /\ Len(meaning) = Len(domains)
  BY <1>1, BodyIs
<1>4. code' = IF Last(blocks).kind = "if" THEN Append(code, Visit("close", NoDef))
              ELSE code \o <<Visit("close", NoDef), Last(blocks).use, Visit("close", NoDef)>>
  BY DEF EndBlock
<1>23. Len(blocks) > 1
  <2>1. PICK d \in [1..Len(blocks) -> Nat] : Depths(defs, LateOf(exprs), function.renamed, b, blocks, d)
    BY <1>3 DEF Nested
  <2>2. Len(blocks) > 0 /\ blocks[1].kind = "body"
    BY <2>1 DEF Depths
  <2>3. blocks \in Seq(Blocks)
    BY <1>2 DEF Typed
  <2>4. blocks[Len(blocks)].kind \in {"if", "for"}
    BY <1>1 DEF Last
  <2>5. Len(blocks) # 1
    BY <2>2, <2>4
  <2>6. PICK k \in Nat : k = Len(blocks)
    BY <2>3
  <2>7. k > 1
    BY <2>2, <2>5, <2>6
  <2> QED BY <2>6, <2>7
<1>5. /\ code' \in Seq(Visits)
      /\ \E y \in Stacks : /\ Traced(defs, exprs, function.renamed, code', y)
                           /\ Len(y) = Len(b) - Width(Last(blocks)) /\ \A i \in 1..Len(y) : y[i] = b[i]
                           /\ Len(y) >= 3
                           /\ Nested(defs, LateOf(exprs), function.renamed, y, Front(blocks))
  BY <1>1, <1>3, <1>4, <1>23, BlockEnds
<1>6. PICK y \in Stacks : /\ Traced(defs, exprs, function.renamed, code', y)
                          /\ Len(y) = Len(b) - Width(Last(blocks)) /\ \A i \in 1..Len(y) : y[i] = b[i]
                          /\ Len(y) >= 3
                          /\ Nested(defs, LateOf(exprs), function.renamed, y, Front(blocks))
  BY <1>5
<1>7. PICK n \in Nat : n = Len(y)
  BY <1>6, StackIs
<1>8. n = Len(domains) - Width(Last(blocks)) /\ n >= 3 /\ n < Len(domains)
  <2>1. Width(Last(blocks)) \in {1, 2}
    BY DEF Width
  <2> QED BY <2>1, <1>3, <1>6, <1>7
<1>9. domains' = SubSeq(domains, 1, n) /\ meaning' = SubSeq(meaning, 1, n)
  <2>1. CASE Last(blocks).kind = "if"
    <3>1. n = Len(domains) - 1
      BY <2>1, <1>8 DEF Width
    <3> QED BY <2>1, <3>1, <1>3 DEF EndBlock, Shut
  <2>2. CASE Last(blocks).kind = "for"
    <3>1. n = Len(domains) - 2
      BY <2>2, <1>8 DEF Width
    <3> QED BY <2>2, <3>1, <1>3 DEF EndBlock, Shut
  <2> QED BY <2>1, <2>2, <1>1
<1>10. domains \in Seq(Domains) /\ meaning \in Seq(Scopes) /\ blocks \in Seq(Blocks)
  BY <1>2 DEF Typed
<1>11. n \in 0..Len(domains) /\ n \in 0..Len(meaning)
  BY <1>3, <1>8
<1>12. domains' \in Seq(Domains) /\ Len(domains') = n /\ \A i \in 1..n : domains'[i] = domains[i]
  BY <1>9, <1>10, <1>11, PrefixIs
<1>13. meaning' \in Seq(Scopes) /\ Len(meaning') = n /\ \A i \in 1..n : meaning'[i] = meaning[i]
  BY <1>9, <1>10, <1>11, PrefixIs
<1>14. \A i \in 1..n : i \in 1..Len(domains)
  BY <1>3, <1>8
<1>15. \A i \in 1..Len(domains'), m \in Names :
          domains'[i].vars[m] \in 0..Len(defs) /\ meaning'[i][m] \in 0..Len(defs)
  BY <1>2, <1>12, <1>13, <1>14 DEF Ranged
<1>16. \A i \in 1..2 : domains'[i] = domains[i] /\ meaning'[i] = meaning[i]
  <2>1. \A i \in 1..2 : i \in 1..n
    BY <1>8
  <2> QED BY <2>1, <1>12, <1>13
<1>17. pending.ids = <<>>
  BY <1>1, <1>2 DEF FileScope
<1>18. Matches(defs, LateOf(exprs), y, SubSeq(domains, 1, n), SubSeq(meaning, 1, n), pending)
  <2>1. n < Len(b)
    BY <1>3, <1>8
  <2>2. Matches(defs, LateOf(exprs), b, domains, meaning, pending)
    BY <1>3
  <2>3. Len(y) = n /\ \A i \in 1..n : y[i] = b[i]
    BY <1>6, <1>7
  <2>4. ~pending.open /\ n >= 3
    BY <1>1, <1>8
  <2> QED BY <2>1, <2>2, <2>3, <2>4, <1>10, <1>17, MatchesCut
<1>19. Matches(defs, LateOf(exprs), y, domains', meaning', pending)
  BY <1>9, <1>18
<1>20. Len(domains') >= 3 /\ Len(meaning') = Len(domains')
  BY <1>8, <1>12, <1>13
<1>21. blocks' \in Seq(Blocks) /\ size' \in 0..MaxSize
  <2>1. Len(blocks) > 0
    BY <1>10, <1>23
  <2>2. Front(blocks) \in Seq(Blocks)
    BY <2>1, <1>10, FrontIs
  <2> QED BY <2>2, <1>1, <1>2 DEF Typed
<1>22. Nested(defs, LateOf(exprs), function.renamed, y, blocks')
  BY <1>1, <1>6
<1> QED BY <1>1, <1>5, <1>6, <1>12, <1>13, <1>15, <1>16, <1>19, <1>20, <1>21, <1>22, StatementStep

-----------------------------------------------------------------------------
(* Definitions of variables.                                               *)

LEMMA BeginVarDefInv ==
    ASSUME DeclInv, NEW t \in Types, BeginVarDef(t)
    PROVE  DeclInv'
<1>1. phase = "parse" /\ Len(domains) > 1 /\ ~pending.open
  BY DEF BeginVarDef, InBlock, InBody
<1>2. CASE Refuse
  BY <1>1, <1>2, RefuseInv
<1>3. CASE ~Refuse
  <2>1. /\ pending' = [open |-> TRUE, type |-> TypeNamed(t), ids |-> <<>>]
        /\ phase' = phase /\ defs' = defs /\ domains' = domains /\ meaning' = meaning /\ function' = function
        /\ exprs' = exprs /\ blocks' = blocks /\ size' = size /\ code' = code /\ ctx' = ctx /\ found' = found
    BY <1>3 DEF BeginVarDef
  <2>2. Typed /\ Ranged /\ FileScope
    BY DEF DeclInv
  <2>3. PICK b \in Stacks : /\ Traced(defs, exprs, function.renamed, code, b) /\ Len(b) = Len(domains)
                            /\ Matches(defs, LateOf(exprs), b, domains, meaning, pending)
                            /\ Nested(defs, LateOf(exprs), function.renamed, b, blocks)
    BY <1>1, BodyIs
  <2>4. TypeNamed(t) \in DefTypes /\ (Ready(b, TypeNamed(t)) \/ TypeNamed(t) \in LateOf(exprs))
    BY <2>3, TypeFound
  <2>5. pending'.open /\ pending'.type = TypeNamed(t) /\ pending'.ids = <<>> /\ pending' \in Pendings
    <3>1. <<>> \in Seq(DefIds)
      OBVIOUS
    <3> QED BY <3>1, <2>1, <2>4 DEF Pendings
  <2>6. pending.ids = <<>> /\ function.hasBody
    BY <1>1, <2>2 DEF FileScope
  <2>7. Matches(defs, LateOf(exprs), b, domains, meaning, pending')
    BY <2>3, <2>4, <2>5, <2>6 DEF Matches
  <2>8. Typed'
    BY <2>1, <2>2, <2>5 DEF Typed
  <2>9. Ranged'
    <3>1. Len(pending'.ids) = 0
      BY <2>5
    <3> QED BY <3>1, <2>1, <2>2 DEF Ranged
  <2>10. FileScope'
    BY <1>1, <2>1, <2>2, <2>5, <2>6 DEF FileScope
  <2>11. Tracing(defs, exprs, function.renamed, code, domains, meaning, pending', blocks)
    BY <2>3, <2>7 DEF Tracing
  <2> QED BY <1>1, <2>1, <2>8, <2>9, <2>10, <2>11, ParseStep
<1> QED BY <1>2, <1>3

LEMMA EndVarDefInv ==
    ASSUME DeclInv, EndVarDef
    PROVE  DeclInv'
<1>1. /\ phase = "parse" /\ phase' \in {"parse", "stopped"} /\ pending.ids # <<>>
      /\ domains' = ReplaceLast(domains, [Last(domains) EXCEPT !.vars = EntersAll(@)])
      /\ pending' = NothingPending
      /\ defs' = defs /\ meaning' = meaning /\ function' = function
      /\ exprs' = exprs /\ blocks' = Started /\ size' = size /\ code' = code /\ ctx' = ctx /\ found' = found
  BY DEF EndVarDef
<1>2. Typed /\ Ranged /\ FileScope
  BY DEF DeclInv
<1>3. pending.open /\ Len(domains) > 1 /\ function.hasBody
  BY <1>1, <1>2 DEF FileScope
<1>4. PICK b \in Stacks : /\ Traced(defs, exprs, function.renamed, code, b) /\ Len(b) = Len(domains)
                          /\ Matches(defs, LateOf(exprs), b, domains, meaning, pending)
                          /\ Nested(defs, LateOf(exprs), function.renamed, b, blocks)
                          /\ Len(domains) >= 3 /\ Len(domains) \in Nat /\ Len(meaning) = Len(domains)
  BY <1>1, <1>3, BodyIs
<1>5. Last(domains) \in Domains /\ Last(domains) = domains[Len(domains)] /\ Len(domains) \in 1..Len(domains)
  BY <1>2, <1>4, LastIs DEF Typed
<1>6. EntersAll(Last(domains).vars) = meaning[Len(domains)]
  <2>1. meaning[Len(domains)] = Entering(defs, pending.ids, domains[Len(domains)].vars)
    BY <1>4 DEF Matches
  <2> QED BY <2>1, <1>5 DEF EntersAll, Entering
<1>7. meaning[Len(domains)] \in Scopes
  BY <1>2, <1>4, <1>5 DEF Typed
<1>8. PICK e : e = [Last(domains) EXCEPT !.vars = EntersAll(@)]
  OBVIOUS
<1>9. e \in Domains /\ e.vars = meaning[Len(domains)] /\ e.structs = Last(domains).structs
  BY <1>5, <1>6, <1>7, <1>8 DEF Domains
<1>10. /\ domains' \in Seq(Domains) /\ Len(domains') = Len(domains) /\ domains'[Len(domains)] = e
       /\ \A i \in 1..(Len(domains) - 1) : domains'[i] = domains[i]
       /\ \A i \in 1..Len(domains) : i \in 1..(Len(domains) - 1) \/ i = Len(domains)
  BY <1>1, <1>2, <1>8, <1>9, DomainsReplaced
<1>11. NothingPending \in Pendings /\ ~NothingPending.open /\ NothingPending.ids = <<>>
  <2>1. NothingPending \in Pendings
    BY NothingTyped
  <2> QED BY <2>1 DEF NothingPending
<1>12. Typed'
  <2>1. blocks' \in Seq(Blocks)
    BY <1>1, <1>3, StartedIs
  <2> QED BY <2>1, <1>1, <1>2, <1>10, <1>11 DEF Typed
<1>13. Ranged'
  <2>1. Len(pending'.ids) = 0
    BY <1>1, <1>11
  <2>2. \A i \in 1..Len(domains), n \in Names :
           domains[i].vars[n] \in 0..Len(defs) /\ meaning[i][n] \in 0..Len(defs)
    BY <1>2 DEF Ranged
  <2>3. \A i \in 1..Len(domains'), n \in Names :
           domains'[i].vars[n] \in 0..Len(defs) /\ meaning[i][n] \in 0..Len(defs)
    <3> TAKE i \in 1..Len(domains'), n \in Names
    <3>1. CASE i = Len(domains)
      BY <3>1, <2>2, <1>5, <1>9, <1>10
    <3>2. CASE i # Len(domains)
      <4>1. i \in 1..(Len(domains) - 1) /\ i \in 1..Len(domains)
        BY <3>2, <1>10
      <4> QED BY <4>1, <2>2, <1>10
    <3> QED BY <3>1, <3>2
  <2> QED BY <2>1, <2>3, <1>1 DEF Ranged
<1>14. FileScope'
  <2>1. 1 \in 1..(Len(domains) - 1) /\ 2 \in 1..(Len(domains) - 1)
    BY <1>4
  <2>2. domains'[1] = domains[1] /\ domains'[2] = domains[2]
    BY <2>1, <1>10
  <2>3. ~pending'.open /\ pending'.ids = <<>>
    BY <1>1, <1>11
  <2> QED BY <2>2, <2>3, <1>1, <1>2, <1>3, <1>10 DEF FileScope
<1>15. Matches(defs, LateOf(exprs), b, domains', meaning, pending')
  <2>1. \A i \in 1..Len(b) : Level(defs, LateOf(exprs), i, b[i], domains[i], meaning[i])
    BY <1>4 DEF Matches
  <2>2. Level(defs, LateOf(exprs), Len(b), b[Len(b)], domains'[Len(b)], meaning[Len(b)])
    <3>1. Level(defs, LateOf(exprs), Len(b), b[Len(b)], domains[Len(b)], meaning[Len(b)])
      BY <2>1, <1>4, <1>5
    <3>2. Len(b) # 2
      BY <1>4
    <3> QED BY <3>1, <3>2, <1>4, <1>5, <1>9, <1>10 DEF Level
  <2>3. \A i \in 1..Len(b) : Level(defs, LateOf(exprs), i, b[i], domains'[i], meaning[i])
    BY <2>1, <2>2, <1>4, <1>10
  <2>4. meaning[Len(b)] = Entering(defs, pending'.ids, domains'[Len(b)].vars)
    <3>1. domains'[Len(b)].vars = meaning[Len(b)] /\ meaning[Len(b)] \in Scopes
      BY <1>4, <1>7, <1>9, <1>10
    <3> QED BY <3>1, <1>1, <1>11, EnteringNone
  <2>5. \A i \in 1..(Len(b) - 1) : i # 2 => domains'[i].vars = meaning[i]
    BY <1>4, <1>10 DEF Matches
  <2>6. Len(domains') = Len(b) /\ Len(meaning) = Len(b) /\ Len(b) >= 3 /\ ~pending'.open
    BY <1>1, <1>4, <1>10, <1>11
  <2> QED BY <2>3, <2>4, <2>5, <2>6 DEF Matches
<1>16. Tracing(defs, exprs, function.renamed, code, domains', meaning, pending', blocks')
  <2>1. Nested(defs, LateOf(exprs), function.renamed, b, blocks')
    BY <1>1, <1>3, <1>4, StartedIs
  <2> QED BY <2>1, <1>4, <1>15 DEF Tracing
<1> QED BY <1>1, <1>12, <1>13, <1>14, <1>16, ParseStep

LEMMA EnteringOne ==
    ASSUME NEW D \in Seq(Defs), NEW d \in Defs, NEW ids \in Seq(DefIds), \A k \in 1..Len(ids) : ids[k] \in 1..Len(D),
           NEW map \in Scopes, NEW id \in Nat, id - 1 = Len(D)
    PROVE  Entering(Append(D, d), Append(ids, id), map) = [Entering(D, ids, map) EXCEPT ![d.name] = id]
<1>0. id = Len(D) + 1
  OBVIOUS
<1>1. PICK E : E = Append(D, d)
  OBVIOUS
<1>2. /\ Len(D) \in Nat /\ id \in Nat /\ E[id] = d /\ \A i \in 1..Len(D) : E[i] = D[i]
  BY <1>0, <1>1, GrowsAppend
<1>3. ToSet(Append(ids, id)) = ToSet(ids) \cup {id}
  <2>1. /\ Len(Append(ids, id)) = Len(ids) + 1 /\ Append(ids, id)[Len(ids) + 1] = id /\ Len(ids) \in Nat
        /\ \A i \in 1..Len(ids) : Append(ids, id)[i] = ids[i]
        /\ DOMAIN Append(ids, id) = 1..(Len(ids) + 1) /\ DOMAIN ids = 1..Len(ids)
    <3>1. ids \in Seq(DefIds \cup {id}) /\ id \in DefIds \cup {id}
      <4>1. DefIds \subseteq DefIds \cup {id}
        OBVIOUS
      <4> QED BY <4>1, SeqMonotonic
    <3> QED BY <3>1, AppendProperties
  <2>2. \A i \in 1..(Len(ids) + 1) : i \in 1..Len(ids) \/ i = Len(ids) + 1
    BY <2>1
  <2>3. 1..Len(ids) \subseteq 1..(Len(ids) + 1) /\ Len(ids) + 1 \in 1..(Len(ids) + 1)
    BY <2>1
  <2> QED BY <2>1, <2>2, <2>3 DEF ToSet
<1>4. \A i \in ToSet(ids) : i \in 1..Len(D)
  <2>1. DOMAIN ids = 1..Len(ids)
    OBVIOUS
  <2> QED BY <2>1 DEF ToSet
<1>5. PICK w : w = Append(ids, id)
  OBVIOUS
<1>6. \A n \in Names : n # d.name => {i \in ToSet(w) : E[i].name = n} = {i \in ToSet(ids) : D[i].name = n}
  BY <1>2, <1>3, <1>4, <1>5
<1>7. Max({i \in ToSet(w) : E[i].name = d.name}) = id /\ {i \in ToSet(w) : E[i].name = d.name} # {}
  <2>1. PICK T : T = {i \in ToSet(w) : E[i].name = d.name}
    OBVIOUS
  <2>2. id \in T
    BY <2>1, <1>2, <1>3, <1>5
  <2>3. \A y \in T : y \in Int /\ y <= id
    BY <2>1, <1>2, <1>3, <1>4, <1>5
  <2>4. Max(T) = id
    BY <2>2, <2>3, MaxIs
  <2> QED BY <2>1, <2>2, <2>4
<1>8. PICK g : g = Entering(D, ids, map)
  OBVIOUS
<1>9. DOMAIN g = Names /\ g = [n \in Names |-> g[n]]
  BY <1>8 DEF Entering
<1>10. \A n \in Names : Entering(E, w, map)[n] = IF n = d.name THEN id ELSE g[n]
  <2> TAKE n \in Names
  <2>1. CASE n = d.name
    BY <2>1, <1>7 DEF Entering
  <2>2. CASE n # d.name
    BY <2>2, <1>6, <1>8 DEF Entering
  <2> QED BY <2>1, <2>2
<1>11. Entering(E, w, map) = [n \in Names |-> Entering(E, w, map)[n]]
  BY DEF Entering
<1>12. d.name \in Names
  BY DEF Defs
<1> QED BY <1>1, <1>5, <1>8, <1>9, <1>10, <1>11, <1>12

\* What a declarator adds: a definition, and one more to the names that C has.
NextId == Len(defs) + 1
NewDef(n) == Def("variable", n, pending.type, \E i \in ToSet(pending.ids) : defs[i].name = n)
Entered(n) == ReplaceLast(meaning, Enter(Last(meaning), n, NextId))

LEMMA MeaningReplaced ==
    ASSUME DeclInv, NEW n \in Names, NextId <= MaxDefs
    PROVE  /\ Entered(n) \in Seq(Scopes) /\ Len(Entered(n)) = Len(meaning)
           /\ NextId \in DefIds /\ NextId # NoDef
           /\ Entered(n)[Len(meaning)] = [meaning[Len(meaning)] EXCEPT ![n] = NextId]
           /\ \A i \in 1..(Len(meaning) - 1) : Entered(n)[i] = meaning[i]
           /\ \A i \in 1..Len(Entered(n)), x \in Names : Entered(n)[i][x] \in 0..NextId
<1> DEFINE id == NextId
           m == Entered(n)
<1>0. id = Len(defs) + 1 /\ m = ReplaceLast(meaning, Enter(Last(meaning), n, id)) /\ id <= MaxDefs
  BY DEF NextId, Entered
<1> HIDE DEF id, m
<1>1. /\ meaning \in Seq(Scopes) /\ Len(meaning) \in Nat /\ Len(meaning) > 0 /\ Len(defs) \in Nat /\ MaxDefs \in Nat
  BY BoundsAssumption DEF DeclInv, Typed
<1>2. id \in DefIds /\ id # NoDef /\ id \in Nat
  BY <1>0, <1>1 DEF DefIds, NoDef
<1>3. Last(meaning) = meaning[Len(meaning)] /\ Last(meaning) \in Scopes
  BY <1>1, LastIs
<1>4. PICK e : e = Enter(Last(meaning), n, id)
  OBVIOUS
<1>5. e = [meaning[Len(meaning)] EXCEPT ![n] = id] /\ e \in Scopes
  BY <1>2, <1>3, <1>4 DEF Enter, Scopes
<1>6. /\ m \in Seq(Scopes) /\ Len(m) = Len(meaning) /\ m[Len(meaning)] = e
      /\ \A i \in 1..(Len(meaning) - 1) : m[i] = meaning[i]
  <2>1. /\ ReplaceLast(meaning, e) \in Seq(Scopes) /\ Len(ReplaceLast(meaning, e)) = Len(meaning)
        /\ \A i \in 1..(Len(meaning) - 1) : ReplaceLast(meaning, e)[i] = meaning[i]
        /\ ReplaceLast(meaning, e)[Len(meaning)] = e
    <3>1. e \in Scopes
      BY <1>5
    <3> QED BY <3>1, <1>1, ReplaceLastIs
  <2> QED BY <2>1, <1>0, <1>4
<1>7. Len(domains) = Len(meaning) /\ \A i \in 1..Len(meaning), x \in Names : meaning[i][x] \in 0..Len(defs)
  BY DEF DeclInv, Typed, Ranged
<1>8. ASSUME NEW i \in 1..Len(m), NEW x \in Names PROVE m[i][x] \in 0..id
  <2>1. i \in 1..Len(meaning) /\ meaning[i][x] \in 0..Len(defs)
    BY <1>6, <1>7
  <2>2. meaning[i][x] \in 0..id
    BY <2>1, <1>0, <1>1
  <2>3. CASE i = Len(meaning)
    <3>1. m[i][x] = IF x = n THEN id ELSE meaning[i][x]
      BY <2>3, <1>3, <1>5, <1>6 DEF Scopes
    <3> QED BY <3>1, <2>2, <1>2
  <2>4. CASE i # Len(meaning)
    <3>1. i \in 1..(Len(meaning) - 1)
      BY <2>1, <2>4, <1>1
    <3> QED BY <3>1, <2>2, <1>6
  <2> QED BY <2>3, <2>4
<1> QED BY <1>2, <1>5, <1>6, <1>8 DEF id, m

\* A declarator without its initial value.
LEMMA DeclaredIs ==
    ASSUME DeclInv, phase = "parse", pending.open, Len(domains) > 1, NEW n \in Names, AcceptsDeclarator(n),
           NextId <= MaxDefs,
           NEW p, p.open = pending.open, p.type = pending.type, p.ids = Append(pending.ids, NextId)
    PROVE  /\ NewDef(n) \in Defs /\ NewDef(n).kind = "variable" /\ Visit("var", NextId) \in Visits
           /\ \E y \in Stacks :
                 /\ Traced(Append(defs, NewDef(n)), exprs, function.renamed, Append(code, Visit("var", NextId)), y)
                 /\ Len(y) = Len(domains)
                 /\ Matches(Append(defs, NewDef(n)), LateOf(exprs), y, domains, Entered(n), p)
                 /\ Nested(Append(defs, NewDef(n)), LateOf(exprs), function.renamed, y, blocks)
<1> DEFINE id == NextId
           d == NewDef(n)
           m == Entered(n)
           v == Visit("var", id)
<1>0. /\ id = Len(defs) + 1 /\ id <= MaxDefs /\ p.ids = Append(pending.ids, id)
      /\ d = Def("variable", n, pending.type, \E i \in ToSet(pending.ids) : defs[i].name = n)
  BY DEF NextId, NewDef
<1>1. Typed /\ Ranged
  BY DEF DeclInv
<1>2. /\ defs \in Seq(Defs) /\ Len(defs) \in Nat /\ pending \in Pendings /\ code \in Seq(Visits)
      /\ domains \in Seq(Domains)
  BY <1>1 DEF Typed
<1>3. PICK b \in Stacks : /\ Traced(defs, exprs, function.renamed, code, b) /\ Len(b) = Len(domains)
                          /\ Matches(defs, LateOf(exprs), b, domains, meaning, pending)
                          /\ Nested(defs, LateOf(exprs), function.renamed, b, blocks)
                          /\ Len(domains) >= 3 /\ Len(domains) \in Nat /\ Len(meaning) = Len(domains)
  BY BodyIs
<1>4. /\ m \in Seq(Scopes) /\ Len(m) = Len(b) /\ id \in DefIds /\ id # NoDef
      /\ m[Len(b)] = [meaning[Len(b)] EXCEPT ![n] = id]
      /\ \A i \in 1..(Len(b) - 1) : m[i] = meaning[i]
  BY <1>3, MeaningReplaced
<1> HIDE DEF id, d, m
<1>5. /\ d \in Defs /\ d.kind = "variable" /\ d.name = n /\ d.type = pending.type
      /\ d.repeated = \E i \in ToSet(pending.ids) : defs[i].name = n
  BY <1>0, <1>2 DEF Def, Defs, Pendings, DefTypes
<1>6. v \in Visits /\ v.op = "var" /\ v.id = id
  <2>1. v \in Visits
    BY <1>4, NothingTyped
  <2> QED BY <2>1 DEF Visit
<1> HIDE DEF v
<1>7. PICK E : E = Append(defs, d)
  OBVIOUS
<1>8. /\ Grows(defs, E) /\ E \in Seq(Defs) /\ Len(E) = id /\ E[id] = d /\ id \in 1..Len(E) /\ Len(E) <= MaxDefs
      /\ \A i \in 1..Len(defs) : E[i] = defs[i]
  <2>1. /\ Grows(defs, Append(defs, d)) /\ Append(defs, d) \in Seq(Defs) /\ Len(Append(defs, d)) = Len(defs) + 1
        /\ Len(defs) \in Nat /\ Append(defs, d)[Len(defs) + 1] = d
        /\ \A i \in 1..Len(defs) : Append(defs, d)[i] = defs[i]
    BY <1>2, <1>5, GrowsAppend
  <2>2. id \in 1..id
    BY <1>0, <1>2
  <2> QED BY <2>1, <2>2, <1>0, <1>7
<1>9. Traced(E, exprs, function.renamed, code, b)
  <2>1. StartOf(E, ReadyOf(exprs)) = StartOf(defs, ReadyOf(exprs))
    BY <1>2, <1>5, <1>7, StartAppend
  <2> QED BY <2>1, <1>3, <1>8, TracedGrows
<1>10. Ready(b, d.type) \/ d.type \in LateOf(exprs)
  BY <1>3, <1>5 DEF Matches
<1>11. Good(E, LateOf(exprs), function.renamed, b, v)
  BY <1>6, <1>8, <1>10 DEF Good
<1>12. PICK y : y = Visited(E, b, v)
  OBVIOUS
<1>13. Traced(E, exprs, function.renamed, Append(code, v), y) /\ y \in Stacks
  BY <1>2, <1>6, <1>8, <1>9, <1>11, <1>12, TracedOne
<1>14. y = IF Stores(E, b, id) THEN WithVariable(b, n, id) ELSE b
  BY <1>5, <1>6, <1>8, <1>12 DEF Visited
<1>15. Last(b) = b[Len(b)] /\ b[Len(b)].vars \in Scopes /\ Len(b) \in Nat /\ Len(b) \in 1..Len(b) /\ DOMAIN b = 1..Len(b)
  BY <1>3, StackIs
<1>16. /\ Len(y) = Len(b) /\ \A i \in 1..(Len(b) - 1) : y[i] = b[i]
       /\ y[Len(b)].structs = b[Len(b)].structs
       /\ y[Len(b)].vars = IF Stores(E, b, id) THEN [b[Len(b)].vars EXCEPT ![n] = id] ELSE b[Len(b)].vars
  <2>1. CASE Stores(E, b, id)
    BY <2>1, <1>4, <1>14, WithVariableIs
  <2>2. CASE ~Stores(E, b, id)
    BY <2>2, <1>14
  <2> QED BY <2>1, <2>2
<1>17. Level(defs, LateOf(exprs), Len(b), b[Len(b)], domains[Len(b)], meaning[Len(b)]) /\ Len(b) # 2
  BY <1>3, <1>15 DEF Matches
<1>18. meaning[Len(b)] \in Scopes /\ domains[Len(b)] \in Domains /\ domains[Len(b)].vars \in Scopes
  <2>1. domains[Len(b)] \in Domains /\ meaning[Len(b)] \in Scopes
    BY <1>1, <1>2, <1>3, <1>15 DEF Typed
  <2> QED BY <2>1, DomainIs
<1>19. meaning[Len(b)] = Entering(defs, pending.ids, domains[Len(b)].vars)
  BY <1>3 DEF Matches
<1>20. ASSUME ~LostIn(E, LateOf(exprs), id) PROVE Stores(E, b, id)
  <2>1. ~d.repeated /\ d.type \notin LateOf(exprs)
    BY <1>4, <1>8, <1>20 DEF LostIn
  <2>2. Ready(b, d.type)
    BY <2>1, <1>10
  <2>3. domains[Len(b)].vars[n] = NoDef
    BY <1>2, <1>3 DEF AcceptsDeclarator, Last
  <2>4. meaning[Len(b)][n] = NoDef
    <3>1. {i \in ToSet(pending.ids) : defs[i].name = n} = {}
      BY <2>1, <1>5
    <3> QED BY <3>1, <2>3, <1>19 DEF Entering
  <2>5. b[Len(b)].vars[n] = NoDef
    <3>1. ~LostIn(defs, LateOf(exprs), NoDef)
      BY DEF LostIn
    <3> QED BY <3>1, <2>4, <1>17 DEF Level
  <2> QED BY <2>2, <2>5, <1>5, <1>8, <1>15 DEF Stores
<1>21. Level(E, LateOf(exprs), Len(b), y[Len(b)], domains[Len(b)], m[Len(b)])
  <2>1. ASSUME NEW x \in Names, ~LostIn(E, LateOf(exprs), m[Len(b)][x])
        PROVE  y[Len(b)].vars[x] = m[Len(b)][x]
    <3>1. CASE x = n
      <4>1. m[Len(b)][x] = id
        BY <3>1, <1>4, <1>18 DEF Scopes
      <4>2. Stores(E, b, id)
        BY <4>1, <2>1, <1>20
      <4> QED BY <3>1, <4>1, <4>2, <1>15, <1>16 DEF Scopes
    <3>2. CASE x # n
      <4>1. m[Len(b)][x] = meaning[Len(b)][x] /\ y[Len(b)].vars[x] = b[Len(b)].vars[x]
        BY <3>2, <1>4, <1>15, <1>16, <1>18 DEF Scopes
      <4>2. meaning[Len(b)][x] \in 0..Len(defs)
        BY <1>1, <1>3, <1>15 DEF Ranged
      <4>3. ~LostIn(defs, LateOf(exprs), meaning[Len(b)][x])
        BY <4>1, <4>2, <2>1, <1>8, LostStays
      <4> QED BY <4>1, <4>3, <1>17 DEF Level
    <3> QED BY <3>1, <3>2
  <2> QED BY <2>1, <1>16, <1>17 DEF Level
<1>22. m[Len(b)] = Entering(E, p.ids, domains[Len(b)].vars)
  <2>1. pending.ids \in Seq(DefIds) /\ \A k \in 1..Len(pending.ids) : pending.ids[k] \in 1..Len(defs)
    BY <1>1, <1>2 DEF Pendings, Ranged
  <2>2. PICK map \in Scopes : map = domains[Len(b)].vars
    BY <1>18
  <2>3. PICK ids \in Seq(DefIds) : ids = pending.ids
    BY <2>1
  <2>4. \A k \in 1..Len(ids) : ids[k] \in 1..Len(defs)
    BY <2>1, <2>3
  <2>5. defs \in Seq(Defs) /\ d \in Defs
    BY <1>2, <1>5
  <2>6. Entering(Append(defs, d), Append(ids, id), map) = [Entering(defs, ids, map) EXCEPT ![d.name] = id]
    <3>1. id \in Nat /\ id - 1 = Len(defs)
      BY <1>0, <1>2
    <3>2. ids \in Seq(DefIds) /\ map \in Scopes
      OBVIOUS
    <3> QED BY ONLY <3>1, <3>2, <2>4, <2>5, EnteringOne
  <2>7. Entering(defs, ids, map) = meaning[Len(b)]
    BY <2>2, <2>3, <1>19
  <2>8. m[Len(b)] = [Entering(defs, ids, map) EXCEPT ![d.name] = id]
    BY <2>7, <1>4, <1>5
  <2> QED BY <2>2, <2>3, <2>6, <2>8, <1>0, <1>7
<1>23. p.open => Ready(y, p.type) \/ p.type \in LateOf(exprs)
  <2>1. DOMAIN y = 1..Len(b)
    BY <1>13, <1>16, StackIs
  <2>2. \A i \in DOMAIN b : b[i].structs \subseteq y[i].structs
    <3> TAKE i \in DOMAIN b
    <3>1. i \in 1..(Len(b) - 1) \/ i = Len(b)
      BY <1>15
    <3> QED BY <3>1, <1>16
  <2> QED BY <2>1, <2>2, <1>5, <1>10, <1>15, ReadyStays
<1>24. Matches(E, LateOf(exprs), y, domains, m, p)
  <2>1. \A i \in 1..Len(b), x \in Names : meaning[i][x] \in 0..Len(defs)
    BY <1>1, <1>3 DEF Ranged
  <2>2. \A i \in 1..(Len(b) - 1) : y[i] = b[i] /\ domains[i] = domains[i] /\ m[i] = meaning[i]
    BY <1>4, <1>16
  <2>3. Len(y) = Len(b) /\ Len(domains) = Len(b) /\ Len(m) = Len(b)
    BY <1>3, <1>4, <1>16
  <2>4. Matches(defs, LateOf(exprs), b, domains, meaning, pending)
    BY <1>3
  <2>5. Grows(defs, E)
    BY <1>8
  <2>6. m[Len(b)] = Entering(E, p.ids, domains[Len(b)].vars)
    BY <1>22
  <2>7. Level(E, LateOf(exprs), Len(b), y[Len(b)], domains[Len(b)], m[Len(b)])
    BY <1>21
  <2>8. p.open => Ready(y, p.type) \/ p.type \in LateOf(exprs)
    BY <1>23
  <2>9. b \in Stacks
    OBVIOUS
  <2> QED BY ONLY <2>1, <2>2, <2>3, <2>4, <2>5, <2>6, <2>7, <2>8, <2>9, MatchesLast
<1>25. Nested(E, LateOf(exprs), function.renamed, y, blocks)
  BY <1>3, <1>8, <1>13, <1>16, DepthsSame
<1>26. Len(y) = Len(domains)
  BY <1>3, <1>16
<1> QED BY <1>5, <1>6, <1>7, <1>13, <1>24, <1>25, <1>26 DEF id, d, m, v

\* The initial value of a declarator, where the definitions are D: u looks up the name among
\* the domains, which do not have the new definitions p.ids yet, and C among m, which has them.
LEMMA InitialValueIs ==
    ASSUME NEW D, NEW B, NEW r, NEW y \in Stacks, NEW dom \in Seq(Domains), NEW m \in Seq(Scopes), NEW p,
           Matches(D, B, y, dom, m, p), ~r => m[2] = dom[2].vars, NEW n \in Names, NEW u,
           u.op = "use", u.name = n, u.id = Nearest([i \in DOMAIN dom |-> dom[i].vars], n),
           u.id \in 0..Len(D), u.meant = Nearest(m, n), u.meant \in 0..Len(D),
           u.own = (u.meant \in ToSet(p.ids)), ToSet(p.ids) \subseteq 1..Len(D), Len(D) \in Nat
    PROVE  Good(D, B, r, y, u) /\ Visited(D, y, u) = y
<1>1. /\ m[2] = dom[2].vars /\ ~LostIn(D, B, Nearest(m, n)) => Looked(y, n) = Nearest(m, n)
      /\ /\ m[Len(y)][n] = dom[Len(y)].vars[n]
         /\ ~LostIn(D, B, Nearest([i \in DOMAIN dom |-> dom[i].vars], n))
         => Looked(y, n) = Nearest([i \in DOMAIN dom |-> dom[i].vars], n)
  BY ONLY y \in Stacks, dom \in Seq(Domains), m \in Seq(Scopes), Matches(D, B, y, dom, m, p), n \in Names, LookedUp
<1>2. ASSUME ~u.own PROVE m[Len(y)][n] = dom[Len(y)].vars[n]
  <2> DEFINE mine == {i \in ToSet(p.ids) : D[i].name = n}
  <2>1. m[Len(y)][n] = IF mine = {} THEN dom[Len(y)].vars[n] ELSE Max(mine)
    BY DEF Matches, Entering
  <2>2. CASE mine # {}
    <3>1. mine \in SUBSET (0..Len(D))
      OBVIOUS
    <3>2. Max(mine) \in mine
      <4> HIDE DEF mine
      <4> QED BY <3>1, <2>2, GreatestNumber
    <3>3. Max(mine) \in ToSet(p.ids) /\ Max(mine) # NoDef
      BY <3>2 DEF NoDef
    <3>4. Nearest(m, n) = m[Len(y)][n]
      <4>1. Len(y) \in Nat /\ Len(y) \in 1..Len(y) /\ DOMAIN m = 1..Len(y)
        BY StackIs DEF Matches
      <4>2. m[Len(y)][n] # NoDef
        BY <3>3, <2>1, <2>2
      <4>3. \A i \in 1..Len(y) : ~(Len(y) < i)
        BY <4>1
      <4>4. \/ Nearest(m, n) = NoDef /\ \A i \in 1..Len(y) : m[i][n] = NoDef
            \/ \E i \in 1..Len(y) : /\ m[i][n] # NoDef /\ Nearest(m, n) = m[i][n]
                                    /\ \A j \in 1..Len(y) : i < j => m[j][n] = NoDef
        BY <4>1, NearestIs
      <4>5. PICK i \in 1..Len(y) : /\ m[i][n] # NoDef /\ Nearest(m, n) = m[i][n]
                                   /\ \A j \in 1..Len(y) : i < j => m[j][n] = NoDef
        BY <4>1, <4>2, <4>4
      <4>6. ~(i < Len(y))
        BY <4>1, <4>2, <4>5
      <4>7. i = Len(y)
        BY <4>1, <4>6
      <4> QED BY <4>5, <4>7
    <3>5. u.meant \in ToSet(p.ids)
      BY <3>3, <3>4, <2>1, <2>2
    <3> QED BY <3>5, <1>2
  <2> QED BY <2>1, <2>2
<1>3. ~u.own /\ ~LostIn(D, B, u.id) => Looked(y, u.name) = u.id
  BY <1>1, <1>2
<1>4. ~r /\ ~LostIn(D, B, u.meant) => Looked(y, u.name) = u.meant
  BY <1>1
<1>5. Good(D, B, r, y, u)
  BY <1>3, <1>4 DEF Good
<1>6. Visited(D, y, u) = y
  BY DEF Visited
<1> QED BY <1>5, <1>6

LEMMA AppendedIs ==
    ASSUME NEW S, NEW s \in Seq(S), NEW a \in S
    PROVE  s \o <<a>> = Append(s, a) /\ s \o <<>> = s /\ Append(s, a) \in Seq(S)
<1>1. s \o <<>> = s
  BY ConcatEmptySeq
<1>2. PICK t : t = <<a>>
  OBVIOUS
<1>3. t \in Seq(S) /\ Len(t) = 1 /\ t[1] = a
  BY <1>2
<1>4. /\ s \o t \in Seq(S) /\ Len(s \o t) = Len(s) + Len(t)
      /\ \A i \in 1 .. Len(s) + Len(t) : (s \o t)[i] = IF i <= Len(s) THEN s[i] ELSE t[i - Len(s)]
  BY ONLY <1>3, s \in Seq(S), ConcatProperties, Zenon
<1>5. PICK u : u = Append(s, a)
  OBVIOUS
<1>6. u \in Seq(S) /\ Len(u) = Len(s) + 1 /\ u[Len(s) + 1] = a /\ \A i \in 1..Len(s) : u[i] = s[i]
  BY <1>5, AppendProperties
<1>7. PICK k \in Nat : k = Len(s)
  OBVIOUS
<1>8. \A i \in 1..(k + 1) : (s \o t)[i] = u[i]
  <2> TAKE i \in 1..(k + 1)
  <2>1. i \in 1..k \/ i = k + 1
    BY <1>7
  <2>2. (s \o t)[i] = IF i <= k THEN s[i] ELSE t[i - k]
    BY <1>3, <1>4, <1>7
  <2>3. CASE i \in 1..k
    BY <2>2, <2>3, <1>6, <1>7
  <2>4. CASE i = k + 1
    BY <2>2, <2>4, <1>3, <1>6, <1>7
  <2> QED BY <2>1, <2>3, <2>4
<1>9. s \o t = u
  <2>1. Len(s \o t) = k + 1 /\ Len(u) = k + 1
    BY <1>3, <1>4, <1>6, <1>7
  <2> QED BY <2>1, <1>4, <1>6, <1>8, SeqEqual
<1> QED BY <1>1, <1>2, <1>5, <1>6, <1>9

LEMMA DeclaratorInv ==
    ASSUME DeclInv, NEW n \in Names, NEW init \in Names \cup {"none"}, Declarator(n, init)
    PROVE  DeclInv'
<1> DEFINE id == NextId
           d == NewDef(n)
           v == Visit("var", id)
           u == [Use(init) EXCEPT !.meant = Nearest(meaning', init),
                                  !.own = (Nearest(meaning', init) \in ToSet(pending'.ids))]
<1>1. phase = "parse" /\ pending.open /\ id <= MaxDefs /\ (init \in Names => size < MaxSize)
  BY DEF Declarator, NextId
<1>2. CASE Refuse
  BY <1>1, <1>2, RefuseInv
<1>3. CASE ~Refuse
  <2>1. /\ AcceptsDeclarator(n)
        /\ defs' = Append(defs, d) /\ pending' = [pending EXCEPT !.ids = Append(@, id)]
        /\ meaning' = Entered(n)
        /\ size' = size + (IF init \in Names THEN 1 ELSE 0)
        /\ code' = code \o <<v>> \o (IF init \in Names THEN <<u>> ELSE <<>>)
        /\ phase' = phase /\ domains' = domains /\ function' = function /\ exprs' = exprs /\ blocks' = blocks
        /\ ctx' = ctx /\ found' = found
    BY <1>3 DEF Declarator, NextId, NewDef, Entered
  <2>2. Typed /\ Ranged /\ FileScope
    BY DEF DeclInv
  <2>3. /\ defs \in Seq(Defs) /\ Len(defs) \in Nat /\ pending \in Pendings /\ code \in Seq(Visits)
        /\ domains \in Seq(Domains) /\ Len(meaning) = Len(domains)
    BY <2>2 DEF Typed
  <2>4. Len(domains) > 1 /\ function.hasBody
    BY <1>1, <2>2 DEF FileScope
  <2>5. Len(domains) >= 3 /\ Len(domains) \in Nat
    BY <1>1, <2>4, BodyIs
  <2>6. /\ meaning' \in Seq(Scopes) /\ Len(meaning') = Len(meaning) /\ id \in DefIds /\ id # NoDef
        /\ \A i \in 1..(Len(meaning) - 1) : meaning'[i] = meaning[i]
        /\ \A i \in 1..Len(meaning'), x \in Names : meaning'[i][x] \in 0..id
    BY <1>1, <2>1, MeaningReplaced
  <2>7. PICK p : p = pending'
    OBVIOUS
  <2>8. /\ p.open = pending.open /\ p.type = pending.type /\ p.ids = Append(pending.ids, id) /\ p \in Pendings
        /\ Len(p.ids) = Len(pending.ids) + 1 /\ p.ids[Len(pending.ids) + 1] = id
        /\ Len(pending.ids) \in Nat /\ \A k \in 1..Len(pending.ids) : p.ids[k] = pending.ids[k]
    <3> HIDE DEF id
    <3>1. PICK ids \in Seq(DefIds) : ids = pending.ids
      BY <2>3 DEF Pendings
    <3>2. /\ Append(ids, id) \in Seq(DefIds) /\ Len(Append(ids, id)) = Len(ids) + 1
          /\ Append(ids, id)[Len(ids) + 1] = id /\ Len(ids) \in Nat
          /\ \A k \in 1..Len(ids) : Append(ids, id)[k] = ids[k]
      BY <2>6, AppendProperties
    <3>3. p = [pending EXCEPT !.ids = Append(ids, id)]
      BY <2>1, <2>7, <3>1
    <3>4. p.open = pending.open /\ p.type = pending.type /\ p.ids = Append(ids, id) /\ p \in Pendings
      BY <3>2, <3>3, <2>3 DEF Pendings
    <3> QED BY <3>1, <3>2, <3>4
  <2>9. \A k \in 1..Len(p.ids) : p.ids[k] \in 1..id
    <3>1. \A k \in 1..Len(p.ids) : k \in 1..Len(pending.ids) \/ k = Len(pending.ids) + 1
      BY <2>8
    <3>2. \A k \in 1..Len(pending.ids) : pending.ids[k] \in 1..Len(defs)
      BY <2>2 DEF Ranged
    <3>3. \A k \in 1..Len(pending.ids) : pending.ids[k] \in 1..id
      BY <3>2, <2>3 DEF NextId
    <3>4. id \in 1..id
      BY <2>3 DEF NextId
    <3> HIDE DEF id
    <3> QED BY <3>1, <3>3, <3>4, <2>8
  <2>10. /\ d \in Defs /\ d.kind = "variable" /\ v \in Visits
         /\ \E y \in Stacks : /\ Traced(Append(defs, d), exprs, function.renamed, Append(code, v), y)
                              /\ Len(y) = Len(domains)
                              /\ Matches(Append(defs, d), LateOf(exprs), y, domains, meaning', p)
                              /\ Nested(Append(defs, d), LateOf(exprs), function.renamed, y, blocks)
    <3>1. p.open = pending.open /\ p.type = pending.type /\ p.ids = Append(pending.ids, id)
      BY <2>8
    <3>2. meaning' = Entered(n) /\ AcceptsDeclarator(n)
      BY <2>1
    <3> QED BY <3>1, <3>2, <1>1, <2>4, DeclaredIs
  <2> HIDE DEF d, v
  <2>11. PICK y \in Stacks : /\ Traced(defs', exprs, function.renamed, Append(code, v), y)
                             /\ Len(y) = Len(domains)
                             /\ Matches(defs', LateOf(exprs), y, domains, meaning', p)
                             /\ Nested(defs', LateOf(exprs), function.renamed, y, blocks)
    BY <2>1, <2>10
  <2>12. /\ defs' \in Seq(Defs) /\ Len(defs') = id /\ Len(defs') <= MaxDefs /\ Len(defs') \in Nat
         /\ defs'[id] = d /\ \A i \in 1..Len(defs) : defs'[i] = defs[i]
    BY <1>1, <2>1, <2>3, <2>10, GrowsAppend DEF NextId
  <2> HIDE DEF id
  <2>13. 0..Len(defs) \subseteq 0..Len(defs')
    BY <2>3, <2>12 DEF id, NextId
  <2>14. Ranged'
    <3>1. \A i \in 1..Len(domains), x \in Names : domains[i].vars[x] \in 0..Len(defs')
      BY <2>2, <2>13 DEF Ranged
    <3> QED BY <3>1, <2>1, <2>3, <2>6, <2>7, <2>9, <2>12 DEF Ranged
  <2>15. meaning'[1] = meaning[1] /\ meaning'[2] = meaning[2]
    <3>1. 1 \in 1..(Len(meaning) - 1) /\ 2 \in 1..(Len(meaning) - 1)
      BY <2>3, <2>5
    <3> QED BY <3>1, <2>6
  <2>16. FileScope'
    BY <1>1, <2>1, <2>2, <2>4, <2>7, <2>8, <2>15 DEF FileScope
  <2>17. Append(code, v) \in Seq(Visits) /\ code \o <<v>> = Append(code, v)
    BY <2>3, <2>10, AppendedIs
  <2>18. code' \in Seq(Visits) /\ Traced(defs', exprs, function.renamed, code', y)
    <3>1. CASE init \notin Names
      <4>1. code' = Append(code, v) \o <<>>
        BY <3>1, <2>1, <2>17
      <4>2. code' = Append(code, v)
        BY <4>1, <2>17, ConcatEmptySeq
      <4> QED BY <4>2, <2>11, <2>17
    <3>2. CASE init \in Names
      <4>1. PICK w : w = u
        OBVIOUS
      <4>2. Nearest(VarMaps, init) \in 0..Len(defs') /\ Nearest(meaning', init) \in 0..Len(defs')
        <5>1. Nearest(VarMaps, init) \in 0..Len(defs')
          BY <3>2, <2>13, RangedNearest
        <5>2. DOMAIN meaning' = 1..Len(meaning') /\ Len(meaning') \in Nat
          BY <2>6
        <5>3. \A i \in 1..Len(meaning') : meaning'[i][init] \in 0..Len(defs')
          BY <3>2, <2>6, <2>12
        <5>4. NoDef \in 0..Len(defs')
          BY <2>12 DEF NoDef
        <5> QED BY <5>1, <5>2, <5>3, <5>4, NearestTyped
      <4>3. 0..Len(defs') \subseteq DefIds
        BY <2>12, BoundsAssumption DEF DefIds
      <4>4. /\ w.op = "use" /\ w.name = init /\ w.id = Nearest(VarMaps, init) /\ w.meant = Nearest(meaning', init)
            /\ w.own = (Nearest(meaning', init) \in ToSet(p.ids)) /\ w \in Visits
        <5>1. PICK q : q = Use(init)
          OBVIOUS
        <5>2. q.op = "use" /\ q.name = init /\ q.id = Nearest(VarMaps, init) /\ q \in Visits
          <6>1. Nearest(VarMaps, init) \in DefIds /\ Nearest(meaning, init) \in DefIds
            BY <4>2, <4>3, <3>2, <2>13, RangedNearest
          <6> QED BY <6>1, <5>1, <3>2, UseTyped
        <5>3. w = [q EXCEPT !.meant = Nearest(meaning', init), !.own = (Nearest(meaning', init) \in ToSet(p.ids))]
          BY <5>1, <4>1, <2>7
        <5>4. Nearest(meaning', init) \in DefIds
          BY <4>2, <4>3
        <5>5. PICK o \in BOOLEAN : o <=> Nearest(meaning', init) \in ToSet(p.ids)
          OBVIOUS
        <5>6. PICK k \in DefIds : k = Nearest(meaning', init)
          BY <5>4
        <5>7. w = [q EXCEPT !.meant = k, !.own = o]
          BY <5>3, <5>5, <5>6
        <5>8. /\ w.op = "use" /\ w.name = init /\ w.id = Nearest(VarMaps, init) /\ w.meant = k
              /\ w.own = o /\ w \in Visits
          BY <5>2, <5>7 DEF Visits
        <5> QED BY <5>5, <5>6, <5>8
      <4>5. ToSet(p.ids) \subseteq 1..Len(defs')
        <5>1. DOMAIN p.ids = 1..Len(p.ids)
          BY <2>8 DEF Pendings
        <5> QED BY <5>1, <2>9, <2>12 DEF ToSet
      <4>6. ~function.renamed => meaning'[2] = domains[2].vars
        BY <2>2, <2>4, <2>15 DEF FileScope
      <4>7. /\ w.id = Nearest([i \in DOMAIN domains |-> domains[i].vars], init) /\ w.id \in 0..Len(defs')
            /\ w.meant \in 0..Len(defs') /\ w.own = (w.meant \in ToSet(p.ids))
        BY <4>2, <4>4 DEF VarMaps
      <4>8. Matches(defs', LateOf(exprs), y, domains, meaning', p)
        BY <2>11
      <4>9. Good(defs', LateOf(exprs), function.renamed, y, w) /\ Visited(defs', y, w) = y
        <5>1. y \in Stacks /\ domains \in Seq(Domains) /\ meaning' \in Seq(Scopes) /\ Len(defs') \in Nat
          BY <2>3, <2>6, <2>12
        <5>2. w.op = "use" /\ w.name = init /\ w.meant = Nearest(meaning', init)
          BY <4>4
        <5> QED BY ONLY <5>1, <5>2, <4>5, <4>6, <4>7, <4>8, <3>2, InitialValueIs
      <4>10. Traced(defs', exprs, function.renamed, Append(Append(code, v), w), y)
        BY <4>4, <4>9, <2>11, <2>12, <2>17, TracedOne
      <4>11. code' = Append(code, v) \o <<w>>
        BY <3>2, <4>1, <2>1, <2>17
      <4>12. Append(code, v) \o <<w>> = Append(Append(code, v), w) /\ Append(Append(code, v), w) \in Seq(Visits)
        BY <4>4, <2>17, AppendedIs
      <4> QED BY <4>10, <4>11, <4>12
    <3> QED BY <3>1, <3>2
  <2>19. Typed'
    <3>1. size' \in 0..MaxSize
      BY <1>1, <2>1, <2>2, BoundsAssumption DEF Typed
    <3> QED BY <3>1, <2>1, <2>2, <2>6, <2>7, <2>8, <2>12, <2>18 DEF Typed
  <2>20. Tracing(defs', exprs', function'.renamed, code', domains', meaning', pending', blocks')
    BY <2>1, <2>7, <2>11, <2>18 DEF Tracing
  <2> QED BY <1>1, <2>1, <2>14, <2>16, <2>19, <2>20, ParseStep
<1> QED BY <1>2, <1>3

-----------------------------------------------------------------------------
(* Generation.                                                             *)

LEMMA LateIs ==
    /\ ReadyBefore = ReadyOf(exprs)
    /\ \A type : Behind(type) <=> type \in LateOf(exprs)
    /\ \A id : Lost(id) <=> LostIn(defs, LateOf(exprs), id)
<1>1. ReadyBefore = ReadyOf(exprs)
  BY DEF ReadyBefore, ReadyOf
<1>2. \A type : Behind(type) <=> type \in LateOf(exprs)
  BY <1>1 DEF Behind, LateOf
<1>3. \A id : Lost(id) <=> LostIn(defs, LateOf(exprs), id)
  BY <1>2 DEF Lost, LostIn
<1> QED BY <1>1, <1>2, <1>3

LEMMA LeadsTyped ==
    ASSUME NEW D, NEW B, NEW r, NEW a, NEW c \in Seq(Visits), NEW b, Leads(D, B, r, a, c, b)
    PROVE  a \in Stacks
<1>1. PICK h \in [0..Len(c) -> Stacks] : h[0] = a
  BY DEF Leads
<1>2. 0 \in 0..Len(c)
  OBVIOUS
<1> QED BY <1>1, <1>2

LEMMA LookedTyped ==
    ASSUME NEW x \in Stacks, NEW n \in Names
    PROVE  Looked(x, n) \in DefIds
<1> DEFINE maps == [i \in DOMAIN x |-> x[i].vars]
<1>1. Len(x) \in Nat /\ DOMAIN x = 1..Len(x) /\ \A i \in 1..Len(x) : x[i].vars \in Scopes
  BY StackIs
<1>2. DOMAIN maps = 1..Len(x) /\ \A i \in 1..Len(x) : maps[i][n] \in DefIds
  BY <1>1 DEF Scopes
<1>3. NoDef \in DefIds
  BY NothingTyped
<1> HIDE DEF maps
<1>4. Nearest(maps, n) \in DefIds
  BY <1>1, <1>2, <1>3, NearestTyped
<1> QED BY <1>4 DEF Looked, maps

LEMMA BeginGenerateInv ==
    ASSUME DeclInv, BeginGenerate
    PROVE  DeclInv'
<1>1. /\ phase = "parse" /\ function.hasBody /\ phase' = "generate"
      /\ defs' = defs /\ domains' = domains /\ meaning' = meaning /\ function' = function /\ exprs' = exprs
      /\ blocks' = blocks /\ pending' = pending /\ size' = size /\ code' = code /\ found' = found
  BY DEF BeginGenerate, AtRoot, parsing
<1>2. \A n : {i \in ArgumentIds : defs[i].name = n} = ArgumentsIn(defs, n)
  BY DEF ArgumentIds, ArgumentsIn
<1>3. ctx' = StartOf(defs, ReadyOf(exprs))
  BY <1>2, LateIs DEF BeginGenerate, StartOf
<1>4. PICK b \in Stacks : Leads(defs, LateOf(exprs), function.renamed, ctx', code, b)
  BY <1>1, <1>3 DEF DeclInv, Tracing, Traced
<1>5. Typed /\ code \in Seq(Visits)
  BY DEF DeclInv, Typed
<1>6. ctx' \in Seq(Contexts)
  BY <1>4, <1>5, LeadsTyped DEF Stacks
<1>7. Typed'
  BY <1>1, <1>5, <1>6 DEF Typed
<1>8. Ranged' /\ FileScope'
  BY <1>1 DEF DeclInv, Ranged, FileScope
<1>9. found'.visit.op = "none"
  <2>1. NothingFound.visit.op = "none"
    BY DEF NothingFound, Visit
  <2> QED BY <1>1, <2>1 DEF DeclInv, Quiet
<1>10. (NamesMeanTheSame /\ CheckedAsGenerated /\ TypesKnown)'
  BY <1>9 DEF NamesMeanTheSame, CheckedAsGenerated, TypesKnown
<1> QED BY <1>1, <1>4, <1>7, <1>8, <1>10 DEF DeclInv, Quiet

\* What the generator finds is what the trace says, and the step goes along it.
LEMMA GenerateInv ==
    ASSUME DeclInv, Generate
    PROVE  DeclInv'
<1>1. /\ phase = "generate" /\ code # <<>> /\ code' = Tail(code)
      /\ defs' = defs /\ domains' = domains /\ meaning' = meaning /\ function' = function /\ exprs' = exprs
      /\ blocks' = blocks /\ pending' = pending /\ size' = size
  BY DEF Generate, parsing
<1>2. Typed /\ Ranged /\ FileScope /\ NamesMeanTheSame /\ CheckedAsGenerated /\ TypesKnown
  BY DEF DeclInv
<1>3. /\ code \in Seq(Visits) /\ defs \in Seq(Defs) /\ Len(defs) \in Nat /\ Len(defs) <= MaxDefs /\ found \in Findings
  BY <1>2 DEF Typed
<1>4. PICK v : v = Head(code)
  OBVIOUS
<1>5. v \in Visits /\ Tail(code) \in Seq(Visits)
  BY <1>1, <1>3, <1>4, HeadTailProperties
<1>6. PICK B : B = LateOf(exprs)
  OBVIOUS
<1>7. PICK r : r = function.renamed
  OBVIOUS
<1>8. PICK b : Leads(defs, B, r, ctx, code, b)
  BY <1>1, <1>6, <1>7 DEF DeclInv
<1>9. /\ ctx \in Stacks /\ Good(defs, B, r, ctx, v) /\ Visited(defs, ctx, v) \in Stacks
      /\ Leads(defs, B, r, Visited(defs, ctx, v), Tail(code), b)
  BY <1>1, <1>3, <1>4, <1>8, LeadsHead
<1>10. \A t : HasStructType(t) <=> Ready(ctx, t)
  BY DEF HasStructType, Ready
<1>11. \A n : GetVariablePtr(n) = Looked(ctx, n)
  BY DEF GetVariablePtr, Looked
<1>12. \A id : NewVariable(id) = IF Stores(defs, ctx, id) THEN id ELSE NoDef
  BY <1>10 DEF NewVariable, Stores
<1>13. \A type : Behind(type)' <=> type \in B
  BY <1>1, <1>6 DEF Behind, ReadyBefore, LateOf, ReadyOf
<1>14. \A id : Lost(id)' <=> LostIn(defs, B, id)
  BY <1>1, <1>6 DEF Lost, LostIn, Behind, ReadyBefore, LateOf, ReadyOf
<1>15. /\ v.id \in DefIds /\ NoDef \in DefIds
       /\ v.op \in {"none", "open", "close", "struct", "var", "use"}
  BY <1>5, NothingTyped DEF Visits
<1>16. PICK x : x = Visited(defs, ctx, v)
  OBVIOUS
<1>17. CASE v.op \in {"open", "close"}
  <2>1. ctx' = x /\ found' = found /\ phase' = phase
    BY <1>4, <1>16, <1>17 DEF Generate, Visited, CloseContext
  <2>2. (NamesMeanTheSame /\ CheckedAsGenerated /\ TypesKnown)'
    BY <1>1, <1>2, <2>1 DEF NamesMeanTheSame, CheckedAsGenerated, TypesKnown, Lost, Behind, ReadyBefore
  <2>3. Typed'
    BY <1>1, <1>2, <1>5, <1>9, <1>16, <2>1 DEF Typed, Stacks
  <2> QED BY <1>1, <1>2, <1>6, <1>7, <1>9, <1>16, <2>1, <2>2, <2>3 DEF DeclInv, Quiet, Ranged, FileScope
<1>18. CASE v.op = "struct"
  <2>1. PICK o \in BOOLEAN : o <=> HasStructType(defs[v.id].type)
    OBVIOUS
  <2>2. /\ ctx' = x /\ found' = [visit |-> v, storage |-> NoDef, typed |-> o]
        /\ phase' = IF ~o THEN "stopped" ELSE phase
    BY <1>4, <1>16, <1>18, <2>1 DEF Generate, Visited, WithStructure, Found
  <2>3. o \/ defs[v.id].type \in B
    BY <1>9, <1>10, <1>18, <2>1 DEF Good
  <2>4. found'.visit = v /\ found'.typed = o /\ found' \in Findings
    BY <1>5, <1>15, <2>2 DEF Findings
  <2>5. (NamesMeanTheSame /\ CheckedAsGenerated /\ TypesKnown)'
    BY <1>1, <1>13, <1>18, <2>3, <2>4 DEF NamesMeanTheSame, CheckedAsGenerated, TypesKnown
  <2>6. Typed'
    BY <1>1, <1>2, <1>5, <1>9, <1>16, <2>2, <2>4 DEF Typed, Stacks
  <2> QED BY <1>1, <1>2, <1>6, <1>7, <1>9, <1>16, <2>2, <2>5, <2>6 DEF DeclInv, Quiet, Ranged, FileScope
<1>19. CASE v.op = "var"
  <2>1. PICK o \in BOOLEAN : o <=> HasStructType(defs[v.id].type)
    OBVIOUS
  <2>2. PICK s \in DefIds : s = NewVariable(v.id)
    BY <1>12, <1>15
  <2>3. Stores(defs, ctx, v.id) => s = v.id
    BY <1>12, <2>2
  <2>4. ~Stores(defs, ctx, v.id) => s = NoDef
    BY <1>12, <2>2
  <2>5. v.id # NoDef
    BY <1>3, <1>9, <1>19 DEF Good, NoDef
  <2>6. /\ found' = [visit |-> v, storage |-> s, typed |-> o] /\ phase' = phase
        /\ ctx' = IF s = NoDef THEN ctx ELSE WithVariable(ctx, defs[v.id].name, v.id)
    BY <1>4, <1>19, <2>1, <2>2 DEF Generate, WithVariable, Found
  <2>7. ctx' = x
    BY <1>16, <1>19, <2>3, <2>4, <2>5, <2>6 DEF Visited
  <2>8. o \/ defs[v.id].type \in B
    BY <1>9, <1>10, <1>19, <2>1 DEF Good
  <2>9. found'.visit = v /\ found'.typed = o /\ found' \in Findings
    BY <1>5, <2>6 DEF Findings
  <2>10. (NamesMeanTheSame /\ CheckedAsGenerated /\ TypesKnown)'
    BY <1>1, <1>13, <1>19, <2>8, <2>9 DEF NamesMeanTheSame, CheckedAsGenerated, TypesKnown
  <2>11. Typed'
    BY <1>1, <1>2, <1>5, <1>9, <1>16, <2>6, <2>7, <2>9 DEF Typed, Stacks
  <2> QED BY <1>1, <1>2, <1>6, <1>7, <1>9, <1>16, <2>6, <2>7, <2>10, <2>11 DEF DeclInv, Quiet, Ranged, FileScope
<1>20. CASE v.op = "use"
  <2>1. PICK o \in BOOLEAN : o <=> TRUE
    OBVIOUS
  <2>2. Looked(ctx, v.name) \in DefIds
    <3>1. v.name \in Names
      BY <1>9, <1>20 DEF Good
    <3> QED BY <1>9, <3>1, LookedTyped
  <2>3. PICK s \in DefIds : s = Looked(ctx, v.name)
    BY <2>2
  <2>4. found' = [visit |-> v, storage |-> s, typed |-> o] /\ phase' = phase /\ ctx' = ctx
    BY <1>4, <1>11, <1>20, <2>1, <2>3 DEF Generate, Found
  <2>5. ctx' = x
    BY <1>16, <1>20, <2>4 DEF Visited
  <2>6. /\ ~r /\ ~LostIn(defs, B, v.meant) => s = v.meant
        /\ ~v.own /\ ~LostIn(defs, B, v.id) => s = v.id
    BY <1>9, <1>20, <2>3 DEF Good
  <2>7. found'.visit = v /\ found'.storage = s /\ found' \in Findings
    BY <1>5, <2>4 DEF Findings
  <2>8. (NamesMeanTheSame /\ CheckedAsGenerated /\ TypesKnown)'
    BY <1>1, <1>7, <1>14, <1>20, <2>6, <2>7 DEF NamesMeanTheSame, CheckedAsGenerated, TypesKnown
  <2>9. Typed'
    BY <1>1, <1>2, <1>5, <1>9, <1>16, <2>4, <2>5, <2>7 DEF Typed, Stacks
  <2> QED BY <1>1, <1>2, <1>6, <1>7, <1>9, <1>16, <2>4, <2>5, <2>8, <2>9 DEF DeclInv, Quiet, Ranged, FileScope
<1>21. v.op # "none"
  BY <1>9 DEF Good
<1> QED BY <1>15, <1>17, <1>18, <1>19, <1>20, <1>21

LEMMA EndGenerateInv ==
    ASSUME DeclInv, EndGenerate
    PROVE  DeclInv'
<1>1. /\ phase = "generate" /\ phase' = "done"
      /\ defs' = defs /\ domains' = domains /\ meaning' = meaning /\ function' = function /\ exprs' = exprs
      /\ blocks' = blocks /\ pending' = pending /\ size' = size /\ code' = code /\ found' = found /\ ctx' = ctx
  BY DEF EndGenerate, parsing
<1>2. Typed /\ Ranged /\ FileScope /\ NamesMeanTheSame /\ CheckedAsGenerated /\ TypesKnown
  BY DEF DeclInv
<1>3. (NamesMeanTheSame /\ CheckedAsGenerated /\ TypesKnown)'
  BY <1>1, <1>2 DEF NamesMeanTheSame, CheckedAsGenerated, TypesKnown, Lost, Behind, ReadyBefore
<1>4. Typed' /\ Ranged' /\ FileScope'
  BY <1>1, <1>2 DEF Typed, Ranged, FileScope
<1> QED BY <1>1, <1>3, <1>4 DEF DeclInv, Quiet

LEMMA StutterInv ==
    ASSUME DeclInv, UNCHANGED vars
    PROVE  DeclInv'
<1>1. /\ phase' = phase
      /\ defs' = defs /\ domains' = domains /\ meaning' = meaning /\ function' = function /\ exprs' = exprs
      /\ blocks' = blocks /\ pending' = pending /\ size' = size /\ code' = code /\ found' = found /\ ctx' = ctx
  BY DEF vars, parsing
<1>2. Typed /\ Ranged /\ FileScope /\ NamesMeanTheSame /\ CheckedAsGenerated /\ TypesKnown
  BY DEF DeclInv
<1>3. (NamesMeanTheSame /\ CheckedAsGenerated /\ TypesKnown)'
  BY <1>1, <1>2 DEF NamesMeanTheSame, CheckedAsGenerated, TypesKnown, Lost, Behind, ReadyBefore
<1>4. Typed' /\ Ranged' /\ FileScope'
  BY <1>1, <1>2 DEF Typed, Ranged, FileScope
<1> QED BY <1>1, <1>3, <1>4 DEF DeclInv, Quiet

LEMMA NextInv ==
    ASSUME DeclInv, [Next]_vars
    PROVE  DeclInv'
<1>1. CASE UNCHANGED vars
  BY <1>1, StutterInv
<1>2. CASE FileLevel
  <2>1. ASSUME NEW list \in Lists, FunctionDecl(list) PROVE DeclInv'
    BY <2>1, FunctionDeclInv
  <2>2. ASSUME NEW list \in Lists, BeginBody(list) PROVE DeclInv'
    BY <2>2, BeginBodyInv
  <2>3. CASE BeginGenerate
    BY <2>3, BeginGenerateInv
  <2> QED BY <1>2, <2>1, <2>2, <2>3 DEF FileLevel
<1>3. CASE Body
  <2>1. CASE EndBody
    BY <2>1, EndBodyInv
  <2>2. CASE BeginIf
    <3>1. /\ InBlock /\ size < MaxSize /\ size' = size + 1 /\ OpenScope /\ blocks' = Append(Started, Block("if"))
          /\ UNCHANGED <<phase, defs, function, exprs, pending, ctx, found>>
      BY <2>2 DEF BeginIf
    <3> QED BY <3>1, OpenInv
  <2>3. CASE BeginFor
    <3>1. /\ InBlock /\ size < MaxSize /\ size' = size + 1 /\ OpenScope /\ blocks' = Append(Started, Block("start"))
          /\ UNCHANGED <<phase, defs, function, exprs, pending, ctx, found>>
      BY <2>3 DEF BeginFor
    <3> QED BY <3>1, OpenInv
  <2>4. CASE EndBlock
    BY <2>4, EndBlockInv
  <2>5. CASE EndVarDef
    BY <2>5, EndVarDefInv
  <2>6. ASSUME NEW n \in Names, Reference(n) PROVE DeclInv'
    BY <2>6, ReferenceInv
  <2>7. ASSUME NEW n \in Names, BeginForBody(n) PROVE DeclInv'
    BY <2>7, BeginForBodyInv
  <2>8. ASSUME NEW t \in Types, BeginVarDef(t) PROVE DeclInv'
    BY <2>8, BeginVarDefInv
  <2>9. ASSUME NEW n \in Names, NEW init \in Names \cup {"none"}, Declarator(n, init) PROVE DeclInv'
    BY <2>9, DeclaratorInv
  <2> QED BY <1>3, <2>1, <2>2, <2>3, <2>4, <2>5, <2>6, <2>7, <2>8, <2>9 DEF Body
<1>4. ASSUME NEW n \in Names, ExternType(n) PROVE DeclInv'
  BY <1>4, ExternTypeInv
<1>5. ASSUME NEW n \in Names, NEW t \in Types, StructDef(n, t) PROVE DeclInv'
  BY <1>5, StructDefInv
<1>6. CASE Generate
  BY <1>6, GenerateInv
<1>7. CASE EndGenerate
  BY <1>7, EndGenerateInv
<1> QED BY <1>1, <1>2, <1>3, <1>4, <1>5, <1>6, <1>7 DEF Next

LEMMA AlwaysInv == Spec => []DeclInv
<1>1. DeclInv /\ [Next]_vars => DeclInv'
  BY NextInv
<1> QED BY <1>1, InitInv, PTL DEF Spec

-----------------------------------------------------------------------------
(* The theorems.                                                           *)

\* Every variable of the parser's and the generator's bookkeeping keeps a value of its type:
\* definitions and domains stay within what the source may hold, and the numbers that a
\* scope or a context gives to a name are numbers of definitions.
THEOREM TypeCorrect == Spec => []TypeOK
<1>1. DeclInv => TypeOK
  <2> SUFFICES ASSUME DeclInv PROVE TypeOK
    OBVIOUS
  <2>1. Typed
    BY DEF DeclInv
  <2>2. \A i \in DOMAIN domains : domains[i] \in [vars : Scopes, structs : Scopes, externs : SUBSET Names]
    <3>1. \A i \in DOMAIN domains : domains[i] \in Domains
      BY <2>1 DEF Typed
    <3> QED BY <3>1, Zenon DEF Domains
  <2>3. \A i \in DOMAIN meaning : meaning[i] \in Scopes
    BY <2>1 DEF Typed
  <2>4. \A i \in DOMAIN ctx : ctx[i] \in [vars : Scopes, structs : SUBSET DefIds]
    <3>1. \A i \in DOMAIN ctx : ctx[i] \in Contexts
      BY <2>1 DEF Typed
    <3> QED BY <3>1, Zenon DEF Contexts
  <2>5. ToSet(exprs) \subseteq DefIds
    BY <2>1 DEF Typed, ToSet
  <2>6. found.storage \in DefIds
    BY <2>1 DEF Typed, Findings
  <2> QED BY <2>1, <2>2, <2>3, <2>4, <2>5, <2>6 DEF Typed, TypeOK
<1> QED BY <1>1, AlwaysInv, PTL

\* However a source nests its scopes and shadows its names, a reference of the generated
\* body reads the storage of the definition that C's rules give it, although the parser
\* keeps CodeDomains and CG_Context is asked for the name a second time, in another order.
THEOREM ReadsTheDefinitionMeant == Spec => []NamesMeanTheSame
<1>1. DeclInv => NamesMeanTheSame
  BY DEF DeclInv
<1> QED BY <1>1, AlwaysInv, PTL

\* It is also the definition against whose type CheckSemantic has accepted the reference,
\* but for an initial value that names a variable of the same definition.
THEOREM ReadsTheDefinitionChecked == Spec => []CheckedAsGenerated
<1>1. DeclInv => CheckedAsGenerated
  BY DEF DeclInv
<1> QED BY <1>1, AlwaysInv, PTL

\* NewVariable and NewStructType find the LLVM types of the structures that a body names,
\* but for those the file defines behind the first declaration of the function.
THEOREM TypesAreGenerated == Spec => []TypesKnown
<1>1. DeclInv => TypesKnown
  BY DEF DeclInv
<1> QED BY <1>1, AlwaysInv, PTL
====
