----------------------------- MODULE ExprParser -----------------------------
(***************************************************************************)
(* The value expression parser of CompilingContext (parser_AST_Gen.cpp):   *)
(* ParseSimpleExpression and ParseComplexExpression call each other on the *)
(* tokens of one expression and build its tree.  Tokens are abstract: a    *)
(* name is what the parser takes it for, a built-in type before a variable *)
(* before a function.                                                      *)
(***************************************************************************)
EXTENDS Naturals, Sequences

CONSTANTS Leaves,   \* variables, true and false
          Numbers,  \* numeric constants
          Arity,    \* the functions that are declared, with their number of arguments
          Elements, \* built-in types used as initializers, with their number of elements
          Ops,      \* binary operators
          Prefixes, \* "-" and "!"
          Inputs    \* token sequences to parse, up to the token that ends the expression

EndToken == ";"
Separators == {")", ",", "]", EndToken}

Names == Leaves \cup DOMAIN Arity \cup DOMAIN Elements
Tokens == Names \cup Numbers \cup Ops \cup Prefixes \cup {"(", "[", "."} \cup (Separators \ {EndToken})

ASSUME CountsAssumption ==
    /\ \A f \in DOMAIN Arity : Arity[f] \in Nat
    /\ \A t \in DOMAIN Elements : Elements[t] \in Nat \ {0}
\* A token is of one kind; only "-" is a binary and a unary operator.
ASSUME TokensAssumption ==
    LET kinds == <<Leaves, Numbers, DOMAIN Arity, DOMAIN Elements, Ops \cup Prefixes, {"(", "[", "."}, Separators>>
    IN  \A i, j \in 1..7 : i # j => kinds[i] \cap kinds[j] = {}
ASSUME InputsAssumption == Inputs \subseteq Seq(Tokens)

\* Token::GetBinaryOpLevel.
Level(op) ==
    CASE op \in {"|", "&", "+", "-"} -> 100
      [] op \in {"*", "/"} -> 200
      [] op = "=" -> 50
      [] op \in {"||", "&&"} -> 70
      [] op \in {"==", ">=", ">", "<=", "<"} -> 80
      [] OTHER -> 0

VARIABLES tokens, phase, result
vars == <<tokens, phase, result>>

Token(p) == IF p <= Len(tokens) THEN tokens[p] ELSE EndToken

\* `said': an error message was added; `stop': an assertion failed on the way.
Ok(next, tree) ==
    [ok |-> TRUE, next |-> next, tree |-> tree, said |-> FALSE, stop |-> FALSE]
Failed(next, said, stop) ==
    [ok |-> FALSE, next |-> next, tree |-> <<>>, said |-> said, stop |-> stop]
Complaint(r) == Failed(r.next, TRUE, r.stop)

\* The calls and loops of the two functions: a simple expression, the suffixes behind
\* one, an expression up to one of some separators, and what is left of the arguments
\* of a call or of the elements of an initializer.  Each is defined by the results R of
\* those it needs.
Places == Nat \ {0}
Calls == ({"simple", "suffixes"} \X Places \X {0})
         \cup ({"arguments"} \X Places \X Nat)
         \cup ({"elements"} \X Places \X (Nat \ {0}))
         \cup ({"complex"} \X Places \X SUBSET Separators)

\* A tree in front of the list of trees behind it.
Listed(tree, rest) == IF rest.ok THEN Ok(rest.next, <<tree>> \o rest.tree) ELSE rest

\* Members, swizzles and indices, kept as a list; Exp_DotOp and Exp_Indexer nest to the
\* left in the order of the list.
Suffixes(R, p) ==
    CASE Token(p) = "." ->
            IF Token(p + 1) \in Names
            THEN Listed(<<".", Token(p + 1)>>, R[<<"suffixes", p + 2, 0>>])
            ELSE Failed(p + 2, TRUE, FALSE)
      [] Token(p) = "[" ->
            LET index == R[<<"complex", p + 1, {"]"}>>] IN
            IF index.ok
            THEN Listed(<<"[", index.tree>>, R[<<"suffixes", index.next + 1, 0>>])
            ELSE Complaint(index)
      [] OTHER -> Ok(p, <<>>)

\* The last n arguments of a call; each ends with its own separator.
ArgumentFails_Silently(r) == r
ArgumentFails(r) == Complaint(r)

Arguments_EitherEnd(R, p, n) ==
    IF n = 0 THEN Ok(p, <<>>)
    ELSE LET r == R[<<"complex", p, {")", ","}>>] IN
         IF r.ok THEN Listed(r.tree, R[<<"arguments", r.next + 1, n - 1>>]) ELSE ArgumentFails(r)
Arguments(R, p, n) ==
    IF n = 0 THEN Ok(p, <<>>)
    ELSE LET r == R[<<"complex", p, IF n = 1 THEN {")"} ELSE {","}>>] IN
         IF r.ok THEN Listed(r.tree, R[<<"arguments", r.next + 1, n - 1>>]) ELSE ArgumentFails(r)

\* The elements of a built-in initializer, n at most: the loop ends at ")", or after
\* n of them whatever separator closes the last, and gives up without a message.
Initializer(R, p, n) ==
    LET r == R[<<"complex", p, {")", ","}>>] IN
    IF ~r.ok THEN r
    ELSE IF Token(r.next) = ")" \/ n = 1 THEN Ok(r.next + 1, <<r.tree>>)
    ELSE Listed(r.tree, R[<<"elements", r.next + 1, n - 1>>])

Applied_EatsAgain(kind, name, list) ==
    IF list.ok THEN Ok(list.next + 1, <<kind, name, list.tree>>) ELSE list
Applied(kind, name, list) == IF list.ok THEN Ok(list.next, <<kind, name, list.tree>>) ELSE list

\* What stands in front of the suffixes.
Operand(R, p) ==
    LET t == Token(p) IN
    CASE t \in DOMAIN Elements ->
            IF Token(p + 1) # "(" THEN Failed(p + 2, TRUE, FALSE)
            ELSE Applied("init", t, R[<<"elements", p + 2, Elements[t]>>])
      [] t \in Leaves \cup Numbers -> Ok(p + 1, <<"leaf", t>>)
      [] t \in DOMAIN Arity ->
            IF Token(p + 1) # "(" THEN Failed(p + 1, TRUE, FALSE)
            ELSE Applied("call", t, R[<<"arguments", p + 2, Arity[t]>>])
      [] t \in Prefixes ->
            LET r == R[<<"simple", p + 1, 0>>] IN
            IF r.ok THEN Ok(r.next, <<"prefix", t, r.tree>>) ELSE Complaint(r)
      [] t = "(" ->
            LET r == R[<<"complex", p + 1, {")"}>>] IN
            IF r.ok THEN Ok(r.next + 1, r.tree) ELSE Complaint(r)
      [] OTHER -> Failed(p + 1, TRUE, FALSE)

ParseSimple(R, p) ==
    LET base == Operand(R, p)
        list == R[<<"suffixes", base.next, 0>>]
    IN  IF ~base.ok THEN base
        ELSE IF ~list.ok THEN list
        ELSE Ok(list.next, <<"value", base.tree, list.tree>>)

\* assert(!mErrorMessages.empty()) when a simple expression could not be parsed.
Asserted(r) == IF r.ok THEN r ELSE Failed(r.next, r.said, r.stop \/ ~r.said)

\* The two ways to group a op0 b op1 c.
Group_AtLeast(op0, op1, a, b, c) ==
    IF Level(op1) >= Level(op0)
    THEN <<"op", op0, a, <<"op", op1, b, c>>>>
    ELSE <<"op", op1, <<"op", op0, a, b>>, c>>
Group(op0, op1, a, b, c) ==
    IF Level(op1) > Level(op0)
    THEN <<"op", op0, a, <<"op", op1, b, c>>>>
    ELSE <<"op", op1, <<"op", op0, a, b>>, c>>

\* Behind the first operand and its operator.
Second(R, a, ends) ==
    LET op0 == Token(a.next)
        b == Asserted(R[<<"simple", a.next + 1, 0>>])
        op1 == Token(b.next)
        c == R[<<"complex", b.next + 1, ends>>]
    IN  IF ~b.ok THEN b
        ELSE IF op1 \in ends THEN Ok(b.next, <<"op", op0, a.tree, b.tree>>)
        ELSE IF op1 \notin Ops THEN Failed(b.next, FALSE, FALSE)
        ELSE IF ~c.ok THEN c
        ELSE Ok(c.next, Group(op0, op1, a.tree, b.tree, c.tree))

ParseComplex(R, p, ends) ==
    LET a == Asserted(R[<<"simple", p, 0>>]) IN
    IF ~a.ok \/ Token(a.next) \in ends THEN a
    ELSE IF Token(a.next) \notin Ops THEN Failed(a.next, TRUE, FALSE)
    ELSE Second(R, a, ends)

Call(R, what, p, n) ==
    CASE what = "simple" -> ParseSimple(R, p)
      [] what = "suffixes" -> Suffixes(R, p)
      [] what = "complex" -> ParseComplex(R, p, n)
      [] what = "arguments" -> Arguments(R, p, n)
      [] what = "elements" -> Initializer(R, p, n)
Parsed[c \in Calls] == Call(Parsed, c[1], c[2], c[3])

Init == tokens \in Inputs /\ phase = "start" /\ result = Failed(1, FALSE, FALSE)

Parse ==
    /\ phase = "start" /\ phase' = "done"
    /\ result' = Parsed[<<"complex", 1, {EndToken}>>]
    /\ UNCHANGED tokens

Next == Parse
Spec == Init /\ [][Next]_vars

-----------------------------------------------------------------------------
(* What an expression is: the reference.  It says which trees the tokens   *)
(* from i up to and without j may have.  It is the C expression with two   *)
(* exceptions, each a thing the parser does that C does not: a call        *)
(* without arguments is written "g(", because the closing parenthesis is   *)
(* only eaten behind an argument, and an initializer with all its elements *)
(* may be closed by a comma.                                               *)

\* The pieces of the text: chains of k operators, lists of k expressions separated by
\* commas, and k suffixes.  The trees of each are defined by those T of shorter ones.
Pieces == {"chain", "list", "suffixes"} \X Places \X Places \X Nat

\* Stronger operators bind first: an operator has no weaker one for an operand.
IsOp(t) == t[1] = "op"
NoneWeaker(t) == \A k \in {3, 4} : IsOp(t[k]) => Level(t[k][2]) >= Level(t[2])
\* Stronger operators bind first, equal ones from left to right.
ByLevel(t) ==
    /\ IsOp(t[3]) => Level(t[3][2]) >= Level(t[2])
    /\ IsOp(t[4]) => Level(t[4][2]) > Level(t[2])

\* One or two operators are grouped by their levels.
Expressions(T, i, j) ==
    UNION {{t \in T[<<"chain", i, j, k>>] : k = 2 => ByLevel(t)} : k \in 0..(j - i)}

Closes(p, k, n) == Token(p) = ")" \/ (Token(p) = "," /\ k = n)
Primaries(T, i, j) ==
    CASE Token(i) \in Leaves \cup Numbers -> IF j = i + 1 THEN {<<"leaf", Token(i)>>} ELSE {}
      [] Token(i) = "(" -> IF i + 1 < j /\ Token(j - 1) = ")" THEN Expressions(T, i + 1, j - 1) ELSE {}
      [] Token(i) \in DOMAIN Arity /\ Token(i + 1) = "(" ->
            IF Arity[Token(i)] = 0 THEN IF j = i + 2 THEN {<<"call", Token(i), <<>>>>} ELSE {}
            ELSE IF i + 2 < j /\ Token(j - 1) = ")"
            THEN {<<"call", Token(i), l>> : l \in T[<<"list", i + 2, j - 1, Arity[Token(i)]>>]} ELSE {}
      [] Token(i) \in DOMAIN Elements /\ Token(i + 1) = "(" ->
            IF i + 2 < j
            THEN UNION {{<<"init", Token(i), l>> : l \in T[<<"list", i + 2, j - 1, k>>]} :
                           k \in {k \in 1..Elements[Token(i)] : Closes(j - 1, k, Elements[Token(i)])}}
            ELSE {}
      [] OTHER -> {}

\* A suffix belongs to what stands in front of it before a prefix does.
Simples(T, i, j) ==
    (UNION {UNION {{<<"value", b, s>> : s \in UNION {T[<<"suffixes", m, j, k>>] : k \in 0..(j - m)}} :
                      b \in Primaries(T, i, m)} : m \in (i + 1)..j})
    \cup (IF Token(i) \in Prefixes /\ i + 1 < j
          THEN {<<"value", <<"prefix", Token(i), t>>, <<>>>> : t \in T[<<"chain", i + 1, j, 0>>]} ELSE {})

Operations(T, i, j, k, strict) ==
    UNION {UNION {{t \in {<<"op", Token(m), a, b>> :
                             a \in T[<<"chain", i, m, l>>], b \in T[<<"chain", m + 1, j, k - 1 - l>>]} :
                      strict => NoneWeaker(t)} : l \in 0..(k - 1)} :
              m \in {m \in (i + 1)..(j - 2) : Token(m) \in Ops}}

SuffixLists(T, i, j, k) ==
    IF k = 0 THEN IF i = j THEN {<<>>} ELSE {}
    ELSE (IF Token(i) = "." /\ Token(i + 1) \in Names /\ i + 2 <= j
          THEN {<< <<".", Token(i + 1)>> >> \o s : s \in T[<<"suffixes", i + 2, j, k - 1>>]} ELSE {})
         \cup (IF Token(i) = "["
               THEN UNION {{<< <<"[", e>> >> \o s : e \in Expressions(T, i + 1, m),
                                                    s \in T[<<"suffixes", m + 1, j, k - 1>>]} :
                              m \in {m \in (i + 2)..(j - 1) : Token(m) = "]"}}
               ELSE {})

Lists(T, i, j, k) ==
    CASE k = 0 -> {}
      [] k = 1 -> {<<e>> : e \in Expressions(T, i, j)}
      [] OTHER -> UNION {{<<e>> \o l : e \in Expressions(T, i, m), l \in T[<<"list", m + 1, j, k - 1>>]} :
                            m \in {m \in (i + 1)..(j - 2) : Token(m) = ","}}

Derived(T, what, i, j, k, strict) ==
    CASE what = "chain" -> IF k = 0 THEN Simples(T, i, j) ELSE Operations(T, i, j, k, strict)
      [] what = "list" -> Lists(T, i, j, k)
      [] what = "suffixes" -> SuffixLists(T, i, j, k)

\* `strict': in chains of any number of operators no weaker one binds first.
Trees(strict) ==
    LET T[d \in Pieces] == Derived(T, d[1], d[2], d[3], d[4], strict)
    IN  T

Done == phase = "done"

-----------------------------------------------------------------------------
\* The state variables hold values of their types, and an expression that is accepted
\* ends within the text.
TypeOK ==
    /\ tokens \in Inputs /\ phase \in {"start", "done"}
    /\ result.ok \in BOOLEAN /\ result.said \in BOOLEAN /\ result.stop \in BOOLEAN
    /\ result.next \in Nat /\ (result.ok => result.next \in 1..(Len(tokens) + 1))

\* ParseComplexExpression accepts the expressions of the grammar, with its two
\* exceptions, and nothing else.
AcceptsExactly ==
    Done => (result.ok <=> Expressions(Trees(FALSE), 1, Len(tokens) + 1) # {})

\* The tree of an accepted expression is one the grammar gives its tokens, all of them:
\* none is lost, added or moved, suffixes bind first, then prefixes, and one or two
\* operators side by side are grouped by their levels.
TreesHoldExpressions ==
    Done /\ result.ok => result.tree \in Expressions(Trees(FALSE), 1, Len(tokens) + 1)

\* In a chain of any number of operators the stronger bind first: none has a weaker one
\* for its operand.
OperatorsGrouped ==
    Done /\ result.ok => result.tree \in Expressions(Trees(TRUE), 1, Len(tokens) + 1)

\* assert(!mErrorMessages.empty()) in ParseComplexExpression: only an initializer,
\* whose elements are given up in silence, lets a simple expression fail without a
\* message.
RefusalsHaveMessages ==
    result.stop => \E k \in DOMAIN tokens : tokens[k] \in DOMAIN Elements
=============================================================================
