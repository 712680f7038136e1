---------------------------- MODULE IRGenProofs -----------------------------
(***************************************************************************)
(* Whatever the body and however large the function: the code generator    *)
(* always appends to an open block, and the function it completes is well  *)
(* formed, that is, every block is in the function and has one terminator, *)
(* and every PHI node names exactly the predecessors of its block.  These  *)
(* are the rules of LLVM's verifier, which KSC_GetFunctionPtr runs on the  *)
(* wrapper only and never on the function itself.                          *)
(***************************************************************************)
EXTENDS IRGen, TLAPS

Building == phase \in {"gen", "refused"}
Complete == phase \in {"run", "done"}
Around == 1..depth              \* the statements around the insertion point

\* Blocks a statement has created and will link later.
MergeOf(f) == IF f.kind \in {"then", "else"} THEN {f.merge} ELSE {}
ElseOf(f) == IF f.kind = "then" THEN {f.else} ELSE {}
Held(f) == MergeOf(f) \cup ElseOf(f)

BlocksOpen ==
    /\ insert \in linked /\ linked \subseteq 1..created
    /\ EntryBB \in linked /\ RetBB <= created
    /\ term[insert] = <<>>
    /\ \A b \in linked \ {insert} : Len(term[b]) = 1
    /\ \A b \in Blocks \ linked : term[b] = <<>>
    /\ \A b \in Blocks : \A k \in DOMAIN term[b] : term[b][k] \subseteq (1..created) \ {RetBB}

\* The blocks not in the function yet: the exit, and those the open ifs hold.
HeldBlocks ==
    /\ \A b \in 1..created : b \in linked \/ b = RetBB \/ \E n \in Around : b \in Held(frames[n])
    /\ RetBB \notin linked
    /\ \A n \in Around : \A b \in Held(frames[n]) :
          b \in 1..created /\ b \notin linked /\ b # RetBB
    /\ \A n, m \in Around : n # m => Held(frames[n]) \cap Held(frames[m]) = {}
    /\ \A n \in Around : frames[n].kind = "then" => frames[n].else # frames[n].merge

FrameKinds ==
    /\ frames[1].kind = "body"
    /\ \A n \in Around : n # 1 => frames[n].kind # "body"
    /\ \A n \in Around : frames[n].kind = "for" => frames[n].loop \in hasPhi

PhisSoFar ==
    /\ hasPhi \subseteq linked
    /\ \A b \in hasPhi : phi[b] = Preds(b)
    /\ \A n \in Around :
          /\ frames[n].kind = "then" => Preds(frames[n].merge) = {}
          /\ frames[n].kind = "else" => Preds(frames[n].merge) = {frames[n].thenEnd}

WellFormed ==
    /\ linked = 1..created
    /\ \A b \in linked : Len(term[b]) = 1 /\ term[b][1] \subseteq linked
    /\ \A b \in hasPhi : phi[b] = Preds(b)

IInv ==
    /\ TypeOK /\ at[1] \in linked
    /\ Building => BlocksOpen /\ HeldBlocks /\ FrameKinds /\ PhisSoFar
    /\ Complete => WellFormed

-----------------------------------------------------------------------------
(* Appending a terminator.                                                 *)

LEMMA BranchTerms ==
    ASSUME TypeOK, NEW T \in SUBSET Blocks, Branch(T)
    PROVE  /\ term' \in [Blocks -> Seq(SUBSET Blocks)]
           /\ term'[insert] = Append(term[insert], T)
           /\ \A b \in Blocks \ {insert} : term'[b] = term[b]
  BY DEF TypeOK, Branch

LEMMA BranchPreds ==
    ASSUME TypeOK, NEW T \in SUBSET Blocks, Branch(T), NEW b \in Blocks
    PROVE  PredsIn(term', b) = PredsIn(term, b) \cup (IF b \in T THEN {insert} ELSE {})
  <1>1. term[insert] \in Seq(SUBSET Blocks) /\ insert \in Blocks
    BY DEF TypeOK
  <1>2. /\ DOMAIN term'[insert] = 1..(Len(term[insert]) + 1)
        /\ term'[insert][Len(term[insert]) + 1] = T
        /\ \A i \in DOMAIN term[insert] : term'[insert][i] = term[insert][i]
        /\ DOMAIN term[insert] = 1..Len(term[insert]) /\ Len(term[insert]) \in Nat
    BY <1>1, BranchTerms
  <1>3. ASSUME NEW a \in Blocks
        PROVE  (\E i \in DOMAIN term'[a] : b \in term'[a][i])
                 <=> (\E i \in DOMAIN term[a] : b \in term[a][i]) \/ (a = insert /\ b \in T)
    <2>1. CASE a # insert
      BY <2>1, BranchTerms
    <2>2. CASE a = insert
      BY <2>2, <1>2
    <2> QED BY <2>1, <2>2
  <1> QED BY <1>3, <1>1 DEF PredsIn

-----------------------------------------------------------------------------
(* The inductive invariant.                                                *)

LEMMA InitInv == Init => IInv
  <1> SUFFICES ASSUME Init PROVE IInv
    OBVIOUS
  <1>1. Blocks = 1..MaxBlocks /\ 1 \in Blocks /\ 2 \in Blocks /\ 1 \in Levels
    BY BoundsAssumption DEF Blocks, Levels
  <1>2. TypeOK
    <2>1. Frame("body") \in Frames /\ Nothing \in Instructions
      BY DEF Frame, Frames, Nothing, Instructions, NoBlock
    <2>2. frames \in [Levels -> Frames] /\ last \in Instructions
      BY <2>1 DEF Init
    <2>3. term \in [Blocks -> Seq(SUBSET Blocks)] /\ code \in [Blocks -> Seq(Instructions)]
      BY DEF Init
    <2>4. at \in Blocks \X (Nat \ {0})
      BY <1>1 DEF Init, EntryBB
    <2>5. phi \in [Blocks -> SUBSET Blocks] /\ hasPhi \subseteq Blocks
      BY DEF Init
    <2>6. /\ linked \subseteq Blocks /\ insert \in Blocks /\ created \in Blocks
          /\ depth \in Levels /\ stmts \in 0..MaxStmts
      BY <1>1, BoundsAssumption DEF Init, EntryBB
    <2>7. /\ phase \in {"gen", "run", "done", "refused"} /\ returnsVoid \in BOOLEAN
          /\ returned \in BOOLEAN /\ tested \subseteq Blocks
      BY DEF Init
    <2> QED BY <2>2, <2>3, <2>4, <2>5, <2>6, <2>7 DEF TypeOK
  <1>3. BlocksOpen
    BY <1>1 DEF Init, BlocksOpen, EntryBB, RetBB
  <1>4. HeldBlocks
    BY <1>1 DEF Init, HeldBlocks, EntryBB, RetBB, Around, Held, MergeOf, ElseOf, Frame
  <1>5. FrameKinds /\ PhisSoFar
    BY <1>1 DEF Init, FrameKinds, PhisSoFar, Around, Frame
  <1> QED BY <1>1, <1>2, <1>3, <1>4, <1>5 DEF Init, IInv, Building, Complete, EntryBB

\* What the invariant of a function being built says, apart from types.
BuildInv == BlocksOpen /\ HeldBlocks /\ FrameKinds /\ PhisSoFar

Alike(f, g) == /\ f.kind = g.kind /\ f.else = g.else /\ f.merge = g.merge
               /\ f.thenEnd = g.thenEnd /\ f.loop = g.loop

\* Steps that branch nowhere, and open or close nothing but a domain.
LEMMA PlainStep ==
    ASSUME TypeOK, BuildInv, depth' \in Nat \ {0},
           UNCHANGED <<created, linked, insert, term, phi, hasPhi>>,
           frames'[1].kind = "body",
           \A n \in 1..depth' : \/ n \in Around /\ Alike(frames'[n], frames[n])
                                \/ n # 1 /\ frames'[n].kind = "domain",
           \A n \in Around : \/ n \in 1..depth' /\ Alike(frames'[n], frames[n])
                             \/ frames[n].kind = "domain"
    PROVE  BuildInv'
  <1>1. BlocksOpen'
    BY DEF BuildInv, BlocksOpen
  <1>2. \A f, g : Alike(f, g) => Held(f) = Held(g)
    BY DEF Alike, Held, MergeOf, ElseOf
  <1>3. \A f : f.kind = "domain" => Held(f) = {}
    BY DEF Held, MergeOf, ElseOf
  <1>4. HeldBlocks'
    <2>1. ASSUME NEW b \in 1..created, b \notin linked, b # RetBB
          PROVE  \E n \in 1..depth' : b \in Held(frames'[n])
      <3>1. PICK n \in Around : b \in Held(frames[n])
        BY <2>1 DEF BuildInv, HeldBlocks
      <3> QED BY <3>1, <1>2, <1>3
    <2>2. ASSUME NEW n \in 1..depth', NEW b \in Held(frames'[n])
          PROVE  b \in 1..created /\ b \notin linked /\ b # RetBB
      BY <2>2, <1>2, <1>3 DEF BuildInv, HeldBlocks
    <2>3. ASSUME NEW n \in 1..depth', NEW m \in 1..depth', n # m
          PROVE  Held(frames'[n]) \cap Held(frames'[m]) = {}
      <3>1. CASE Held(frames'[n]) = {} \/ Held(frames'[m]) = {}
        BY <3>1
      <3>2. CASE /\ n \in Around /\ Alike(frames'[n], frames[n])
                 /\ m \in Around /\ Alike(frames'[m], frames[m])
        BY <3>2, <2>3, <1>2 DEF BuildInv, HeldBlocks
      <3> QED BY <3>1, <3>2, <1>3
    <2>4. ASSUME NEW n \in 1..depth', frames'[n].kind = "then"
          PROVE  frames'[n].else # frames'[n].merge
      BY <2>4 DEF Alike, BuildInv, HeldBlocks
    <2>5. RetBB \notin linked
      BY DEF BuildInv, HeldBlocks
    <2> QED BY <2>1, <2>2, <2>3, <2>4, <2>5 DEF HeldBlocks, Around
  <1>5. FrameKinds'
    BY DEF BuildInv, FrameKinds, Around, Alike
  <1>6. PhisSoFar'
    <2>1. \A b : PredsIn(term', b) = PredsIn(term, b)
      OBVIOUS
    <2> QED BY <2>1 DEF BuildInv, PhisSoFar, Around, Alike, Preds
  <1> QED BY <1>1, <1>4, <1>5, <1>6 DEF BuildInv

LEMMA PredsLinked ==
    ASSUME TypeOK, BlocksOpen, NEW b \in Blocks, b \notin 1..created \/ b = RetBB
    PROVE  PredsIn(term, b) = {}
  BY DEF PredsIn, BlocksOpen

LEMMA FrameHeld ==
    /\ \A f : f.kind \notin {"then", "else"} => Held(f) = {}
    /\ \A f : f.kind = "then" => Held(f) = {f.else, f.merge}
    /\ \A f : f.kind = "else" => Held(f) = {f.merge}
  BY DEF Held, MergeOf, ElseOf

LEMMA TypeFacts ==
    ASSUME TypeOK
    PROVE  /\ created \in Nat /\ created <= MaxBlocks /\ created >= 1
           /\ insert \in Blocks /\ depth \in Nat /\ depth >= 1 /\ depth <= MaxDepth + 1
           /\ MaxBlocks \in Nat /\ MaxBlocks >= 2 /\ MaxDepth \in Nat
           /\ Blocks = 1..MaxBlocks /\ Levels = 1..(MaxDepth + 1)
           /\ \A n \in 1..depth : n \in Levels /\ frames[n] \in Frames
  BY BoundsAssumption DEF TypeOK, Blocks, Levels

\* The insert block is left with a branch to T, for a block that was not linked.
LEMMA BranchOpen ==
    ASSUME TypeOK, BlocksOpen, NEW T \in SUBSET Blocks, Branch(T),
           created' \in Nat, created <= created', T \subseteq (1..created') \ {RetBB},
           insert' \in (1..created') \ linked, insert' \in Blocks,
           linked' = linked \cup {insert'}
    PROVE  BlocksOpen'
  <1>1. /\ insert \in linked /\ linked \subseteq 1..created /\ RetBB <= created
        /\ EntryBB \in linked /\ insert' # insert /\ created \in Nat
    BY TypeFacts DEF BlocksOpen
  <1>2. term'[insert'] = <<>> /\ term[insert] = <<>>
    BY <1>1, BranchTerms DEF BlocksOpen
  <1>3. term'[insert] = <<T>>
    BY <1>2, BranchTerms
  <1>4. \A b \in linked' \ {insert'} : Len(term'[b]) = 1
    <2>1. Len(term'[insert]) = 1
      BY <1>3
    <2>2. \A b \in linked : b \in Blocks
      BY <1>1, TypeFacts
    <2> QED BY <2>1, <2>2, BranchTerms DEF BlocksOpen
  <1>5. \A b \in Blocks \ linked' : term'[b] = <<>>
    BY <1>1, BranchTerms DEF BlocksOpen
  <1>6. ASSUME NEW b \in Blocks, NEW k \in DOMAIN term'[b]
        PROVE  term'[b][k] \subseteq (1..created') \ {RetBB}
    <2>1. CASE b = insert
      <3>1. \A i \in DOMAIN <<T>> : <<T>>[i] = T
        OBVIOUS
      <3> QED BY <2>1, <3>1, <1>3
    <2>2. CASE b # insert
      BY <2>2, <1>1, BranchTerms DEF BlocksOpen
    <2> QED BY <2>1, <2>2
  <1>7. /\ insert' \in linked' /\ linked' \subseteq 1..created'
        /\ EntryBB \in linked' /\ RetBB <= created'
    <2>1. 1..created \subseteq 1..created'
      BY <1>1
    <2> QED BY <1>1, <2>1 DEF RetBB
  <1> QED BY <1>2, <1>4, <1>5, <1>6, <1>7 DEF BlocksOpen

LEMMA BeginIfStep == TypeOK /\ BuildInv /\ BeginIf => BuildInv'
  <1> SUFFICES ASSUME TypeOK, BuildInv, BeginIf PROVE BuildInv'
    OBVIOUS
  <1> DEFINE then == created + 1
             else == created + 2
             merge == created + 3
             f == [Frame("then") EXCEPT !.else = else, !.merge = merge]
  <1>1. /\ Branch({then, else}) /\ insert' = then /\ linked' = linked \cup {then}
        /\ created' = created + 3 /\ created + 3 <= MaxBlocks /\ depth' = depth + 1
        /\ frames' = [frames EXCEPT ![depth + 1] = f] /\ depth <= MaxDepth
        /\ UNCHANGED <<phi, hasPhi>>
    BY DEF BeginIf, MayStart, RoomFor, MayNest, Open
  <1>2. /\ f.kind = "then" /\ f.else = else /\ f.merge = merge
        /\ Held(f) = {else, merge}
    BY FrameHeld DEF Frame
  <1> HIDE DEF f
  <1>3. /\ frames'[depth + 1] = f /\ \A n \in Around : frames'[n] = frames[n]
        /\ 1..depth' = Around \cup {depth + 1} /\ depth + 1 \notin Around
    <2>1. frames \in [Levels -> Frames]
      BY DEF TypeOK
    <2>3. depth + 1 \in Levels /\ Around \subseteq Levels
      BY <1>1, TypeFacts DEF Around
    <2>2. 1..depth' = Around \cup {depth + 1} /\ depth + 1 \notin Around
      BY <1>1, TypeFacts DEF Around
    <2> QED BY <1>1, <2>1, <2>2, <2>3
  <1>4. /\ then \in Blocks /\ else \in Blocks /\ merge \in Blocks
        /\ then \notin 1..created /\ else \notin 1..created /\ merge \notin 1..created
        /\ created \in Nat /\ 1..created' = (1..created) \cup {then, else, merge}
    BY <1>1, TypeFacts
  <1>5. /\ insert \in linked /\ linked \subseteq 1..created /\ RetBB \in 1..created
        /\ EntryBB \in linked /\ RetBB \notin linked
    BY TypeFacts DEF BuildInv, BlocksOpen, HeldBlocks, RetBB
  <1>6. BlocksOpen'
    <2>1. /\ created' \in Nat /\ created <= created' /\ {then, else} \in SUBSET Blocks
          /\ {then, else} \subseteq (1..created') \ {RetBB}
          /\ insert' \in (1..created') \ linked /\ insert' \in Blocks
          /\ linked' = linked \cup {insert'}
      BY <1>1, <1>4, <1>5
    <2> QED BY <2>1, <1>1, BranchOpen DEF BuildInv
  <1>7. HeldBlocks'
    <2>1. ASSUME NEW b \in 1..created', b \notin linked', b # RetBB
          PROVE  \E n \in 1..depth' : b \in Held(frames'[n])
      <3>1. CASE b \in {else, merge}
        BY <3>1, <1>2, <1>3
      <3>2. CASE b \in 1..created
        BY <3>2, <2>1, <1>1, <1>3 DEF BuildInv, HeldBlocks
      <3> QED BY <3>1, <3>2, <2>1, <1>1, <1>4
    <2>2. ASSUME NEW n \in 1..depth', NEW b \in Held(frames'[n])
          PROVE  b \in 1..created' /\ b \notin linked' /\ b # RetBB
      <3>1. CASE n \in Around
        BY <3>1, <1>1, <1>3, <1>4, <2>2 DEF BuildInv, HeldBlocks
      <3>2. CASE n = depth + 1
        BY <3>2, <1>1, <1>2, <1>3, <1>4, <1>5, <2>2
      <3> QED BY <3>1, <3>2, <1>3
    <2>3. ASSUME NEW n \in 1..depth', NEW m \in 1..depth', n # m
          PROVE  Held(frames'[n]) \cap Held(frames'[m]) = {}
      <3>1. CASE n \in Around /\ m \in Around
        BY <3>1, <2>3, <1>3 DEF BuildInv, HeldBlocks
      <3>2. \A i \in Around : Held(frames'[i]) \cap Held(f) = {}
        BY <1>2, <1>3, <1>4 DEF BuildInv, HeldBlocks
      <3> QED BY <3>1, <3>2, <2>3, <1>3
    <2>4. \A n \in 1..depth' : frames'[n].kind = "then" => frames'[n].else # frames'[n].merge
      BY <1>2, <1>3, <1>4 DEF BuildInv, HeldBlocks
    <2> QED BY <2>1, <2>2, <2>3, <2>4, <1>1, <1>4, <1>5 DEF HeldBlocks, Around
  <1>8. FrameKinds'
    BY <1>1, <1>2, <1>3, TypeFacts DEF BuildInv, FrameKinds, Around
  <1>9. PhisSoFar'
    <2>1. ASSUME NEW b \in 1..created
          PROVE  b \in Blocks /\ PredsIn(term', b) = PredsIn(term, b)
      <3>1. b \in Blocks /\ b \notin {then, else} /\ {then, else} \in SUBSET Blocks
        BY <1>1, <1>4, TypeFacts
      <3> QED BY <3>1, <1>1, BranchPreds
    <2>2. PredsIn(term', merge) = {}
      BY <1>1, <1>4, BranchPreds, PredsLinked DEF BuildInv
    <2>3. \A b \in hasPhi' : phi'[b] = PredsIn(term', b)
      BY <2>1, <1>1, <1>5 DEF BuildInv, PhisSoFar, Preds
    <2>4. ASSUME NEW n \in 1..depth'
          PROVE  /\ frames'[n].kind = "then" => PredsIn(term', frames'[n].merge) = {}
                 /\ frames'[n].kind = "else" => PredsIn(term', frames'[n].merge) = {frames'[n].thenEnd}
      <3>1. CASE n \in Around
        <4>1. frames[n].kind \in {"then", "else"} => frames[n].merge \in 1..created
          BY <3>1, FrameHeld DEF BuildInv, HeldBlocks
        <4> QED BY <3>1, <4>1, <2>1, <1>3 DEF BuildInv, PhisSoFar, Preds
      <3>2. CASE n = depth + 1
        BY <3>2, <2>2, <1>2, <1>3
      <3> QED BY <3>1, <3>2, <1>3
    <2> QED BY <2>3, <2>4, <1>1, <1>5 DEF BuildInv, PhisSoFar, Preds, Around
  <1> QED BY <1>6, <1>7, <1>8, <1>9 DEF BuildInv

\* One block is linked, and no statement comes to hold another.
LEMMA HeldStep ==
    ASSUME TypeOK, BlocksOpen, HeldBlocks, created <= created', insert' # RetBB,
           created' \in Nat, linked' = linked \cup {insert'},
           1..created' \subseteq (1..created) \cup {insert'},
           \A n \in 1..depth' : \/ Held(frames'[n]) = {}
                                \/ n \in Around /\ Held(frames'[n]) \subseteq Held(frames[n]) \ {insert'},
           \A n \in Around : \A b \in Held(frames[n]) :
               b = insert' \/ (n \in 1..depth' /\ b \in Held(frames'[n])),
           \A n \in 1..depth' : frames'[n].kind = "then" => n \in Around /\ frames'[n] = frames[n]
    PROVE  HeldBlocks'
  <1>1. \A n \in 1..depth' : \A b \in Held(frames'[n]) :
            n \in Around /\ b \in Held(frames[n]) /\ b # insert'
    OBVIOUS
  <1>2. 1..created \subseteq 1..created'
    BY TypeFacts
  <1>3. ASSUME NEW b \in 1..created', b \notin linked', b # RetBB
        PROVE  \E n \in 1..depth' : b \in Held(frames'[n])
    <2>1. b \in 1..created /\ b \notin linked /\ b # insert'
      BY <1>3
    <2>2. PICK n \in Around : b \in Held(frames[n])
      BY <2>1, <1>3 DEF HeldBlocks
    <2> QED BY <2>1, <2>2
  <1>4. \A n \in 1..depth' : \A b \in Held(frames'[n]) :
            b \in 1..created' /\ b \notin linked' /\ b # RetBB
    BY <1>1, <1>2 DEF HeldBlocks
  <1>5. \A n, m \in 1..depth' : n # m => Held(frames'[n]) \cap Held(frames'[m]) = {}
    BY <1>1 DEF HeldBlocks
  <1>6. \A n \in 1..depth' : frames'[n].kind = "then" => frames'[n].else # frames'[n].merge
    BY DEF HeldBlocks
  <1>7. RetBB \notin linked'
    BY DEF HeldBlocks
  <1> QED BY <1>3, <1>4, <1>5, <1>6, <1>7 DEF HeldBlocks, Around

LEMMA BeginElseStep == TypeOK /\ BuildInv /\ BeginElse => BuildInv'
  <1> SUFFICES ASSUME TypeOK, BuildInv, BeginElse PROVE BuildInv'
    OBVIOUS
  <1> DEFINE f == [Top EXCEPT !.kind = "else", !.thenEnd = ThenEnd,
                              !.thenReturns = Top.returns, !.returns = FALSE]
             T == {Top.merge}
  <1>1. /\ Top.kind = "then" /\ Branch(T) /\ insert' = Top.else
        /\ linked' = linked \cup {insert'}
        /\ frames' = [frames EXCEPT ![depth] = f] /\ depth' = depth
        /\ UNCHANGED <<created, phi, hasPhi>>
    BY DEF BeginElse, SetTop
  <1>2. depth \in Around /\ Top = frames[depth] /\ Top \in Frames /\ depth \in Levels
        /\ frames \in [Levels -> Frames] /\ Around \subseteq Levels
    BY TypeFacts DEF Around, Top, TypeOK
  <1>3. /\ f.kind = "else" /\ f.merge = Top.merge /\ f.thenEnd = insert /\ f.loop = Top.loop
    BY <1>2 DEF ThenEnd, Frames
  <1> HIDE DEF f
  <1>4. frames'[depth] = f /\ \A n \in Around \ {depth} : frames'[n] = frames[n]
    BY <1>1, <1>2
  <1>5. Held(Top) = {Top.else, Top.merge} /\ Held(f) = {Top.merge} /\ Top.else # Top.merge
    BY <1>1, <1>2, <1>3, FrameHeld DEF BuildInv, HeldBlocks
  <1>6. /\ Top.else \in (1..created) \ linked /\ Top.merge \in (1..created) \ linked
        /\ Top.else # RetBB /\ Top.merge # RetBB
    BY <1>2, <1>5 DEF BuildInv, HeldBlocks
  <1>7. T \in SUBSET Blocks /\ Top.else \in Blocks /\ Top.merge \in Blocks /\ created \in Nat
    BY <1>6, TypeFacts
  <1>8. BlocksOpen'
    <2>1. /\ created' \in Nat /\ created <= created' /\ T \subseteq (1..created') \ {RetBB}
          /\ insert' \in (1..created') \ linked /\ insert' \in Blocks
      BY <1>1, <1>6, <1>7
    <2> QED BY <2>1, <1>1, <1>7, BranchOpen DEF BuildInv
  <1>9. HeldBlocks'
    <2>1. \A n, m \in Around : n # m => Held(frames[n]) \cap Held(frames[m]) = {}
      BY DEF BuildInv, HeldBlocks
    <2>2. \A n \in 1..depth' : /\ n \in Around
                               /\ Held(frames'[n]) \subseteq Held(frames[n]) \ {insert'}
      BY <2>1, <1>1, <1>2, <1>4, <1>5 DEF Around
    <2>3. \A n \in Around : \A b \in Held(frames[n]) :
             b = insert' \/ (n \in 1..depth' /\ b \in Held(frames'[n]))
      BY <1>1, <1>2, <1>4, <1>5 DEF Around
    <2>4. \A n \in 1..depth' : frames'[n].kind = "then" => n \in Around /\ frames'[n] = frames[n]
      BY <1>1, <1>3, <1>4 DEF Around
    <2>5. /\ created <= created' /\ insert' # RetBB /\ created' \in Nat
          /\ 1..created' \subseteq (1..created) \cup {insert'}
      BY <1>1, <1>6, <1>7
    <2> QED BY <2>2, <2>3, <2>4, <2>5, <1>1, HeldStep DEF BuildInv
  <1>10. FrameKinds'
    <2>1. depth # 1
      BY <1>1, <1>2 DEF BuildInv, FrameKinds
    <2>2. 1 \in Around
      BY TypeFacts DEF Around
    <2> QED BY <2>1, <2>2, <1>1, <1>3, <1>4 DEF BuildInv, FrameKinds, Around
  <1>11. PhisSoFar'
    <2>1. \A b \in Blocks \ T : PredsIn(term', b) = PredsIn(term, b)
      BY <1>1, <1>7, BranchPreds
    <2>2. PredsIn(term', Top.merge) = {insert}
      <3>1. PredsIn(term, Top.merge) = {}
        BY <1>1, <1>2 DEF BuildInv, PhisSoFar, Preds
      <3> QED BY <3>1, <1>1, <1>7, BranchPreds
    <2>3. hasPhi \subseteq Blocks \ T /\ hasPhi \subseteq linked
      BY <1>6 DEF BuildInv, PhisSoFar, TypeOK
    <2>4. ASSUME NEW n \in Around \ {depth}
          PROVE  /\ frames'[n].kind = "then" => PredsIn(term', frames'[n].merge) = {}
                 /\ frames'[n].kind = "else" => PredsIn(term', frames'[n].merge) = {frames'[n].thenEnd}
      <3>1. frames[n].kind \in {"then", "else"} => frames[n].merge \in Held(frames[n])
        BY FrameHeld
      <3>2. frames[n].kind \in {"then", "else"} => frames[n].merge \in Blocks \ T
        <4>1. Held(frames[n]) \cap Held(Top) = {}
          BY <1>2 DEF BuildInv, HeldBlocks
        <4>2. \A b \in Held(frames[n]) : b \in 1..created
          BY DEF BuildInv, HeldBlocks
        <4> QED BY <3>1, <4>1, <4>2, <1>5, TypeFacts
      <3> QED BY <3>2, <2>1, <1>4 DEF BuildInv, PhisSoFar, Preds
    <2>5. /\ frames'[depth].kind = "else" /\ frames'[depth].merge = Top.merge
          /\ frames'[depth].thenEnd = insert
      BY <1>3, <1>4
    <2> QED BY <2>1, <2>2, <2>3, <2>4, <2>5, <1>1, <1>4 DEF BuildInv, PhisSoFar, Around, Preds
  <1> QED BY <1>8, <1>9, <1>10, <1>11 DEF BuildInv

LEMMA EndIfStep == TypeOK /\ BuildInv /\ EndIf => BuildInv'
  <1> SUFFICES ASSUME TypeOK, BuildInv, EndIf PROVE BuildInv'
    OBVIOUS
  <1> DEFINE f == [Outer EXCEPT !.returns = @ \/ IfReturns]
             T == {Top.merge}
  <1>1. /\ Top.kind = "else" /\ Branch(T) /\ insert' = Top.merge
        /\ linked' = linked \cup {insert'}
        /\ frames' = [frames EXCEPT ![depth] = Frame("body"), ![depth - 1] = f]
        /\ depth' = depth - 1
        /\ phi' = [phi EXCEPT ![Top.merge] = {Top.thenEnd, insert}]
        /\ hasPhi' = hasPhi \cup {Top.merge} /\ UNCHANGED created
    BY DEF EndIf, Close
  <1>2. depth \in Around /\ Top = frames[depth] /\ Top \in Frames /\ depth \in Levels
        /\ frames \in [Levels -> Frames] /\ Around \subseteq Levels
    BY TypeFacts DEF Around, Top, TypeOK
  <1>3. depth # 1 /\ 1 \in Around
    BY <1>1, <1>2, TypeFacts DEF BuildInv, FrameKinds, Around
  <1>4. /\ depth' >= 1 /\ 1..depth' = Around \ {depth} /\ depth - 1 \in Around \ {depth}
        /\ Outer = frames[depth - 1] /\ Outer \in Frames
    BY <1>1, <1>2, <1>3, TypeFacts DEF Around, Outer
  <1>5. Alike(f, Outer)
    BY <1>4 DEF Alike, Frames
  <1> HIDE DEF f
  <1>6. /\ frames'[depth - 1] = f
        /\ \A n \in 1..depth' : n # depth - 1 => frames'[n] = frames[n]
    BY <1>1, <1>2, <1>4
  <1>7. \A n \in 1..depth' : Alike(frames'[n], frames[n]) /\ Held(frames'[n]) = Held(frames[n])
    BY <1>4, <1>5, <1>6 DEF Alike, Held, MergeOf, ElseOf
  <1>8. Held(Top) = {Top.merge}
    BY <1>1, <1>2, FrameHeld
  <1>9. Top.merge \in (1..created) \ linked /\ Top.merge # RetBB
    BY <1>2, <1>8 DEF BuildInv, HeldBlocks
  <1>10. T \in SUBSET Blocks /\ Top.merge \in Blocks /\ created \in Nat
    BY <1>9, TypeFacts
  <1>11. \A n \in 1..depth' : n \in Around /\ Held(frames[n]) \cap {Top.merge} = {}
    BY <1>2, <1>4, <1>8 DEF BuildInv, HeldBlocks
  <1>12. BlocksOpen'
    <2>1. /\ created' \in Nat /\ created <= created' /\ T \subseteq (1..created') \ {RetBB}
          /\ insert' \in (1..created') \ linked /\ insert' \in Blocks
      BY <1>1, <1>9, <1>10
    <2> QED BY <2>1, <1>1, <1>10, BranchOpen DEF BuildInv
  <1>13. HeldBlocks'
    <2>1. created' \in Nat
      BY <1>1, <1>10
    <2>2. \A b \in 1..created' : b \notin linked' /\ b # RetBB =>
             \E n \in 1..depth' : b \in Held(frames'[n])
      BY <1>1, <1>2, <1>4, <1>7, <1>8 DEF BuildInv, HeldBlocks
    <2>3. \A n \in 1..depth' : \A b \in Held(frames'[n]) :
             b \in 1..created' /\ b \notin linked' /\ b # RetBB
      BY <1>1, <1>7, <1>11 DEF BuildInv, HeldBlocks
    <2>4. \A n, m \in 1..depth' : n # m => Held(frames'[n]) \cap Held(frames'[m]) = {}
      BY <1>7, <1>11 DEF BuildInv, HeldBlocks
    <2>5. \A n \in 1..depth' : frames'[n].kind = "then" => frames'[n].else # frames'[n].merge
      BY <1>7, <1>11 DEF BuildInv, HeldBlocks, Alike
    <2>6. RetBB \notin linked'
      BY <1>1, <1>9 DEF BuildInv, HeldBlocks
    <2> QED BY <2>2, <2>3, <2>4, <2>5, <2>6 DEF HeldBlocks, Around
  <1>14. PhisSoFar'
    <2>1. \A b \in Blocks \ T : PredsIn(term', b) = PredsIn(term, b)
      BY <1>1, <1>10, BranchPreds
    <2>2. PredsIn(term', Top.merge) = {Top.thenEnd, insert}
      <3>1. PredsIn(term, Top.merge) = {Top.thenEnd}
        BY <1>1, <1>2 DEF BuildInv, PhisSoFar, Preds
      <3>2. PredsIn(term', Top.merge) = PredsIn(term, Top.merge) \cup {insert}
        BY <1>1, <1>10, BranchPreds
      <3> QED BY <3>1, <3>2
    <2>3. /\ phi'[Top.merge] = {Top.thenEnd, insert}
          /\ \A b \in Blocks \ T : phi'[b] = phi[b]
      BY <1>1, <1>10 DEF TypeOK
    <2>4. hasPhi \subseteq Blocks \ T /\ hasPhi' \subseteq linked'
      BY <1>1, <1>9 DEF BuildInv, PhisSoFar, TypeOK
    <2>5. \A b \in hasPhi' : phi'[b] = PredsIn(term', b)
      BY <2>1, <2>2, <2>3, <2>4, <1>1 DEF BuildInv, PhisSoFar, Preds
    <2>6. ASSUME NEW n \in 1..depth'
          PROVE  /\ frames'[n].kind = "then" => PredsIn(term', frames'[n].merge) = {}
                 /\ frames'[n].kind = "else" => PredsIn(term', frames'[n].merge) = {frames'[n].thenEnd}
      <3>1. frames[n].kind \in {"then", "else"} => frames[n].merge \in Held(frames[n])
        BY FrameHeld
      <3>2. frames[n].kind \in {"then", "else"} => frames[n].merge \in Blocks \ T
        <4>1. \A b \in Held(frames[n]) : b \in 1..created
          BY <1>11 DEF BuildInv, HeldBlocks
        <4> QED BY <3>1, <4>1, <1>11, TypeFacts
      <3> QED BY <3>2, <2>1, <1>7, <1>11 DEF BuildInv, PhisSoFar, Alike, Preds
    <2> QED BY <2>4, <2>5, <2>6 DEF PhisSoFar, Around, Preds
  <1>15. FrameKinds'
    <2>1. 1 \in 1..depth'
      BY <1>3, <1>4
    <2>2. \A n \in 1..depth' : frames'[n].kind = frames[n].kind /\ frames'[n].loop = frames[n].loop
      BY <1>7 DEF Alike
    <2>3. frames'[1].kind = "body" /\ \A n \in 1..depth' : n # 1 => frames'[n].kind # "body"
      BY <2>1, <2>2, <1>11 DEF BuildInv, FrameKinds
    <2>4. ASSUME NEW n \in 1..depth', frames'[n].kind = "for"
          PROVE  frames'[n].loop \in hasPhi'
      <3>1. n \in Around /\ frames[n].kind = "for" /\ frames'[n].loop = frames[n].loop
        BY <2>2, <2>4, <1>11
      <3> QED BY <3>1, <1>1 DEF BuildInv, FrameKinds
    <2> QED BY <2>3, <2>4 DEF FrameKinds, Around
  <1> QED BY <1>12, <1>13, <1>14, <1>15 DEF BuildInv

LEMMA BeginForStep == TypeOK /\ BuildInv /\ BeginFor => BuildInv'
  <1> SUFFICES ASSUME TypeOK, BuildInv, BeginFor PROVE BuildInv'
    OBVIOUS
  <1> DEFINE loop == created + 1
             f == [Frame("for") EXCEPT !.loop = loop]
             T == {loop}
  <1>1. /\ Branch(T) /\ insert' = loop /\ linked' = linked \cup {insert'}
        /\ created' = created + 1 /\ created + 2 <= MaxBlocks /\ depth' = depth + 1
        /\ frames' = [frames EXCEPT ![depth + 1] = f] /\ depth <= MaxDepth
        /\ phi' = [phi EXCEPT ![loop] = {insert}] /\ hasPhi' = hasPhi \cup {loop}
    BY DEF BeginFor, MayStart, RoomFor, MayNest, Open
  <1>2. f.kind = "for" /\ f.loop = loop /\ Held(f) = {}
    BY FrameHeld DEF Frame
  <1> HIDE DEF f
  <1>3. /\ frames'[depth + 1] = f /\ \A n \in Around : frames'[n] = frames[n]
        /\ 1..depth' = Around \cup {depth + 1} /\ depth + 1 \notin Around /\ 1 \in Around
    <2>1. frames \in [Levels -> Frames]
      BY DEF TypeOK
    <2>2. depth + 1 \in Levels /\ Around \subseteq Levels
      BY <1>1, TypeFacts DEF Around
    <2>3. 1..depth' = Around \cup {depth + 1} /\ depth + 1 \notin Around /\ 1 \in Around
      BY <1>1, TypeFacts DEF Around
    <2> QED BY <1>1, <2>1, <2>2, <2>3
  <1>4. /\ loop \in Blocks /\ loop \notin 1..created /\ created \in Nat
        /\ 1..created' = (1..created) \cup {loop}
    BY <1>1, TypeFacts
  <1>5. linked \subseteq 1..created /\ RetBB \in 1..created /\ 1..created \subseteq Blocks
    BY TypeFacts DEF BuildInv, BlocksOpen, RetBB
  <1>6. BlocksOpen'
    <2>1. /\ created' \in Nat /\ created <= created' /\ T \in SUBSET Blocks
          /\ T \subseteq (1..created') \ {RetBB}
          /\ insert' \in (1..created') \ linked /\ insert' \in Blocks
      BY <1>1, <1>4, <1>5
    <2> QED BY <2>1, <1>1, BranchOpen DEF BuildInv
  <1>7. HeldBlocks'
    <2>1. /\ created <= created' /\ insert' # RetBB /\ created' \in Nat
          /\ 1..created' \subseteq (1..created) \cup {insert'}
      BY <1>1, <1>4, <1>5
    <2>2. \A n \in Around : insert' \notin Held(frames[n])
      BY <1>1, <1>4 DEF BuildInv, HeldBlocks
    <2>3. \A n \in 1..depth' : \/ Held(frames'[n]) = {}
                               \/ n \in Around /\ Held(frames'[n]) \subseteq Held(frames[n]) \ {insert'}
      BY <2>2, <1>2, <1>3
    <2>4. \A n \in Around : \A b \in Held(frames[n]) :
             b = insert' \/ (n \in 1..depth' /\ b \in Held(frames'[n]))
      BY <1>3
    <2>5. \A n \in 1..depth' : frames'[n].kind = "then" => n \in Around /\ frames'[n] = frames[n]
      BY <1>2, <1>3
    <2> QED BY <2>1, <2>3, <2>4, <2>5, <1>1, HeldStep DEF BuildInv
  <1>8. FrameKinds'
    <2>1. \A n \in 1..depth' : n # 1 => frames'[n].kind # "body"
      BY <1>2, <1>3 DEF BuildInv, FrameKinds
    <2>2. \A n \in 1..depth' : frames'[n].kind = "for" => frames'[n].loop \in hasPhi'
      BY <1>1, <1>2, <1>3 DEF BuildInv, FrameKinds
    <2> QED BY <2>1, <2>2, <1>3 DEF BuildInv, FrameKinds, Around
  <1>9. PhisSoFar'
    <2>1. \A b \in Blocks \ T : PredsIn(term', b) = PredsIn(term, b)
      BY <1>1, <1>4, BranchPreds
    <2>2. PredsIn(term', loop) = {insert}
      <3>1. PredsIn(term, loop) = {}
        BY <1>4, PredsLinked DEF BuildInv
      <3>2. PredsIn(term', loop) = PredsIn(term, loop) \cup {insert}
        BY <1>1, <1>4, BranchPreds
      <3> QED BY <3>1, <3>2
    <2>3. phi'[loop] = {insert} /\ \A b \in Blocks \ T : phi'[b] = phi[b]
      BY <1>1, <1>4 DEF TypeOK
    <2>4. hasPhi \subseteq Blocks \ T /\ hasPhi' \subseteq linked'
      BY <1>1, <1>4, <1>5 DEF BuildInv, PhisSoFar, TypeOK
    <2>5. \A b \in hasPhi' : phi'[b] = PredsIn(term', b)
      BY <2>1, <2>2, <2>3, <2>4, <1>1 DEF BuildInv, PhisSoFar, Preds
    <2>6. ASSUME NEW n \in Around
          PROVE  /\ frames'[n].kind = "then" => PredsIn(term', frames'[n].merge) = {}
                 /\ frames'[n].kind = "else" => PredsIn(term', frames'[n].merge) = {frames'[n].thenEnd}
      <3>1. frames[n].kind \in {"then", "else"} => frames[n].merge \in Held(frames[n])
        BY FrameHeld
      <3>2. frames[n].kind \in {"then", "else"} => frames[n].merge \in Blocks \ T
        BY <3>1, <1>4, <1>5 DEF BuildInv, HeldBlocks
      <3> QED BY <3>2, <2>1, <1>3 DEF BuildInv, PhisSoFar, Preds
    <2> QED BY <2>4, <2>5, <2>6, <1>2, <1>3 DEF PhisSoFar, Around, Preds
  <1> QED BY <1>6, <1>7, <1>8, <1>9 DEF BuildInv

LEMMA EndForStep == TypeOK /\ BuildInv /\ EndFor => BuildInv'
  <1> SUFFICES ASSUME TypeOK, BuildInv, EndFor PROVE BuildInv'
    OBVIOUS
  <1> DEFINE after == created + 1
             T == {Top.loop, after}
  <1>1. /\ Top.kind = "for" /\ Branch(T) /\ insert' = after /\ linked' = linked \cup {insert'}
        /\ created' = created + 1 /\ created + 1 <= MaxBlocks /\ depth' = depth - 1
        /\ frames' = [frames EXCEPT ![depth] = Frame("body"), ![depth - 1] = Outer]
        /\ phi' = [phi EXCEPT ![Top.loop] = @ \cup {insert}] /\ UNCHANGED hasPhi
    BY DEF EndFor, Close, RoomFor
  <1>2. depth \in Around /\ Top = frames[depth] /\ depth \in Levels
        /\ frames \in [Levels -> Frames] /\ Around \subseteq Levels
    BY TypeFacts DEF Around, Top, TypeOK
  <1>3. depth # 1 /\ 1 \in Around /\ Top.loop \in hasPhi
    BY <1>1, <1>2, TypeFacts DEF BuildInv, FrameKinds, Around
  <1>4. /\ depth' >= 1 /\ 1..depth' = Around \ {depth} /\ depth - 1 \in Around \ {depth}
        /\ Outer = frames[depth - 1]
    BY <1>1, <1>2, <1>3, TypeFacts DEF Around, Outer
  <1>5. \A n \in 1..depth' : n \in Around /\ frames'[n] = frames[n]
    BY <1>1, <1>2, <1>4
  <1>6. /\ after \in Blocks /\ after \notin 1..created /\ created \in Nat
        /\ 1..created' = (1..created) \cup {after}
    BY <1>1, TypeFacts
  <1>7. linked \subseteq 1..created /\ RetBB \in 1..created /\ 1..created \subseteq Blocks
    BY TypeFacts DEF BuildInv, BlocksOpen, RetBB
  <1>8. Top.loop \in linked /\ Top.loop # RetBB /\ T \in SUBSET Blocks
    BY <1>3, <1>6, <1>7 DEF BuildInv, HeldBlocks, PhisSoFar
  <1>9. BlocksOpen'
    <2>1. created' \in Nat /\ created <= created'
      BY <1>1, <1>6
    <2>2. T \subseteq (1..created') \ {RetBB}
      BY <1>6, <1>7, <1>8
    <2>3. insert' \in (1..created') \ linked /\ insert' \in Blocks
      BY <1>1, <1>6, <1>7
    <2> QED BY <2>1, <2>2, <2>3, <1>1, <1>8, BranchOpen DEF BuildInv
  <1>10. Held(Top) = {}
    BY <1>1, FrameHeld
  <1>11. HeldBlocks'
    <2>1. /\ created <= created' /\ insert' # RetBB /\ created' \in Nat
          /\ 1..created' \subseteq (1..created) \cup {insert'}
      BY <1>1, <1>6, <1>7
    <2>2. \A n \in Around : insert' \notin Held(frames[n])
      BY <1>1, <1>6 DEF BuildInv, HeldBlocks
    <2>3. \A n \in 1..depth' : n \in Around /\ Held(frames'[n]) \subseteq Held(frames[n]) \ {insert'}
      BY <2>2, <1>5
    <2>4. \A n \in Around : \A b \in Held(frames[n]) : n \in 1..depth' /\ b \in Held(frames'[n])
      BY <1>2, <1>4, <1>5, <1>10
    <2> QED BY <2>1, <2>3, <2>4, <1>1, <1>5, HeldStep DEF BuildInv
  <1>12. FrameKinds'
    <2>1. 1 \in 1..depth'
      BY <1>3, <1>4
    <2>2. frames'[1].kind = "body" /\ \A n \in 1..depth' : n # 1 => frames'[n].kind # "body"
      BY <2>1, <1>5 DEF BuildInv, FrameKinds
    <2>3. ASSUME NEW n \in 1..depth', frames'[n].kind = "for"
          PROVE  frames'[n].loop \in hasPhi'
      <3>1. n \in Around /\ frames'[n] = frames[n]
        BY <1>5
      <3> QED BY <2>3, <3>1, <1>1 DEF BuildInv, FrameKinds
    <2> QED BY <2>2, <2>3 DEF FrameKinds, Around
  <1>13. PhisSoFar'
    <2>1. \A b \in Blocks : PredsIn(term', b) = PredsIn(term, b) \cup (IF b \in T THEN {insert} ELSE {})
      BY <1>1, <1>8, BranchPreds
    <2>2. hasPhi \subseteq Blocks \ {after} /\ hasPhi \subseteq linked
      BY <1>6, <1>7 DEF BuildInv, PhisSoFar
    <2>3. /\ phi'[Top.loop] = phi[Top.loop] \cup {insert}
          /\ \A b \in Blocks \ {Top.loop} : phi'[b] = phi[b]
      BY <1>1, <1>7, <1>8 DEF TypeOK
    <2>4. \A b \in hasPhi : phi'[b] = PredsIn(term', b)
      BY <2>1, <2>2, <2>3 DEF BuildInv, PhisSoFar, Preds
    <2>5. ASSUME NEW n \in Around
          PROVE  /\ frames[n].kind = "then" => PredsIn(term', frames[n].merge) = {}
                 /\ frames[n].kind = "else" => PredsIn(term', frames[n].merge) = {frames[n].thenEnd}
      <3>1. frames[n].kind \in {"then", "else"} => frames[n].merge \in Held(frames[n])
        BY FrameHeld
      <3>2. frames[n].kind \in {"then", "else"} => frames[n].merge \in Blocks \ T
        BY <3>1, <1>6, <1>7, <1>8 DEF BuildInv, HeldBlocks
      <3> QED BY <3>2, <2>1 DEF BuildInv, PhisSoFar, Preds
    <2> QED BY <2>2, <2>4, <2>5, <1>1, <1>5 DEF PhisSoFar, Around, Preds
  <1> QED BY <1>9, <1>11, <1>12, <1>13 DEF BuildInv

LEMMA EndFunctionStep == TypeOK /\ BuildInv /\ EndFunction => WellFormed'
  <1> SUFFICES ASSUME TypeOK, BuildInv, EndFunction PROVE WellFormed'
    OBVIOUS
  <1>1. /\ Top.kind = "body" /\ linked' = linked \cup {RetBB}
        /\ term' = [term EXCEPT ![insert] = Append(@, {RetBB}), ![RetBB] = Append(@, {})]
        /\ UNCHANGED <<created, phi, hasPhi>>
    BY DEF EndFunction
  <1>2. /\ insert \in linked /\ linked \subseteq 1..created /\ RetBB \in 1..created
        /\ RetBB \notin linked /\ 1..created \subseteq Blocks /\ insert # RetBB
    BY TypeFacts DEF BuildInv, BlocksOpen, HeldBlocks, RetBB
  <1>3. Around = {1} /\ Held(frames[1]) = {}
    <2>1. depth = 1 /\ frames[1].kind = "body"
      BY <1>1, TypeFacts DEF BuildInv, FrameKinds, Around, Top
    <2>2. 1..1 = {1}
      OBVIOUS
    <2> QED BY <2>1, <2>2, FrameHeld DEF Around
  <1>4. linked' = 1..created'
    BY <1>1, <1>2, <1>3 DEF BuildInv, HeldBlocks
  <1>5. /\ term[insert] = <<>> /\ term[RetBB] = <<>>
        /\ \A b \in linked \ {insert} : Len(term[b]) = 1 /\ term[b] \in Seq(SUBSET Blocks)
    BY <1>2 DEF BuildInv, BlocksOpen, TypeOK
  <1>6. /\ term'[insert] = <<{RetBB}>> /\ term'[RetBB] = <<{}>>
        /\ \A b \in Blocks \ {insert, RetBB} : term'[b] = term[b]
    BY <1>1, <1>2, <1>5 DEF TypeOK
  <1>7. \A b \in linked' : Len(term'[b]) = 1 /\ term'[b][1] \subseteq linked'
    <2>1. ASSUME NEW b \in linked \ {insert}
          PROVE  Len(term'[b]) = 1 /\ term'[b][1] \subseteq linked'
      <3>1. term'[b] = term[b] /\ Len(term[b]) = 1 /\ 1 \in DOMAIN term[b] /\ b \in Blocks
        BY <1>2, <1>5, <1>6
      <3> QED BY <3>1, <1>1, <1>4 DEF BuildInv, BlocksOpen
    <2>2. Len(<<{RetBB}>>) = 1 /\ <<{RetBB}>>[1] = {RetBB}
      OBVIOUS
    <2>3. Len(<<{}>>) = 1 /\ <<{}>>[1] = {}
      OBVIOUS
    <2> QED BY <2>1, <2>2, <2>3, <1>1, <1>6
  <1>8. \A b \in hasPhi : phi'[b] = PredsIn(term', b)
    <2>1. ASSUME NEW b \in linked, NEW a \in Blocks
          PROVE  (\E i \in DOMAIN term'[a] : b \in term'[a][i])
                   <=> (\E i \in DOMAIN term[a] : b \in term[a][i])
      <3>1. b # RetBB
        BY <1>2
      <3>2. CASE a = insert
        <4>1. \A i \in DOMAIN <<{RetBB}>> : <<{RetBB}>>[i] = {RetBB}
          OBVIOUS
        <4> QED BY <3>1, <3>2, <4>1, <1>5, <1>6
      <3>3. CASE a = RetBB
        <4>1. \A i \in DOMAIN <<{}>> : <<{}>>[i] = {}
          OBVIOUS
        <4> QED BY <3>3, <4>1, <1>5, <1>6
      <3>4. CASE a \notin {insert, RetBB}
        BY <3>4, <1>6
      <3> QED BY <3>2, <3>3, <3>4
    <2>2. \A b \in linked : PredsIn(term', b) = PredsIn(term, b)
      BY <2>1 DEF PredsIn
    <2> QED BY <2>2, <1>1 DEF BuildInv, PhisSoFar, Preds
  <1> QED BY <1>1, <1>4, <1>7, <1>8 DEF WellFormed, Preds

-----------------------------------------------------------------------------
(* Types.                                                                  *)

LEMMA EmitTyped ==
    ASSUME TypeOK, FrameKinds, NEW op \in {"exp", "ret", "enter", "test"},
           NEW loop \in Blocks \cup {NoBlock}, Emit(op, loop)
    PROVE  code' \in [Blocks -> Seq(Instructions)]
  <1>1. WithinLoops \subseteq Blocks
    BY DEF WithinLoops, FrameKinds, Around, TypeOK
  <1>2. Inst(op, loop) \in Instructions
    BY <1>1 DEF Inst, Instructions
  <1>3. code \in [Blocks -> Seq(Instructions)] /\ insert \in Blocks
    BY DEF TypeOK
  <1> QED BY <1>2, <1>3 DEF Emit

LEMMA FrameTyped ==
    \A k \in {"body", "domain", "then", "else", "for"} : Frame(k) \in Frames
  BY DEF Frame, Frames, NoBlock

LEMMA OuterTyped ==
    ASSUME TypeOK, FrameKinds, Top.kind # "body"
    PROVE  depth - 1 \in Levels /\ Outer \in Frames /\ Top \in Frames
  <1>1. depth # 1
    BY DEF FrameKinds, Top
  <1> QED BY <1>1, TypeFacts DEF Outer, Top

LEMMA CloseTyped ==
    ASSUME TypeOK, FrameKinds, Top.kind # "body", NEW f \in Frames, Close(f)
    PROVE  frames' \in [Levels -> Frames] /\ depth' \in Levels
  <1>1. frames \in [Levels -> Frames]
    BY DEF TypeOK
  <1>2. frames' = [[frames EXCEPT ![depth] = Frame("body")] EXCEPT ![depth - 1] = f]
        /\ depth' = depth - 1
    BY DEF Close
  <1>3. [frames EXCEPT ![depth] = Frame("body")] \in [Levels -> Frames]
    BY <1>1, FrameTyped
  <1> QED BY <1>2, <1>3, OuterTyped

LEMMA OpenTyped ==
    ASSUME TypeOK, MayNest, NEW f \in Frames, Open(f)
    PROVE  frames' \in [Levels -> Frames] /\ depth' \in Levels
  <1>1. frames \in [Levels -> Frames]
    BY DEF TypeOK
  <1>2. depth + 1 \in Levels
    BY TypeFacts DEF MayNest
  <1> QED BY <1>1, <1>2 DEF Open

LEMMA SetTopTyped ==
    ASSUME TypeOK, NEW f \in Frames, SetTop(f)
    PROVE  frames' \in [Levels -> Frames] /\ depth' \in Levels
  BY DEF SetTop, TypeOK

LEMMA StmtsTyped ==
    ASSUME TypeOK, NEW n \in Nat, MayStart(n)
    PROVE  stmts' \in 0..MaxStmts
  BY BoundsAssumption DEF TypeOK, MayStart

LEMMA TypeStep == IInv /\ Next => TypeOK'
  <1> SUFFICES ASSUME IInv, Next PROVE TypeOK'
    OBVIOUS
  <1>0. TypeOK /\ (Generating => FrameKinds)
    BY DEF IInv, Generating, Building
  <1> USE <1>0
  <1>1. CASE GenExpression
    <2>1. code' \in [Blocks -> Seq(Instructions)]
      BY <1>1, EmitTyped DEF GenExpression, MayStart
    <2>2. stmts' \in 0..MaxStmts
      BY <1>1, StmtsTyped DEF GenExpression
    <2> QED BY <1>1, <2>1, <2>2 DEF GenExpression, TypeOK, run
  <1>2. CASE GenReturn
    <2>1. code' \in [Blocks -> Seq(Instructions)]
      BY <1>2, EmitTyped DEF GenReturn, MayStart
    <2>2. stmts' \in 0..MaxStmts
      BY <1>2, StmtsTyped DEF GenReturn
    <2>3. Top \in Frames
      BY TypeFacts DEF Top
    <2>4. [Top EXCEPT !.returns = TRUE] \in Frames
      BY <2>3 DEF Frames
    <2>5. frames' \in [Levels -> Frames] /\ depth' \in Levels
      BY <1>2, <2>4, SetTopTyped DEF GenReturn
    <2> QED BY <1>2, <2>1, <2>2, <2>5 DEF GenReturn, TypeOK, run
  <1>3. CASE BeginDomain
    <2>1. frames' \in [Levels -> Frames] /\ depth' \in Levels
      BY <1>3, OpenTyped, FrameTyped DEF BeginDomain
    <2>2. stmts' \in 0..MaxStmts
      BY <1>3, StmtsTyped DEF BeginDomain
    <2> QED BY <1>3, <2>1, <2>2 DEF BeginDomain, TypeOK, run
  <1>4. CASE EndDomain
    <2>1. [Outer EXCEPT !.returns = @ \/ Top.returns] \in Frames
      BY <1>4, OuterTyped DEF EndDomain, Frames
    <2>2. frames' \in [Levels -> Frames] /\ depth' \in Levels
      BY <1>4, <2>1, CloseTyped DEF EndDomain
    <2> QED BY <1>4, <2>2 DEF EndDomain, TypeOK, run
  <1>5. CASE BeginIf
    <2>1. /\ created + 3 <= MaxBlocks /\ created' = created + 3
          /\ linked' = linked \cup {created + 1} /\ insert' = created + 1
          /\ Branch({created + 1, created + 2})
      BY <1>5 DEF BeginIf, MayStart, RoomFor, Frame
    <2>2. created + 1 \in Blocks /\ created + 2 \in Blocks /\ created + 3 \in Blocks
      BY <2>1, TypeFacts
    <2>3. [Frame("then") EXCEPT !.else = created + 2, !.merge = created + 3] \in Frames
      BY <2>2, FrameTyped DEF Frames
    <2>4. frames' \in [Levels -> Frames] /\ depth' \in Levels
      BY <1>5, <2>3, OpenTyped DEF BeginIf
    <2>5. term' \in [Blocks -> Seq(SUBSET Blocks)]
      BY <2>1, <2>2, BranchTerms
    <2>6. code' \in [Blocks -> Seq(Instructions)]
      BY <1>5, EmitTyped DEF BeginIf, MayStart
    <2>7. stmts' \in 0..MaxStmts
      BY <1>5, StmtsTyped DEF BeginIf
    <2> QED BY <1>5, <2>1, <2>2, <2>4, <2>5, <2>6, <2>7 DEF BeginIf, TypeOK, run
  <1>6. CASE BeginElse
    <2>1. /\ Branch({Top.merge}) /\ linked' = linked \cup {Top.else} /\ insert' = Top.else
          /\ Top \in Frames /\ Top.merge \in Blocks /\ Top.else \in Blocks
      <3>1. depth \in Around /\ Held(Top) = {Top.else, Top.merge} /\ BuildInv
        BY <1>6, FrameHeld, TypeFacts DEF BeginElse, IInv, Building, Generating, Around, BuildInv
      <3>2. Top.else \in 1..created /\ Top.merge \in 1..created
        BY <3>1 DEF BuildInv, HeldBlocks, Top
      <3> QED BY <1>6, <3>2, TypeFacts DEF BeginElse, Top
    <2>2. [Top EXCEPT !.kind = "else", !.thenEnd = ThenEnd,
                      !.thenReturns = Top.returns, !.returns = FALSE] \in Frames
      BY <2>1, TypeFacts DEF Frames, ThenEnd
    <2>3. frames' \in [Levels -> Frames] /\ depth' \in Levels
      BY <1>6, <2>2, SetTopTyped DEF BeginElse
    <2>4. term' \in [Blocks -> Seq(SUBSET Blocks)]
      BY <2>1, BranchTerms
    <2> QED BY <1>6, <2>1, <2>3, <2>4 DEF BeginElse, TypeOK, run
  <1>7. CASE EndIf
    <2>1. Top.merge \in Blocks /\ Top.thenEnd \in Blocks
      <3>1. depth \in Around /\ Held(Top) = {Top.merge} /\ BuildInv /\ Top = frames[depth]
        BY <1>7, FrameHeld, TypeFacts DEF EndIf, IInv, Building, Generating, Around, BuildInv, Top
      <3>2. Top.merge \in 1..created
        BY <3>1 DEF BuildInv, HeldBlocks
      <3>3. Top.thenEnd \in PredsIn(term, Top.merge)
        BY <1>7, <3>1 DEF EndIf, BuildInv, PhisSoFar, Preds
      <3> QED BY <3>2, <3>3, TypeFacts DEF PredsIn
    <2>2. [Outer EXCEPT !.returns = @ \/ IfReturns] \in Frames
      BY <1>7, OuterTyped DEF EndIf, Frames, IfReturns
    <2>3. frames' \in [Levels -> Frames] /\ depth' \in Levels
      BY <1>7, <2>2, CloseTyped DEF EndIf
    <2>4. term' \in [Blocks -> Seq(SUBSET Blocks)]
      BY <1>7, <2>1, BranchTerms DEF EndIf
    <2>5. phi' \in [Blocks -> SUBSET Blocks] /\ hasPhi' \subseteq Blocks
      BY <1>7, <2>1 DEF EndIf, TypeOK
    <2> QED BY <1>7, <2>1, <2>3, <2>4, <2>5 DEF EndIf, TypeOK, run
  <1>8. CASE BeginFor
    <2>1. created + 1 \in Blocks
      BY <1>8, TypeFacts DEF BeginFor, MayStart, RoomFor
    <2>2. [Frame("for") EXCEPT !.loop = created + 1] \in Frames
      BY <2>1, FrameTyped DEF Frames
    <2>3. frames' \in [Levels -> Frames] /\ depth' \in Levels
      BY <1>8, <2>2, OpenTyped DEF BeginFor
    <2>4. term' \in [Blocks -> Seq(SUBSET Blocks)]
      BY <1>8, <2>1, BranchTerms DEF BeginFor
    <2>5. code' \in [Blocks -> Seq(Instructions)]
      BY <1>8, <2>1, EmitTyped DEF BeginFor, MayStart
    <2>6. stmts' \in 0..MaxStmts
      BY <1>8, StmtsTyped DEF BeginFor
    <2>7. phi' \in [Blocks -> SUBSET Blocks] /\ hasPhi' \subseteq Blocks
      BY <1>8, <2>1 DEF BeginFor, TypeOK
    <2> QED BY <1>8, <2>1, <2>3, <2>4, <2>5, <2>6, <2>7 DEF BeginFor, TypeOK, run
  <1>9. CASE EndFor
    <2>1. created + 1 \in Blocks
      BY <1>9, TypeFacts DEF EndFor, RoomFor
    <2>2. Top.loop \in Blocks
      <3>1. depth \in Around /\ Top = frames[depth] /\ Top.kind = "for"
        BY <1>9, TypeFacts DEF EndFor, Around, Top
      <3>2. Top.loop \in hasPhi
        BY <1>9, <3>1 DEF EndFor, FrameKinds
      <3> QED BY <3>2 DEF TypeOK
    <2>3. frames' \in [Levels -> Frames] /\ depth' \in Levels
      BY <1>9, OuterTyped, CloseTyped DEF EndFor
    <2>4. term' \in [Blocks -> Seq(SUBSET Blocks)]
      BY <1>9, <2>1, <2>2, BranchTerms DEF EndFor
    <2>5. code' \in [Blocks -> Seq(Instructions)]
      BY <1>9, <2>2, EmitTyped DEF EndFor
    <2>6. phi' \in [Blocks -> SUBSET Blocks]
      BY <1>9, <2>2 DEF EndFor, TypeOK
    <2> QED BY <1>9, <2>1, <2>3, <2>4, <2>5, <2>6 DEF EndFor, TypeOK, run
  <1>10. CASE EndFunction
    <2>1. RetBB \in Blocks
      BY TypeFacts DEF RetBB
    <2>2. /\ term' = [term EXCEPT ![insert] = Append(@, {RetBB}), ![RetBB] = Append(@, {})]
          /\ insert # RetBB
      BY <1>10 DEF EndFunction, IInv, Building, BlocksOpen, HeldBlocks, Generating
    <2>3. term' \in [Blocks -> Seq(SUBSET Blocks)]
      <3>1. /\ term \in [Blocks -> Seq(SUBSET Blocks)] /\ insert \in Blocks
            /\ {RetBB} \in SUBSET Blocks /\ {} \in SUBSET Blocks
        BY <2>1 DEF TypeOK
      <3>2. /\ Append(term[insert], {RetBB}) \in Seq(SUBSET Blocks)
            /\ Append(term[RetBB], {}) \in Seq(SUBSET Blocks)
        BY <2>1, <3>1
      <3> QED BY <2>1, <2>2, <3>1, <3>2
    <2> QED BY <1>10, <2>1, <2>3 DEF EndFunction, TypeOK, run
  <1>11. CASE RefuseFunction
    BY <1>11 DEF RefuseFunction, TypeOK, gen, run
  <1>12. CASE ExecInstruction
    <2>1. code[at[1]] \in Seq(Instructions) /\ at[1] \in Blocks /\ at[2] \in Nat
      BY DEF TypeOK
    <2>2. last' = code[at[1]][at[2]] /\ at' = <<at[1], at[2] + 1>>
          /\ at[2] <= Len(code[at[1]]) /\ returned' \in BOOLEAN
          /\ tested' = IF last'.op = "enter" THEN tested \ {last'.loop} ELSE tested
      BY <1>12 DEF ExecInstruction
    <2>3. last' \in Instructions
      <3>1. at[2] \in 1..Len(code[at[1]])
        BY <2>1, <2>2 DEF TypeOK
      <3> QED BY <2>1, <2>2, <3>1
    <2>5. at' \in Blocks \X (Nat \ {0})
      BY <2>1, <2>2
    <2>4. tested' \subseteq Blocks
      BY <2>2 DEF TypeOK
    <2> QED BY <1>12, <2>2, <2>3, <2>4, <2>5 DEF ExecInstruction, TypeOK, gen
  <1>13. CASE ExecBranch
    <2>1. at[1] \in linked /\ WellFormed
      BY <1>13 DEF ExecBranch, IInv, Complete
    <2>2. PICK b \in term[at[1]][1] :
            /\ at' = <<b, 1>>
            /\ tested' = IF last.op # "test" THEN tested
                         ELSE IF b = last.loop THEN tested \cup {b} ELSE tested \ {last.loop}
      BY <1>13 DEF ExecBranch
    <2>3. b \in linked /\ b \in Blocks
      BY <2>1, <2>2 DEF WellFormed, TypeOK
    <2>4. at' \in Blocks \X (Nat \ {0}) /\ tested' \subseteq Blocks
      BY <2>2, <2>3 DEF TypeOK
    <2> QED BY <1>13, <2>4 DEF ExecBranch, TypeOK, gen
  <1>14. CASE ExecRet
    BY <1>14 DEF ExecRet, TypeOK, gen, run
  <1> QED
    BY <1>1, <1>2, <1>3, <1>4, <1>5, <1>6, <1>7, <1>8, <1>9, <1>10, <1>11, <1>12, <1>13, <1>14
    DEF Next, Generate, Execute

-----------------------------------------------------------------------------
(* The theorems.                                                           *)

\* BuildInv through one step of generation.
LEMMA BuildStep == IInv /\ Generating /\ Next /\ Building' => BuildInv'
  <1> SUFFICES ASSUME IInv, Generating, Next, Building' PROVE BuildInv'
    OBVIOUS
  <1>0. TypeOK /\ BuildInv /\ depth \in Nat \ {0}
    BY TypeFacts DEF IInv, Generating, Building, BuildInv
  <1>1. CASE GenExpression \/ RefuseFunction
    <2>1. UNCHANGED <<created, linked, insert, term, phi, hasPhi, frames, depth>>
      BY <1>1 DEF GenExpression, RefuseFunction, gen
    <2>2. frames[1].kind = "body"
      BY <1>0 DEF BuildInv, FrameKinds
    <2>3. \A f : Alike(f, f)
      BY DEF Alike
    <2> QED BY <1>0, <2>1, <2>2, <2>3, PlainStep DEF Around
  <1>2. CASE GenReturn
    <2> DEFINE f == [Top EXCEPT !.returns = TRUE]
    <2>1. /\ UNCHANGED <<created, linked, insert, term, phi, hasPhi, depth>>
          /\ frames' = [frames EXCEPT ![depth] = f]
      BY <1>2 DEF GenReturn, SetTop
    <2>2. Alike(f, frames[depth]) /\ depth \in Around /\ frames[1].kind = "body"
      BY <1>0, TypeFacts DEF Alike, Frames, Top, BuildInv, FrameKinds, Around
    <2>3. frames \in [Levels -> Frames] /\ Around \subseteq Levels
      BY <1>0, TypeFacts DEF TypeOK, Around
    <2> HIDE DEF f
    <2>4. \A n \in Around : Alike(frames'[n], frames[n])
      BY <2>1, <2>2, <2>3 DEF Alike
    <2>5. frames'[1].kind = "body" /\ 1..depth' = Around
      BY <2>1, <2>2, <2>4, <1>0 DEF Alike, Around
    <2> QED BY <1>0, <2>1, <2>4, <2>5, PlainStep
  <1>3. CASE BeginDomain
    <2>1. /\ UNCHANGED <<created, linked, insert, term, phi, hasPhi>> /\ depth' = depth + 1
          /\ frames' = [frames EXCEPT ![depth + 1] = Frame("domain")] /\ depth <= MaxDepth
      BY <1>3 DEF BeginDomain, Open, MayNest
    <2>2. /\ frames \in [Levels -> Frames] /\ Around \subseteq Levels /\ depth + 1 \in Levels
          /\ 1..depth' = Around \cup {depth + 1} /\ depth + 1 \notin Around /\ 1 \in Around
      <3>1. frames \in [Levels -> Frames]
        BY <1>0 DEF TypeOK
      <3>2. 1..depth' = Around \cup {depth + 1} /\ depth + 1 \notin Around /\ 1 \in Around
        BY <1>0, <2>1 DEF Around
      <3>3. depth + 1 \in Levels /\ Around \subseteq Levels
        BY <1>0, <2>1, TypeFacts DEF Around
      <3> QED BY <3>1, <3>2, <3>3
    <2>3. Frame("domain").kind = "domain" /\ frames[1].kind = "body" /\ \A f : Alike(f, f)
      BY <1>0 DEF Frame, BuildInv, FrameKinds, Alike
    <2>4. frames'[depth + 1] = Frame("domain") /\ \A n \in Around : frames'[n] = frames[n]
      BY <2>1, <2>2
    <2>5. depth' \in Nat \ {0} /\ depth + 1 # 1
      BY <1>0, <2>1
    <2> QED BY <1>0, <2>1, <2>2, <2>3, <2>4, <2>5, PlainStep
  <1>4. CASE EndDomain
    <2> DEFINE f == [Outer EXCEPT !.returns = @ \/ Top.returns]
    <2>1. /\ UNCHANGED <<created, linked, insert, term, phi, hasPhi>> /\ depth' = depth - 1
          /\ frames' = [frames EXCEPT ![depth] = Frame("body"), ![depth - 1] = f]
          /\ Top.kind = "domain"
      BY <1>4 DEF EndDomain, Close
    <2>2. depth \in Around /\ depth # 1 /\ frames[1].kind = "body"
      BY <1>0, <2>1 DEF BuildInv, FrameKinds, Around, Top
    <2>3. /\ 1..depth' = Around \ {depth} /\ depth - 1 \in 1..depth' /\ depth' \in Nat \ {0}
          /\ 1 \in 1..depth'
      BY <1>0, <2>1, <2>2 DEF Around
    <2>4. Alike(f, frames[depth - 1])
      BY <1>0, <2>2, <2>3, TypeFacts DEF Alike, Frames, Outer, Around
    <2>5. frames \in [Levels -> Frames] /\ Around \subseteq Levels
      BY <1>0, TypeFacts DEF TypeOK, Around
    <2> HIDE DEF f
    <2>6. \A n \in 1..depth' : n \in Around /\ Alike(frames'[n], frames[n])
      BY <2>1, <2>2, <2>3, <2>4, <2>5 DEF Alike
    <2>7. frames'[1].kind = "body"
      BY <2>2, <2>3, <2>6 DEF Alike
    <2>8. \A n \in Around : \/ n \in 1..depth' /\ Alike(frames'[n], frames[n])
                            \/ frames[n].kind = "domain"
      BY <2>1, <2>3, <2>6 DEF Top
    <2> QED BY <1>0, <2>1, <2>3, <2>6, <2>7, <2>8, PlainStep
  <1>5. ~EndFunction /\ ~Execute
    BY DEF EndFunction, Execute, ExecInstruction, ExecBranch, ExecRet, Building, Generating
  <1> QED
    BY <1>0, <1>1, <1>2, <1>3, <1>4, <1>5, BeginIfStep, BeginElseStep, EndIfStep, BeginForStep,
       EndForStep DEF Next, Generate

\* The invariant is inductive.
LEMMA NextInv == IInv /\ [Next]_vars => IInv'
  <1> SUFFICES ASSUME IInv, [Next]_vars PROVE IInv'
    OBVIOUS
  <1>1. CASE UNCHANGED vars
    BY <1>1 DEF vars, gen, run, IInv, Building, Complete, TypeOK, BlocksOpen, HeldBlocks,
                FrameKinds, PhisSoFar, WellFormed, Around, Preds
  <1>2. CASE Next
    <2>1. TypeOK'
      BY <1>2, TypeStep
    <2>2. phase \in {"gen", "run", "done", "refused"}
      BY DEF IInv, TypeOK
    <2>3. CASE Generating /\ Building'
      <3>1. BuildInv'
        BY <1>2, <2>3, BuildStep
      <3>2. at' = at /\ linked \subseteq linked'
        BY <1>2, <2>3 DEF Next, Generate, Execute, Generating, Building, run, gen,
             GenExpression, GenReturn, BeginDomain, EndDomain, BeginIf, BeginElse, EndIf,
             BeginFor, EndFor, EndFunction, RefuseFunction, ExecInstruction, ExecBranch, ExecRet
      <3> QED BY <2>1, <2>3, <3>1, <3>2 DEF IInv, BuildInv, Building, Complete
    <2>4. CASE Generating /\ ~Building'
      <3>1. EndFunction
        BY <1>2, <2>4 DEF Next, Generate, Execute, Generating, Building,
             GenExpression, GenReturn, BeginDomain, EndDomain, BeginIf, BeginElse, EndIf,
             BeginFor, EndFor, RefuseFunction, ExecInstruction, ExecBranch, ExecRet
      <3>2. WellFormed'
        BY <2>4, <3>1, EndFunctionStep DEF IInv, BuildInv, Building, Generating
      <3>3. at'[1] \in linked'
        BY <3>1 DEF EndFunction, IInv, run
      <3> QED BY <2>1, <2>4, <3>2, <3>3 DEF IInv
    <2>5. CASE ~Generating
      <3>1. Execute
        BY <1>2, <2>5 DEF Next, Generate, Generating, GenExpression, GenReturn, BeginDomain,
             EndDomain, BeginIf, BeginElse, EndIf, BeginFor, EndFor, EndFunction,
             RefuseFunction, MayStart
      <3>2. UNCHANGED gen /\ phase = "run" /\ phase' \in {"run", "done"}
        BY <3>1 DEF Execute, ExecInstruction, ExecBranch, ExecRet
      <3>3. WellFormed'
        <4>1. WellFormed
          BY <3>2 DEF IInv, Complete
        <4> QED BY <4>1, <3>2 DEF WellFormed, gen, Preds
      <3>4. at'[1] \in linked'
        <4>1. at[1] \in linked /\ term[at[1]][1] \subseteq linked
          BY <3>2 DEF IInv, Complete, WellFormed
        <4> QED BY <3>1, <3>2, <4>1 DEF Execute, ExecInstruction, ExecBranch, ExecRet, gen, run
      <3> QED BY <2>1, <3>2, <3>3, <3>4 DEF IInv, Building, Complete
    <2> QED BY <2>3, <2>4, <2>5
  <1> QED BY <1>1, <1>2

LEMMA Invariance == Spec => []IInv
  BY InitInv, NextInv, PTL DEF Spec

\* The generator's state is well typed, for every bound.
THEOREM TypeCorrect == Spec => []TypeOK
  <1>1. IInv => TypeOK
    BY DEF IInv
  <1> QED BY <1>1, Invariance, PTL

\* Every instruction and branch the generator appends goes to a block that is in the
\* function and has no terminator yet, whatever is nested in what: the builder's
\* insert point is moved on by every statement that closes a block.
THEOREM AppendsToOpenBlocks == Spec => []InsertBlockOpen
  <1>1. IInv => InsertBlockOpen
    BY DEF IInv, InsertBlockOpen, Building, BlocksOpen
  <1> QED BY <1>1, Invariance, PTL

\* The blocks of a complete function are all in it, and each has one terminator.
THEOREM FunctionsTerminated == Spec => []BlocksTerminated
  <1>1. IInv => BlocksTerminated
    BY DEF IInv, BlocksTerminated, Complete, WellFormed
  <1> QED BY <1>1, Invariance, PTL

\* The PHI nodes of a complete function agree with its branches.
THEOREM PhisCorrect == Spec => []PhisMatchPredecessors
  <1>1. IInv => PhisMatchPredecessors
    BY DEF IInv, PhisMatchPredecessors, Complete, WellFormed
  <1> QED BY <1>1, Invariance, PTL
-----------------------------------------------------------------------------
(***************************************************************************)
(* A function that returns a value always returns one, however its         *)
(* statements nest: the parser's HasReturnExpForAllPaths looks at the       *)
(* syntax, the value is written on paths through basic blocks.             *)
(***************************************************************************)

\* A return expression is among the block's instructions.
Writes(b) == \E k \in DOMAIN code[b] : code[b][k].op = "ret"

\* Before n's statement is reached, HasReturnExpForAllPaths holds already.
ReturnsBefore(n) == \E m \in Around : m < n /\ frames[m].returns

\* W: blocks that are only ever entered with the value written.
Past(W, b) == b \in W \/ Writes(b)

Closed(W) ==
    /\ W \subseteq linked /\ EntryBB \notin W
    /\ \A c \in W : \A a \in Preds(c) : Past(W, a)

\* The code so far, against what the parser's predicate says of the statements so far.
FramePromise(W, n) ==
    /\ frames[n].kind = "then" /\ ReturnsBefore(n)
          => \A a \in Preds(frames[n].else) : Past(W, a)
    /\ frames[n].kind = "else" /\ (ReturnsBefore(n) \/ frames[n].thenReturns)
          => Past(W, frames[n].thenEnd)
    /\ frames[n].kind = "for" /\ frames[n].loop \in W => ReturnsBefore(n)

Promised(W) ==
    /\ ReturnsBefore(depth + 1) => Past(W, insert)
    /\ \A n \in Around : FramePromise(W, n)

\* Execution has written the value if it is where the value must have been written.
Kept(W) ==
    /\ ~returnsVoid => RetBB \in W
    /\ at[1] \in W \/ (\E k \in 1..(at[2] - 1) : k \in DOMAIN code[at[1]] /\ code[at[1]][k].op = "ret")
          => returned

RInv ==
    /\ phase = "gen" => at = <<EntryBB, 1>> /\ \E W \in SUBSET linked : Closed(W) /\ Promised(W)
    /\ Complete => \E W \in SUBSET linked : Closed(W) /\ Kept(W)
    /\ phase = "done" => at[1] = RetBB

-----------------------------------------------------------------------------
(* What is in a block stays there.                                         *)

Mono == \A b \in Blocks : Writes(b) => Writes(b)'

LEMMA SameCode == ASSUME UNCHANGED code PROVE Mono
BY DEF Mono, Writes

LEMMA EmitMono ==
    ASSUME TypeOK, NEW op, NEW loop, Emit(op, loop)
    PROVE  Mono /\ (op = "ret" => \E k \in DOMAIN code'[insert] : code'[insert][k].op = "ret")
<1>1. /\ code \in [Blocks -> Seq(Instructions)] /\ insert \in Blocks
      /\ code' = [code EXCEPT ![insert] = Append(code[insert], Inst(op, loop))]
  BY DEF TypeOK, Emit
<1>2. code[insert] \in Seq(Instructions)
  BY <1>1
<1>3. /\ code'[insert] = Append(code[insert], Inst(op, loop))
      /\ \A b \in Blocks \ {insert} : code'[b] = code[b]
  BY <1>1
<1> DEFINE s == code[insert]
           x == Inst(op, loop)
<1>4. /\ \A k \in DOMAIN s : k \in DOMAIN Append(s, x) /\ Append(s, x)[k] = s[k]
      /\ Len(s) + 1 \in DOMAIN Append(s, x) /\ Append(s, x)[Len(s) + 1] = x
  <2> HIDE DEF x
  <2>1. s \in Seq(Instructions) /\ Len(s) \in Nat
    BY <1>2
  <2> QED BY <2>1
<1>5. x.op = op
  BY DEF Inst
<1>6. ASSUME NEW b \in Blocks, Writes(b) PROVE Writes(b)'
  BY <1>3, <1>4, <1>6 DEF Writes
<1>7. op = "ret" => \E k \in DOMAIN code'[insert] : code'[insert][k].op = "ret"
  BY <1>3, <1>4, <1>5
<1> QED BY <1>6, <1>7 DEF Mono

LEMMA ReturnsSame ==
    ASSUME NEW n, \A m : m < n => /\ m \in 1..depth' <=> m \in Around
                                  /\ m \in Around => frames'[m].returns = frames[m].returns
    PROVE  ReturnsBefore(n)' <=> ReturnsBefore(n)
BY DEF ReturnsBefore, Around

\* Statement n is around the insertion point before and after a branch to T.
Steady(n, T) ==
    /\ n \in Around /\ (ReturnsBefore(n)' <=> ReturnsBefore(n))
    /\ \A c \in {"then", "else", "for"} : frames'[n].kind = c <=> frames[n].kind = c
    /\ frames[n].kind = "then" => frames'[n].else = frames[n].else /\ frames[n].else \notin T
    /\ frames[n].kind = "else" => /\ frames'[n].thenEnd = frames[n].thenEnd
                                  /\ frames'[n].thenReturns = frames[n].thenReturns
    /\ frames[n].kind = "for" => frames'[n].loop = frames[n].loop

LEMMA ElseEnds ==
    ASSUME TypeOK, BuildInv, NEW n \in Around
    PROVE  /\ frames[n].kind = "then" => frames[n].else \in Blocks
           /\ frames[n].kind = "else" => frames[n].thenEnd \in Blocks
           /\ frames[n].kind = "for" => frames[n].loop \in linked
<1>1. frames[n].kind = "else" => Preds(frames[n].merge) = {frames[n].thenEnd}
  BY DEF BuildInv, PhisSoFar
<1>2. \A b : Preds(b) \subseteq Blocks
  BY DEF Preds, PredsIn
<1>3. frames[n].kind = "then" => frames[n].else \in 1..created
  BY FrameHeld DEF BuildInv, HeldBlocks
<1>4. frames[n].kind = "for" => frames[n].loop \in linked
  BY DEF BuildInv, FrameKinds, PhisSoFar
<1>5. frames[n].kind = "else" => frames[n].thenEnd \in Preds(frames[n].merge)
  BY <1>1
<1>6. 1..created \subseteq Blocks
  BY TypeFacts
<1> QED BY <1>2, <1>3, <1>4, <1>5, <1>6

LEMMA Carried ==
    ASSUME TypeOK, BuildInv, Mono, NEW W, NEW X, W \subseteq X, X \cap linked \subseteq W,
           NEW T, NEW n, Steady(n, T), FramePromise(W, n),
           \A b \in Blocks : b \notin T => PredsIn(term', b) = PredsIn(term, b)
    PROVE  FramePromise(X, n)'
<1> n \in Around
  BY DEF Steady
<1>1. \A b \in Blocks : Past(W, b) => Past(X, b)'
  BY DEF Past, Mono
<1>2. \A b : PredsIn(term, b) \subseteq Blocks
  BY DEF PredsIn
<1>3. ASSUME frames'[n].kind = "then", ReturnsBefore(n)'
      PROVE  \A a \in PredsIn(term', frames'[n].else) : Past(X, a)'
  <2>1. /\ frames[n].kind = "then" /\ ReturnsBefore(n)
        /\ PredsIn(term', frames'[n].else) = PredsIn(term, frames[n].else)
    BY <1>3, ElseEnds DEF Steady
  <2>2. \A a \in PredsIn(term, frames[n].else) : Past(W, a)
    BY <2>1 DEF FramePromise, Preds
  <2> QED BY <2>1, <2>2, <1>1, <1>2
<1>4. ASSUME frames'[n].kind = "else", ReturnsBefore(n)' \/ frames'[n].thenReturns
      PROVE  \A b : b = frames'[n].thenEnd => Past(X, b)'
  <2>1. /\ frames[n].kind = "else" /\ (ReturnsBefore(n) \/ frames[n].thenReturns)
        /\ frames'[n].thenEnd = frames[n].thenEnd
    BY <1>4 DEF Steady
  <2> QED BY <2>1, <1>1, ElseEnds DEF FramePromise
<1>5. ASSUME frames'[n].kind = "for", frames'[n].loop \in X PROVE ReturnsBefore(n)'
  BY <1>5, ElseEnds DEF Steady, FramePromise
<1>6. (\A b : b = frames'[n].thenEnd => Past(X, b)') => Past(X, frames[n].thenEnd)'
  BY DEF Past, Writes
<1> QED BY <1>3, <1>4, <1>5, <1>6 DEF FramePromise, Preds

\* Steps that branch nowhere.
LEMMA Stay ==
    ASSUME TypeOK, BuildInv, Mono, NEW W, Closed(W), Promised(W), UNCHANGED <<linked, term, insert>>,
           \A n \in 1..depth' : Steady(n, {}) \/ frames'[n].kind \notin {"then", "else", "for"},
           ReturnsBefore(depth + 1)' => Past(W, insert)'
    PROVE  Closed(W)' /\ Promised(W)'
<1>1. \A b : PredsIn(term', b) = PredsIn(term, b)
  OBVIOUS
<1>2. \A b : PredsIn(term, b) \subseteq Blocks
  BY DEF PredsIn
<1>3. Closed(W)'
  BY <1>1, <1>2 DEF Closed, Preds, Past, Mono
<1>4. ASSUME NEW n \in 1..depth' PROVE FramePromise(W, n)'
  <2>1. CASE Steady(n, {})
    <3>1. FramePromise(W, n)
      BY <2>1 DEF Steady, Promised
    <3> QED BY <2>1, <3>1, <1>1, Carried DEF Closed
  <2>2. CASE frames'[n].kind \notin {"then", "else", "for"}
    BY <2>2 DEF FramePromise
  <2> QED BY <2>1, <2>2
<1> QED BY <1>3, <1>4 DEF Promised, Around

\* Steps that end the insert block with a branch to T and go on in a block that was
\* not in the function.  P: it is entered with the value written.
LEMMA Advance ==
    ASSUME TypeOK, BuildInv, Mono, NEW W, Closed(W), Promised(W),
           NEW T \in SUBSET Blocks, Branch(T), NEW P \in BOOLEAN,
           insert' \in Blocks \ linked, linked' = linked \cup {insert'},
           P => \A a \in PredsIn(term, insert') : Past(W, a),
           \A c \in T : c \in W \/ (P /\ c = insert') => Past(W, insert),
           ReturnsBefore(depth + 1)' => P,
           \A n \in 1..depth' :
               \/ Steady(n, T)
               \/ \A X : W \subseteq X /\ (insert' \in X <=> P) => FramePromise(X, n)'
    PROVE  \E X \in SUBSET linked' : Closed(X)' /\ Promised(X)'
<1> PICK X : X = IF P THEN W \cup {insert'} ELSE W
  OBVIOUS
<1>1. W \subseteq linked /\ EntryBB \notin W /\ EntryBB \in linked /\ insert \in Blocks
  BY TypeFacts DEF Closed, BuildInv, BlocksOpen
<1>2. /\ X \subseteq linked' /\ EntryBB \notin X /\ W \subseteq X
      /\ X \cap linked \subseteq W /\ (insert' \in X <=> P)
  BY <1>1
<1>3. \A b \in Blocks : Past(W, b) => Past(X, b)'
  BY <1>2 DEF Past, Mono
<1>4. \A b \in Blocks : PredsIn(term', b) = PredsIn(term, b) \cup (IF b \in T THEN {insert} ELSE {})
  BY BranchPreds
<1>5. linked \subseteq Blocks
  BY DEF TypeOK
<1>6. ASSUME NEW c \in X, NEW a \in PredsIn(term', c) PROVE Past(X, a)'
  <2>1. c \in Blocks /\ a \in Blocks
    BY <1>2, <1>5, <1>6 DEF PredsIn
  <2>2. CASE a \in PredsIn(term, c)
    <3>1. Past(W, a)
      BY <2>2 DEF Closed, Preds
    <3> QED BY <3>1, <2>1, <1>3
  <2>3. CASE a = insert /\ c \in T
    <3>1. Past(W, insert)
      BY <2>3
    <3> QED BY <3>1, <2>3, <2>1, <1>3
  <2> QED BY <2>1, <2>2, <2>3, <1>4, <1>6
<1>7. Closed(X)'
  BY <1>2, <1>6 DEF Closed, Preds
<1>8. ReturnsBefore(depth + 1)' => Past(X, insert)'
  BY <1>2 DEF Past
<1>9. ASSUME NEW n \in 1..depth' PROVE FramePromise(X, n)'
  <2>1. CASE Steady(n, T)
    <3>1. FramePromise(W, n)
      BY <2>1 DEF Steady, Promised
    <3>2. \A b \in Blocks : b \notin T => PredsIn(term', b) = PredsIn(term, b)
      BY <1>4
    <3> QED BY <2>1, <3>1, <3>2, <1>2, Carried
  <2>2. CASE \A Y : W \subseteq Y /\ (insert' \in Y <=> P) => FramePromise(Y, n)'
    BY <2>2, <1>2
  <2> QED BY <2>1, <2>2
<1> QED BY <1>2, <1>7, <1>8, <1>9 DEF Promised, Around

-----------------------------------------------------------------------------
(* One lemma per step of the generator.                                    *)

GInv == \E W \in SUBSET linked : Closed(W) /\ Promised(W)

LEMMA GenExpressionKeeps == TypeOK /\ BuildInv /\ GInv /\ GenExpression => GInv'
<1> SUFFICES ASSUME TypeOK, BuildInv, GInv, GenExpression PROVE GInv'
  OBVIOUS
<1>1. PICK W \in SUBSET linked : Closed(W) /\ Promised(W)
  BY DEF GInv
<1>2. Mono /\ UNCHANGED <<linked, term, insert, frames, depth>>
  BY EmitMono DEF GenExpression
<1>3. \A n : ReturnsBefore(n)' <=> ReturnsBefore(n)
  BY <1>2 DEF ReturnsBefore, Around
<1>4. \A n \in 1..depth' : Steady(n, {})
  BY <1>2, <1>3 DEF Steady, Around
<1>5. ReturnsBefore(depth + 1)' => Past(W, insert)'
  <2>1. ReturnsBefore(depth + 1)' => ReturnsBefore(depth + 1)
    BY <1>2 DEF ReturnsBefore, Around
  <2>2. Past(W, insert) => Past(W, insert)'
    BY <1>2, TypeFacts DEF Past, Mono, Writes
  <2> QED BY <2>1, <2>2, <1>1 DEF Promised
<1>6. Closed(W)' /\ Promised(W)'
  BY <1>1, <1>2, <1>4, <1>5, Stay
<1> QED BY <1>1, <1>2, <1>6 DEF GInv

LEMMA GenReturnKeeps == TypeOK /\ BuildInv /\ GInv /\ GenReturn => GInv'
<1> SUFFICES ASSUME TypeOK, BuildInv, GInv, GenReturn PROVE GInv'
  OBVIOUS
<1>1. PICK W \in SUBSET linked : Closed(W) /\ Promised(W)
  BY DEF GInv
<1>2. /\ Mono /\ UNCHANGED <<linked, term, insert, depth>>
      /\ \E k \in DOMAIN code'[insert] : code'[insert][k].op = "ret"
      /\ frames' = [frames EXCEPT ![depth] = [Top EXCEPT !.returns = TRUE]]
  BY EmitMono DEF GenReturn, SetTop
<1>3. /\ depth \in Levels /\ frames \in [Levels -> Frames] /\ frames[depth] \in Frames
      /\ Around \subseteq Levels /\ Around = 1..depth /\ depth \in Nat
  BY TypeFacts DEF TypeOK, Around
<1>4. /\ \A n \in Around : n # depth => frames'[n] = frames[n]
      /\ frames'[depth] = [Top EXCEPT !.returns = TRUE]
  BY <1>2, <1>3
<1>5. ASSUME NEW n \in 1..depth' PROVE Steady(n, {})
  <2>1. n \in Around /\ \A m : m < n => m # depth \/ m \notin Around
    BY <1>2, <1>3
  <2>2. ReturnsBefore(n)' <=> ReturnsBefore(n)
    BY <2>1, <1>2, <1>3, <1>4, ReturnsSame
  <2>3. /\ frames'[n].kind = frames[n].kind /\ frames'[n].else = frames[n].else
        /\ frames'[n].thenEnd = frames[n].thenEnd /\ frames'[n].loop = frames[n].loop
        /\ frames'[n].thenReturns = frames[n].thenReturns
    BY <2>1, <1>3, <1>4 DEF Frames, Top
  <2> QED BY <2>1, <2>2, <2>3 DEF Steady
<1>6. Past(W, insert)'
  BY <1>2 DEF Past, Writes
<1>7. Closed(W)' /\ Promised(W)'
  BY <1>1, <1>2, <1>5, <1>6, Stay
<1> QED BY <1>1, <1>2, <1>7 DEF GInv

\* A statement begins inside the current one.
LEMMA Opened ==
    ASSUME TypeOK, NEW f, Open(f), depth <= MaxDepth, f.returns = FALSE
    PROVE  /\ depth' = depth + 1 /\ frames'[depth + 1] = f
           /\ \A n \in Around : frames'[n] = frames[n]
           /\ 1..depth' = Around \cup {depth + 1} /\ depth + 1 \notin Around
           /\ \A n \in 1..depth' : ReturnsBefore(n)' <=> ReturnsBefore(n)
           /\ ReturnsBefore(depth + 1)' <=> ReturnsBefore(depth + 1)
<1>1. /\ frames \in [Levels -> Frames] /\ depth + 1 \in Levels /\ Around \subseteq Levels
      /\ Around = 1..depth /\ depth \in Nat
  <2>1. depth \in Nat /\ MaxDepth \in Nat /\ Levels = 1..(MaxDepth + 1)
    BY TypeFacts
  <2>2. frames \in [Levels -> Frames]
    BY DEF TypeOK
  <2> QED BY <2>1, <2>2 DEF Around
<1>2. /\ depth' = depth + 1 /\ frames'[depth + 1] = f
      /\ \A n \in Around : frames'[n] = frames[n]
      /\ 1..depth' = Around \cup {depth + 1} /\ depth + 1 \notin Around
  BY <1>1 DEF Open
<1>3. ASSUME NEW n \in 1..depth' PROVE ReturnsBefore(n)' <=> ReturnsBefore(n)
  BY <1>1, <1>2, ReturnsSame
<1>4. ReturnsBefore(depth + 1)' <=> ReturnsBefore(depth + 1)
  <2>1. ReturnsBefore(depth + 1)' <=> \E m \in Around : frames'[m].returns
    BY <1>1, <1>2 DEF ReturnsBefore, Around
  <2>2. ReturnsBefore(depth + 1) <=> \E m \in Around : frames[m].returns
    BY <1>1 DEF ReturnsBefore
  <2> QED BY <2>1, <2>2, <1>2
<1> QED BY <1>2, <1>3, <1>4

LEMMA BeginDomainKeeps == TypeOK /\ BuildInv /\ GInv /\ BeginDomain => GInv'
<1> SUFFICES ASSUME TypeOK, BuildInv, GInv, BeginDomain PROVE GInv'
  OBVIOUS
<1>1. PICK W \in SUBSET linked : Closed(W) /\ Promised(W)
  BY DEF GInv
<1>2. Mono /\ UNCHANGED <<linked, term, insert, code>>
  BY SameCode DEF BeginDomain
<1>3. /\ Open(Frame("domain")) /\ depth <= MaxDepth
      /\ Frame("domain").returns = FALSE /\ Frame("domain").kind = "domain"
  BY DEF BeginDomain, MayNest, Frame
<1>4. ASSUME NEW n \in 1..depth'
      PROVE  Steady(n, {}) \/ frames'[n].kind \notin {"then", "else", "for"}
  BY <1>3, Opened DEF Steady
<1>5. ReturnsBefore(depth + 1)' => Past(W, insert)'
  <2>1. ReturnsBefore(depth + 1) => Past(W, insert)
    BY <1>1 DEF Promised
  <2>2. Past(W, insert) => Past(W, insert)'
    BY <1>2 DEF Past, Writes
  <2> QED BY <2>1, <2>2, <1>3, Opened
<1>6. Closed(W)' /\ Promised(W)'
  BY <1>1, <1>2, <1>4, <1>5, Stay
<1> QED BY <1>1, <1>2, <1>6 DEF GInv

\* The current statement ends; `sure' is what its domain or domains promise.
LEMMA Closing ==
    ASSUME TypeOK, BuildInv, Top.kind # "body", NEW sure,
           Close([Outer EXCEPT !.returns = Outer.returns \/ sure])
    PROVE  /\ depth - 1 \in Around /\ 1..depth' = Around \ {depth}
           /\ \A n \in 1..depth' : \A T :
                 (frames[n].kind = "then" => frames[n].else \notin T) => Steady(n, T)
           /\ ReturnsBefore(depth + 1)' <=> ReturnsBefore(depth) \/ sure
<1>1. /\ frames \in [Levels -> Frames] /\ depth \in Levels /\ Around \subseteq Levels
      /\ Around = 1..depth /\ depth \in Nat
  BY TypeFacts DEF TypeOK, Around
<1>2. depth - 1 \in Around /\ depth' = depth - 1 /\ 1..depth' = Around \ {depth}
  <2>1. depth # 1
    BY DEF BuildInv, FrameKinds, Top
  <2> QED BY <2>1, <1>1, TypeFacts DEF Close
<1> DEFINE f == [Outer EXCEPT !.returns = Outer.returns \/ sure]
<1>3. /\ frames'[depth - 1] = f
      /\ \A n \in 1..depth' : n # depth - 1 => frames'[n] = frames[n]
  <2>1. Close(f)
    OBVIOUS
  <2> HIDE DEF f
  <2>2. frames' = [frames EXCEPT ![depth] = Frame("body"), ![depth - 1] = f]
    BY <2>1 DEF Close
  <2> QED BY <2>2, <1>1, <1>2
<1>4. /\ Outer \in Frames /\ Outer = frames[depth - 1]
  BY <1>1, <1>2 DEF Outer
<1>5. ASSUME NEW n \in 1..depth' PROVE ReturnsBefore(n)' <=> ReturnsBefore(n)
  <2>1. \A m : m < n /\ m \in Around => m # depth /\ m # depth - 1
    BY <1>1, <1>2
  <2> QED BY <2>1, <1>1, <1>2, <1>3, ReturnsSame
<1>6. ASSUME NEW n \in 1..depth'
      PROVE  /\ frames'[n].kind = frames[n].kind /\ frames'[n].else = frames[n].else
             /\ frames'[n].thenEnd = frames[n].thenEnd /\ frames'[n].loop = frames[n].loop
             /\ frames'[n].thenReturns = frames[n].thenReturns
  BY <1>3, <1>4 DEF Frames
<1>7. \A n \in 1..depth' : \A T :
          (frames[n].kind = "then" => frames[n].else \notin T) => Steady(n, T)
  BY <1>2, <1>5, <1>6 DEF Steady
<1>8. ReturnsBefore(depth + 1)' <=> ReturnsBefore(depth) \/ sure
  <2>1. ReturnsBefore(depth + 1)' <=> \E m \in 1..depth' : frames'[m].returns
    BY <1>1, <1>2 DEF ReturnsBefore, Around
  <2>2. ReturnsBefore(depth) <=> \E m \in 1..depth' : frames[m].returns
    BY <1>1, <1>2 DEF ReturnsBefore
  <2>3. frames'[depth - 1].returns <=> frames[depth - 1].returns \/ sure
    BY <1>3, <1>4 DEF Frames
  <2>4. depth - 1 \in 1..depth'
    BY <1>1, <1>2
  <2> QED BY <2>1, <2>2, <2>3, <2>4, <1>3
<1> QED BY <1>2, <1>7, <1>8

LEMMA EndDomainKeeps == TypeOK /\ BuildInv /\ GInv /\ EndDomain => GInv'
<1> SUFFICES ASSUME TypeOK, BuildInv, GInv, EndDomain PROVE GInv'
  OBVIOUS
<1>1. PICK W \in SUBSET linked : Closed(W) /\ Promised(W)
  BY DEF GInv
<1>2. Mono /\ UNCHANGED <<linked, term, insert, code>>
  BY SameCode DEF EndDomain
<1>3. /\ Top.kind # "body"
      /\ Close([Outer EXCEPT !.returns = Outer.returns \/ Top.returns])
  BY DEF EndDomain
<1>4. ASSUME NEW n \in 1..depth' PROVE Steady(n, {})
  BY <1>3, Closing
<1>5. ReturnsBefore(depth + 1)' => Past(W, insert)'
  <2>1. ReturnsBefore(depth) \/ Top.returns => ReturnsBefore(depth + 1)
    BY TypeFacts DEF ReturnsBefore, Around, Top
  <2>2. Past(W, insert) => Past(W, insert)'
    BY <1>2 DEF Past, Writes
  <2> QED BY <2>1, <2>2, <1>1, <1>3, Closing DEF Promised
<1>6. Closed(W)' /\ Promised(W)'
  BY <1>1, <1>2, <1>4, <1>5, Stay
<1> QED BY <1>1, <1>2, <1>6 DEF GInv

LEMMA BeginIfKeeps == TypeOK /\ BuildInv /\ GInv /\ BeginIf => GInv'
<1> SUFFICES ASSUME TypeOK, BuildInv, GInv, BeginIf PROVE GInv'
  OBVIOUS
<1>1. PICK W \in SUBSET linked : Closed(W) /\ Promised(W)
  BY DEF GInv
<1> DEFINE then == created + 1
           else == created + 2
           T == {then, else}
           f == [Frame("then") EXCEPT !.else = else, !.merge = created + 3]
           P == ReturnsBefore(depth + 1)
<1>2. /\ Emit("exp", NoBlock) /\ Branch(T) /\ created + 3 <= MaxBlocks /\ insert' = then
      /\ linked' = linked \cup {then} /\ Open(f) /\ depth <= MaxDepth
  BY DEF BeginIf, MayStart, RoomFor, MayNest
<1>3. f.kind = "then" /\ f.else = else /\ f.returns = FALSE
  BY DEF Frame
<1> HIDE DEF f
<1>4. /\ linked \subseteq 1..created /\ then \in Blocks /\ else \in Blocks /\ then # else
      /\ then \notin 1..created /\ else \notin 1..created /\ T \in SUBSET Blocks
  BY <1>2, TypeFacts DEF BuildInv, BlocksOpen
<1>5. Mono
  BY <1>2, EmitMono
<1>6. PredsIn(term, then) = {} /\ PredsIn(term, else) = {}
  BY <1>4, PredsLinked DEF BuildInv
<1>7. P => Past(W, insert)
  BY <1>1 DEF Promised
<1>8. PredsIn(term', else) = {insert}
  BY <1>2, <1>4, <1>6, BranchPreds
<1>9. ASSUME NEW n \in 1..depth'
      PROVE  Steady(n, T) \/ \A X : W \subseteq X => FramePromise(X, n)'
  <2>1. CASE n \in Around
    <3>1. frames[n].kind = "then" => frames[n].else \in 1..created
      BY <2>1, FrameHeld DEF BuildInv, HeldBlocks
    <3> QED BY <2>1, <3>1, <1>2, <1>3, <1>4, Opened DEF Steady
  <2>2. CASE n = depth + 1
    <3>1. frames'[n].kind = "then" /\ frames'[n].else = else
      BY <2>2, <1>2, <1>3, Opened
    <3>2. ReturnsBefore(n)' => P
      BY <2>2, <1>2, <1>3, Opened
    <3>4. ASSUME NEW X, W \subseteq X, ReturnsBefore(n)', NEW a \in PredsIn(term', else)
          PROVE  Past(X, a)'
      <4>1. a = insert /\ a \in Blocks /\ Past(W, a)
        BY <3>2, <3>4, <1>7, <1>8, TypeFacts
      <4> QED BY <4>1, <3>4, <1>5 DEF Past, Mono
    <3> QED BY <3>1, <3>4 DEF FramePromise, Preds
  <2> QED BY <2>1, <2>2, <1>2, <1>3, Opened
<1>10. \A c \in T : c \in W \/ (P /\ c = insert') => Past(W, insert)
  BY <1>1, <1>4, <1>7
<1>11. ReturnsBefore(depth + 1)' => P
  BY <1>2, <1>3, Opened
<1>12. /\ insert' \in Blocks \ linked /\ linked' = linked \cup {insert'} /\ P \in BOOLEAN
       /\ \A a \in PredsIn(term, insert') : Past(W, a)
  BY <1>2, <1>4, <1>6 DEF ReturnsBefore
<1> HIDE DEF P, T
<1>13. \E X \in SUBSET linked' : Closed(X)' /\ Promised(X)'
  BY <1>1, <1>2, <1>4, <1>5, <1>9, <1>10, <1>11, <1>12, Advance
<1> QED BY <1>13 DEF GInv

LEMMA BeginForKeeps == TypeOK /\ BuildInv /\ GInv /\ BeginFor => GInv'
<1> SUFFICES ASSUME TypeOK, BuildInv, GInv, BeginFor PROVE GInv'
  OBVIOUS
<1>1. PICK W \in SUBSET linked : Closed(W) /\ Promised(W)
  BY DEF GInv
<1> DEFINE loop == created + 1
           T == {loop}
           f == [Frame("for") EXCEPT !.loop = loop]
           P == ReturnsBefore(depth + 1)
<1>2. /\ Emit("enter", loop) /\ Branch(T) /\ created + 2 <= MaxBlocks /\ insert' = loop
      /\ linked' = linked \cup {loop} /\ Open(f) /\ depth <= MaxDepth
  BY DEF BeginFor, MayStart, RoomFor, MayNest
<1>3. f.kind = "for" /\ f.loop = loop /\ f.returns = FALSE
  BY DEF Frame
<1> HIDE DEF f
<1>4. /\ linked \subseteq 1..created /\ loop \in Blocks /\ loop \notin 1..created
      /\ T \in SUBSET Blocks
  BY <1>2, TypeFacts DEF BuildInv, BlocksOpen
<1>5. Mono
  BY <1>2, EmitMono
<1>6. PredsIn(term, loop) = {}
  BY <1>4, PredsLinked DEF BuildInv
<1>7. P => Past(W, insert)
  BY <1>1 DEF Promised
<1>8. ASSUME NEW n \in 1..depth'
      PROVE  Steady(n, T) \/ \A X : W \subseteq X /\ (insert' \in X <=> P) => FramePromise(X, n)'
  <2>1. CASE n \in Around
    <3>1. frames[n].kind = "then" => frames[n].else \in 1..created
      BY <2>1, FrameHeld DEF BuildInv, HeldBlocks
    <3> QED BY <2>1, <3>1, <1>2, <1>3, <1>4, Opened DEF Steady
  <2>2. CASE n = depth + 1
    <3>1. frames'[n].kind = "for" /\ frames'[n].loop = loop
      BY <2>2, <1>2, <1>3, Opened
    <3>2. ReturnsBefore(n)' <=> P
      BY <2>2, <1>2, <1>3, Opened
    <3> QED BY <3>1, <3>2, <1>2 DEF FramePromise
  <2> QED BY <2>1, <2>2, <1>2, <1>3, Opened
<1>9. \A c \in T : c \in W \/ (P /\ c = insert') => Past(W, insert)
  BY <1>1, <1>4, <1>7
<1>10. ReturnsBefore(depth + 1)' => P
  BY <1>2, <1>3, Opened
<1>11. /\ insert' \in Blocks \ linked /\ linked' = linked \cup {insert'} /\ P \in BOOLEAN
       /\ \A a \in PredsIn(term, insert') : Past(W, a)
  BY <1>2, <1>4, <1>6 DEF ReturnsBefore
<1> HIDE DEF P, T
<1>12. \E X \in SUBSET linked' : Closed(X)' /\ Promised(X)'
  BY <1>1, <1>2, <1>4, <1>5, <1>8, <1>9, <1>10, <1>11, Advance
<1> QED BY <1>12 DEF GInv

\* The blocks the ifs hold are not in the function, and no two ifs hold the same.
LEMMA TopHolds ==
    ASSUME TypeOK, BuildInv, NEW b \in Held(Top)
    PROVE  /\ b \in Blocks \ linked /\ b # EntryBB /\ depth \in Around
           /\ \A n \in Around : n # depth /\ frames[n].kind = "then" => frames[n].else # b
<1>1. depth \in Around /\ Top = frames[depth]
  BY TypeFacts DEF Around, Top
<1>2. b \in 1..created /\ b \notin linked
  BY <1>1 DEF BuildInv, HeldBlocks
<1>3. \A n \in Around : n # depth => b \notin Held(frames[n])
  BY <1>1 DEF BuildInv, HeldBlocks
<1>4. EntryBB \in linked
  BY DEF BuildInv, BlocksOpen
<1> QED BY <1>1, <1>2, <1>3, <1>4, FrameHeld, TypeFacts

LEMMA TopFacts ==
    ASSUME TypeOK
    PROVE  /\ depth \in Levels /\ frames \in [Levels -> Frames] /\ Top \in Frames /\ depth \in Nat
           /\ Around \subseteq Levels /\ Around = 1..depth /\ depth \in Around /\ Top = frames[depth]
           /\ ReturnsBefore(depth + 1) <=> ReturnsBefore(depth) \/ Top.returns
<1>1. /\ depth \in Levels /\ frames \in [Levels -> Frames] /\ Top \in Frames /\ depth \in Nat
      /\ Around \subseteq Levels /\ Around = 1..depth /\ Top = frames[depth]
  BY TypeFacts DEF TypeOK, Around, Top
<1>2. depth \in Around /\ \A m \in Around : m < depth + 1 /\ (m < depth \/ m = depth)
  BY <1>1, TypeFacts
<1> QED BY <1>1, <1>2 DEF ReturnsBefore

LEMMA BeginElseKeeps == TypeOK /\ BuildInv /\ GInv /\ BeginElse => GInv'
<1> SUFFICES ASSUME TypeOK, BuildInv, GInv, BeginElse PROVE GInv'
  OBVIOUS
<1>1. PICK W \in SUBSET linked : Closed(W) /\ Promised(W)
  BY DEF GInv
<1> DEFINE T == {Top.merge}
           P == ReturnsBefore(depth)
           f == [Top EXCEPT !.kind = "else", !.thenEnd = insert,
                            !.thenReturns = Top.returns, !.returns = FALSE]
<1>2. /\ Top.kind = "then" /\ Branch(T) /\ linked' = linked \cup {Top.else}
      /\ insert' = Top.else /\ frames' = [frames EXCEPT ![depth] = f]
      /\ UNCHANGED <<depth, code>>
  BY DEF BeginElse, SetTop, ThenEnd
<1>3. Mono
  BY <1>2, SameCode
<1>4. /\ depth \in Levels /\ frames \in [Levels -> Frames] /\ Top \in Frames
      /\ Around \subseteq Levels /\ Around = 1..depth /\ depth \in Nat /\ Top = frames[depth]
      /\ depth \in Around
  BY TopFacts
<1>5. /\ Top.else \in Held(Top) /\ Top.merge \in Held(Top) /\ Top.else # Top.merge
  BY <1>2, <1>4, FrameHeld DEF BuildInv, HeldBlocks
<1>6. f.kind = "else" /\ f.thenEnd = insert /\ f.thenReturns = Top.returns /\ f.returns = FALSE
  BY <1>4 DEF Frames
<1> HIDE DEF f
<1>7. frames'[depth] = f /\ \A n \in Around : n # depth => frames'[n] = frames[n]
  BY <1>2, <1>4
<1>8. ASSUME NEW n \in 1..depth' PROVE ReturnsBefore(n)' <=> ReturnsBefore(n)
  <2>1. \A m : m < n => m # depth \/ m \notin Around
    BY <1>2, <1>4
  <2> QED BY <2>1, <1>2, <1>4, <1>7, ReturnsSame
<1>9. ReturnsBefore(depth + 1) <=> ReturnsBefore(depth) \/ Top.returns
  BY TopFacts
<1>10. ReturnsBefore(depth + 1)' => P
  <2>1. ReturnsBefore(depth + 1)' <=> \E m \in Around : frames'[m].returns
    BY <1>2, <1>4 DEF ReturnsBefore, Around
  <2> QED BY <2>1, <1>4, <1>6, <1>7 DEF ReturnsBefore
<1>11. ASSUME NEW n \in 1..depth'
       PROVE  Steady(n, T) \/ \A X : W \subseteq X => FramePromise(X, n)'
  <2>1. CASE n # depth
    <3>1. n \in Around /\ (frames[n].kind = "then" => frames[n].else \notin T)
      BY <2>1, <1>2, <1>4, <1>5, TopHolds
    <3> QED BY <2>1, <3>1, <1>7, <1>8 DEF Steady
  <2>2. CASE n = depth
    <3>1. frames'[n].kind = "else" /\ frames'[n].thenEnd = insert /\ frames'[n].thenReturns = Top.returns
      BY <2>2, <1>6, <1>7
    <3>2. ReturnsBefore(n)' \/ frames'[n].thenReturns => Past(W, insert)
      BY <2>2, <3>1, <1>1, <1>8, <1>9 DEF Promised
    <3>3. ASSUME NEW X, W \subseteq X, Past(W, insert) PROVE \A b : b = insert => Past(X, b)'
      BY <3>3, <1>3, TypeFacts DEF Past, Mono
    <3>4. ASSUME NEW X, \A b : b = insert => Past(X, b)' PROVE Past(X, frames[n].thenEnd)'
      BY <3>1, <3>4 DEF Past, Writes
    <3> QED BY <3>1, <3>2, <3>3, <3>4 DEF FramePromise
  <2> QED BY <2>1, <2>2
<1>12. P => \A a \in PredsIn(term, insert') : Past(W, a)
  <2>1. FramePromise(W, depth)
    BY <1>1, <1>4 DEF Promised
  <2> QED BY <2>1, <1>2, <1>4 DEF FramePromise, Preds
<1>13. \A c \in T : c \in W \/ (P /\ c = insert') => Past(W, insert)
  BY <1>1, <1>2, <1>5, TopHolds
<1>14. /\ insert' \in Blocks \ linked /\ linked' = linked \cup {insert'} /\ P \in BOOLEAN
       /\ T \in SUBSET Blocks
  BY <1>2, <1>5, TopHolds DEF ReturnsBefore
<1> HIDE DEF P, T
<1>15. \E X \in SUBSET linked' : Closed(X)' /\ Promised(X)'
  BY <1>1, <1>2, <1>3, <1>10, <1>11, <1>12, <1>13, <1>14, Advance
<1> QED BY <1>15 DEF GInv

LEMMA EndIfKeeps == TypeOK /\ BuildInv /\ GInv /\ EndIf => GInv'
<1> SUFFICES ASSUME TypeOK, BuildInv, GInv, EndIf PROVE GInv'
  OBVIOUS
<1>1. PICK W \in SUBSET linked : Closed(W) /\ Promised(W)
  BY DEF GInv
<1> DEFINE T == {Top.merge}
           P == ReturnsBefore(depth) \/ IfReturns
<1>2. /\ Top.kind = "else" /\ Branch(T) /\ linked' = linked \cup {Top.merge}
      /\ insert' = Top.merge /\ UNCHANGED code
      /\ Close([Outer EXCEPT !.returns = Outer.returns \/ IfReturns])
  BY DEF EndIf
<1>3. Mono
  BY <1>2, SameCode
<1>4. Top.merge \in Held(Top)
  BY <1>2, FrameHeld
<1>5. /\ \A n \in 1..depth' : \A S :
             (frames[n].kind = "then" => frames[n].else \notin S) => Steady(n, S)
      /\ ReturnsBefore(depth + 1)' <=> P
      /\ 1..depth' = Around \ {depth}
  BY <1>2, Closing
<1>6. \A n \in 1..depth' : Steady(n, T)
  BY <1>4, <1>5, TopHolds
<1>7. P => Past(W, insert) /\ Past(W, Top.thenEnd)
  <2>1. P => ReturnsBefore(depth + 1)
    BY TopFacts DEF IfReturns
  <2>2. P => ReturnsBefore(depth) \/ Top.thenReturns
    BY DEF IfReturns
  <2>3. FramePromise(W, depth)
    BY <1>1, TopFacts DEF Promised
  <2>4. P => Past(W, Top.thenEnd)
    BY <2>2, <2>3, <1>2, TopFacts DEF FramePromise
  <2> QED BY <2>1, <2>4, <1>1 DEF Promised
<1>8. PredsIn(term, insert') = {Top.thenEnd}
  BY <1>2, TopFacts DEF BuildInv, PhisSoFar, Preds
<1>9. /\ insert' \in Blocks \ linked /\ linked' = linked \cup {insert'} /\ T \in SUBSET Blocks
      /\ P \in BOOLEAN
  <2>1. IfReturns \in BOOLEAN
    BY TopFacts DEF IfReturns, Frames
  <2> QED BY <2>1, <1>2, <1>4, TopHolds DEF ReturnsBefore
<1>10. \A c \in T : c \in W \/ (P /\ c = insert') => Past(W, insert)
  BY <1>1, <1>2, <1>7, <1>9
<1>11. P => \A a \in PredsIn(term, insert') : Past(W, a)
  BY <1>7, <1>8
<1> HIDE DEF P, T
<1>12. \E X \in SUBSET linked' : Closed(X)' /\ Promised(X)'
  BY <1>1, <1>2, <1>3, <1>5, <1>6, <1>9, <1>10, <1>11, Advance
<1> QED BY <1>12 DEF GInv

LEMMA EndForKeeps == TypeOK /\ BuildInv /\ GInv /\ EndFor => GInv'
<1> SUFFICES ASSUME TypeOK, BuildInv, GInv, EndFor PROVE GInv'
  OBVIOUS
<1>1. PICK W \in SUBSET linked : Closed(W) /\ Promised(W)
  BY DEF GInv
<1> DEFINE after == created + 1
           T == {Top.loop, after}
           P == ReturnsBefore(depth)
<1>2. /\ Top.kind = "for" /\ created + 1 <= MaxBlocks /\ Emit("test", Top.loop) /\ Branch(T)
      /\ linked' = linked \cup {after} /\ insert' = after /\ Close(Outer)
  BY DEF EndFor, RoomFor
<1>3. Mono
  BY <1>2, EmitMono
<1>4. Top.loop \in linked
  BY <1>2, TopFacts, ElseEnds
<1>5. /\ linked \subseteq 1..created /\ after \in Blocks /\ after \notin 1..created
      /\ T \in SUBSET Blocks
  <2>1. linked \subseteq Blocks
    BY DEF TypeOK
  <2>2. linked \subseteq 1..created
    BY DEF BuildInv, BlocksOpen
  <2>3. after \in Blocks /\ after \notin 1..created
    BY <1>2, TypeFacts
  <2> QED BY <2>1, <2>2, <2>3, <1>4
<1>6. Outer = [Outer EXCEPT !.returns = Outer.returns \/ FALSE]
  <2>1. depth # 1
    BY <1>2 DEF BuildInv, FrameKinds, Top
  <2>2. depth - 1 \in Levels
    BY <2>1, TopFacts, TypeFacts
  <2>3. Outer \in Frames
    BY <2>2, TopFacts DEF Outer
  <2>4. \A o \in Frames : o = [o EXCEPT !.returns = o.returns \/ FALSE]
    BY DEF Frames
  <2> QED BY <2>3, <2>4
<1>7. /\ \A n \in 1..depth' : \A S :
             (frames[n].kind = "then" => frames[n].else \notin S) => Steady(n, S)
      /\ ReturnsBefore(depth + 1)' <=> ReturnsBefore(depth) \/ FALSE
      /\ 1..depth' = Around \ {depth}
  <2>1. Close([Outer EXCEPT !.returns = Outer.returns \/ FALSE])
    BY <1>2, <1>6
  <2>2. Top.kind # "body"
    BY <1>2
  <2> QED BY <2>1, <2>2, Closing
<1>8. ASSUME NEW n \in 1..depth' PROVE Steady(n, T)
  <2>1. frames[n].kind = "then" => frames[n].else \in 1..created /\ frames[n].else \notin linked
    BY <1>7, FrameHeld DEF BuildInv, HeldBlocks
  <2> QED BY <2>1, <1>4, <1>5, <1>7
<1>9. Top.loop \in W => P
  <2>1. FramePromise(W, depth)
    BY <1>1, TopFacts DEF Promised
  <2> QED BY <2>1, <1>2, TopFacts DEF FramePromise
<1>10. P => Past(W, insert)
  BY <1>1, TopFacts DEF Promised
<1>11. \A c \in T : c \in W \/ (P /\ c = insert') => Past(W, insert)
  BY <1>1, <1>5, <1>9, <1>10
<1>12. /\ insert' \in Blocks \ linked /\ linked' = linked \cup {insert'} /\ P \in BOOLEAN
       /\ \A a \in PredsIn(term, insert') : Past(W, a)
  <2>1. PredsIn(term, after) = {}
    BY <1>5, PredsLinked DEF BuildInv
  <2> QED BY <2>1, <1>2, <1>5 DEF ReturnsBefore
<1>13. ReturnsBefore(depth + 1)' => P
  BY <1>7
<1> HIDE DEF P, T
<1>14. \E X \in SUBSET linked' : Closed(X)' /\ Promised(X)'
  BY <1>1, <1>2, <1>3, <1>5, <1>8, <1>11, <1>12, <1>13, Advance
<1> QED BY <1>14 DEF GInv

-----------------------------------------------------------------------------
(* The complete function.                                                  *)

LEMMA InitReturns == Init => RInv
<1> SUFFICES ASSUME Init PROVE RInv
  OBVIOUS
<1>1. Closed({}) /\ Promised({})
  <2>1. \A n \in Levels : frames[n] = Frame("body")
    BY DEF Init
  <2>2. 1..depth \subseteq Levels
    BY BoundsAssumption DEF Init, Levels
  <2>3. Frame("body").kind = "body" /\ Frame("body").returns = FALSE
    BY DEF Frame
  <2> QED BY <2>1, <2>2, <2>3 DEF Closed, Promised, FramePromise, ReturnsBefore, Around
<1>2. {} \in SUBSET linked
  OBVIOUS
<1> QED BY <1>1, <1>2 DEF Init, RInv, Complete

\* A function that returns a value was accepted, so its exit is entered with it written.
LEMMA EndFunctionKeeps ==
    TypeOK /\ BuildInv /\ GInv /\ at = <<EntryBB, 1>> /\ EndFunction
        => \E W \in SUBSET linked' : Closed(W)' /\ Kept(W)'
<1> SUFFICES ASSUME TypeOK, BuildInv, GInv, at = <<EntryBB, 1>>, EndFunction
             PROVE  \E W \in SUBSET linked' : Closed(W)' /\ Kept(W)'
  OBVIOUS
<1>1. PICK W \in SUBSET linked : Closed(W) /\ Promised(W)
  BY DEF GInv
<1>2. /\ AcceptedBody /\ linked' = linked \cup {RetBB} /\ UNCHANGED <<returnsVoid, code, at, returned>>
      /\ term' = [term EXCEPT ![insert] = Append(term[insert], {RetBB}),
                              ![RetBB] = Append(@, {})]
  BY DEF EndFunction, run
<1>3. PICK X : X = IF returnsVoid THEN W ELSE W \cup {RetBB}
  OBVIOUS
<1>4. /\ W \subseteq linked /\ EntryBB \notin W /\ EntryBB # RetBB /\ insert \in Blocks
      /\ RetBB \in Blocks /\ insert # RetBB /\ RetBB \notin linked /\ RetBB \notin W
      /\ term[insert] = <<>> /\ term[RetBB] = <<>> /\ term \in [Blocks -> Seq(SUBSET Blocks)]
  <2>1. RetBB \in Blocks /\ EntryBB # RetBB
    BY TypeFacts DEF RetBB, EntryBB
  <2>2. RetBB \notin linked /\ insert \in linked
    BY DEF BuildInv, HeldBlocks, BlocksOpen
  <2> QED BY <1>1, <2>1, <2>2 DEF Closed, TypeOK, BuildInv, BlocksOpen
<1>5. /\ term'[insert] = <<{RetBB}>> /\ term'[RetBB] = <<{}>>
      /\ \A b \in Blocks \ {insert, RetBB} : term'[b] = term[b]
  BY <1>2, <1>4
<1>6. ~returnsVoid => Past(W, insert)
  <2>1. ~returnsVoid => Top.returns
    BY <1>2 DEF AcceptedBody
  <2> QED BY <2>1, <1>1, TopFacts DEF Promised
<1>7. ASSUME NEW c \in X, NEW a \in PredsIn(term', c) PROVE Past(X, a)'
  <2>1. PICK i \in DOMAIN term'[a] : a \in Blocks /\ c \in term'[a][i]
    BY <1>7 DEF PredsIn
  <2>2. \A b : Past(W, b) => Past(X, b)'
    BY <1>2, <1>3 DEF Past, Writes
  <2>3. CASE a = insert
    <3>1. c = RetBB
      <4>1. \A k \in DOMAIN <<{RetBB}>> : <<{RetBB}>>[k] = {RetBB}
        OBVIOUS
      <4> QED BY <4>1, <2>1, <2>3, <1>5
    <3>2. ~returnsVoid
      BY <3>1, <1>3, <1>4
    <3> QED BY <3>2, <2>2, <2>3, <1>6
  <2>4. CASE a = RetBB
    <3>1. \A k \in DOMAIN <<{}>> : <<{}>>[k] = {}
      OBVIOUS
    <3> QED BY <3>1, <2>1, <2>4, <1>5
  <2>5. CASE a \notin {insert, RetBB}
    <3>1. i \in DOMAIN term[a] /\ c \in term[a][i] /\ a \in PredsIn(term, c)
      BY <2>1, <2>5, <1>5 DEF PredsIn
    <3>2. c # RetBB
      BY <3>1, <2>1 DEF BuildInv, BlocksOpen
    <3>3. c \in W
      BY <3>2, <1>3, <1>7
    <3> QED BY <3>1, <3>3, <2>2, <1>1 DEF Closed, Preds
  <2> QED BY <2>3, <2>4, <2>5
<1>8. X \subseteq linked' /\ Closed(X)'
  BY <1>2, <1>3, <1>4, <1>7 DEF Closed, Preds
<1>9. Kept(X)'
  BY <1>2, <1>3, <1>4 DEF Kept
<1> QED BY <1>8, <1>9

\* Blocks of W are entered with the value written, and left with it.
LEMMA ExecInstructionKeeps ==
    ASSUME TypeOK, NEW W, Closed(W), Kept(W), ExecInstruction
    PROVE  Closed(W)' /\ Kept(W)'
<1>1. /\ at[2] <= Len(code[at[1]]) /\ UNCHANGED <<returnsVoid, linked, term, code>>
      /\ returned' = (returned \/ code[at[1]][at[2]].op = "ret")
      /\ at' = <<at[1], at[2] + 1>> /\ at[2] \in Nat \ {0}
  BY DEF ExecInstruction, gen, TypeOK
<1>2. Closed(W)'
  BY <1>1 DEF Closed, Preds, Past, Writes, PredsIn
<1>3. at'[1] = at[1] /\ at'[2] = at[2] + 1
  BY <1>1
<1>4. ASSUME NEW k \in 1..(at'[2] - 1), code[at[1]][k].op = "ret", k \in DOMAIN code[at[1]]
      PROVE  returned'
  <2>1. CASE k = at[2]
    BY <2>1, <1>1, <1>4
  <2>2. CASE k # at[2]
    <3>1. at[2] \in Nat /\ k \in 1..at[2]
      BY <1>1, <1>3
    <3>2. k \in 1..(at[2] - 1)
      BY <3>1, <2>2
    <3> QED BY <3>2, <1>1, <1>4 DEF Kept
  <2> QED BY <2>1, <2>2
<1>5. at[1] \in W => returned'
  BY <1>1 DEF Kept
<1> QED BY <1>1, <1>2, <1>3, <1>4, <1>5 DEF Kept

LEMMA ExecBranchKeeps ==
    ASSUME TypeOK, NEW W, Closed(W), Kept(W), ExecBranch, Len(term[at[1]]) = 1
    PROVE  Closed(W)' /\ Kept(W)'
<1>1. PICK b \in term[at[1]][1] : at' = <<b, 1>>
  BY DEF ExecBranch
<1>2. /\ at[2] > Len(code[at[1]]) /\ UNCHANGED <<returnsVoid, linked, term, code, returned>>
      /\ at[2] \in Nat \ {0} /\ at[1] \in Blocks /\ code[at[1]] \in Seq(Instructions)
      /\ term[at[1]] \in Seq(SUBSET Blocks)
  BY DEF ExecBranch, gen, TypeOK
<1>3. Closed(W)'
  BY <1>2 DEF Closed, Preds, Past, Writes, PredsIn
<1>4. at[1] \in Preds(b)
  <2>1. 1 \in DOMAIN term[at[1]]
    BY <1>2
  <2> QED BY <2>1, <1>1, <1>2 DEF Preds, PredsIn
<1>5. b \in W => returned
  <2> SUFFICES ASSUME b \in W PROVE returned
    OBVIOUS
  <2>1. at[1] \in W \/ Writes(at[1])
    BY <1>4 DEF Closed, Past
  <2>2. ASSUME NEW k \in DOMAIN code[at[1]], code[at[1]][k].op = "ret" PROVE returned
    <3>1. k \in 1..(at[2] - 1)
      <4>1. Len(code[at[1]]) \in Nat /\ k \in 1..Len(code[at[1]])
        BY <1>2
      <4> QED BY <4>1, <1>2
    <3> QED BY <3>1, <2>2 DEF Kept
  <2> QED BY <2>1, <2>2 DEF Kept, Writes
<1>6. at'[1] = b /\ at'[2] = 1 /\ 1..(1 - 1) = {}
  BY <1>1
<1>7. ~returnsVoid => RetBB \in W
  BY DEF Kept
<1> QED BY <1>2, <1>3, <1>5, <1>6, <1>7 DEF Kept

LEMMA StepReturns == IInv /\ RInv /\ [Next]_vars => RInv'
<1> SUFFICES ASSUME IInv, RInv, [Next]_vars PROVE RInv'
  OBVIOUS
<1>1. CASE UNCHANGED vars
  <2>1. UNCHANGED <<phase, returnsVoid, linked, insert, term, code, frames, depth, at, returned>>
    BY <1>1 DEF vars, gen, run
  <2>2. ASSUME NEW W PROVE /\ Closed(W)' <=> Closed(W)
                           /\ Promised(W)' <=> Promised(W)
                           /\ Kept(W)' <=> Kept(W)
    <3>1. \A b : PredsIn(term', b) = PredsIn(term, b)
      BY <2>1
    <3>2. \A b : Past(W, b)' <=> Past(W, b)
      BY <2>1 DEF Past, Writes
    <3>3. Past(W, insert)' <=> Past(W, insert)
      BY <2>1 DEF Past, Writes
    <3>4. \A n : Past(W, frames[n].thenEnd)' <=> Past(W, frames[n].thenEnd)
      BY <2>1 DEF Past, Writes
    <3>5. \A n : ReturnsBefore(n)' <=> ReturnsBefore(n)
      BY <2>1 DEF ReturnsBefore, Around
    <3>6. ReturnsBefore(depth + 1)' <=> ReturnsBefore(depth + 1)
      BY <2>1 DEF ReturnsBefore, Around
    <3>7. \A n : FramePromise(W, n)' <=> FramePromise(W, n)
      BY <2>1, <3>1, <3>2, <3>4, <3>5 DEF FramePromise, Preds
    <3>8. Closed(W)' <=> Closed(W)
      BY <2>1, <3>1, <3>2 DEF Closed, Preds
    <3>9. Promised(W)' <=> Promised(W)
      BY <2>1, <3>3, <3>6, <3>7 DEF Promised, Around
    <3> QED BY <2>1, <3>8, <3>9 DEF Kept
  <2> QED BY <2>1, <2>2 DEF RInv, Complete
<1>2. CASE Next /\ phase = "gen"
  <2>1. TypeOK /\ BuildInv /\ GInv /\ at = <<EntryBB, 1>>
    BY <1>2 DEF IInv, RInv, GInv, BuildInv, Building
  <2>2. CASE EndFunction
    <3>1. phase' = "run"
      BY <2>2 DEF EndFunction
    <3> QED BY <2>1, <2>2, <3>1, EndFunctionKeeps DEF RInv, Complete
  <2>3. CASE RefuseFunction
    BY <2>3 DEF RefuseFunction, RInv, Complete
  <2>4. ASSUME GInv', UNCHANGED <<phase, at>> PROVE RInv'
    BY <2>1, <2>4, <1>2 DEF RInv, GInv, Complete
  <2>5. CASE GenExpression
    BY <2>1, <2>4, <2>5, GenExpressionKeeps DEF GenExpression, run
  <2>6. CASE GenReturn
    BY <2>1, <2>4, <2>6, GenReturnKeeps DEF GenReturn, run
  <2>7. CASE BeginDomain
    BY <2>1, <2>4, <2>7, BeginDomainKeeps DEF BeginDomain, run
  <2>8. CASE EndDomain
    BY <2>1, <2>4, <2>8, EndDomainKeeps DEF EndDomain, run
  <2>9. CASE BeginIf
    BY <2>1, <2>4, <2>9, BeginIfKeeps DEF BeginIf, run
  <2>10. CASE BeginElse
    BY <2>1, <2>4, <2>10, BeginElseKeeps DEF BeginElse, run
  <2>11. CASE EndIf
    BY <2>1, <2>4, <2>11, EndIfKeeps DEF EndIf, run
  <2>12. CASE BeginFor
    BY <2>1, <2>4, <2>12, BeginForKeeps DEF BeginFor, run
  <2>13. CASE EndFor
    BY <2>1, <2>4, <2>13, EndForKeeps DEF EndFor, run
  <2>14. ~Execute
    BY <1>2 DEF Execute, ExecInstruction, ExecBranch, ExecRet
  <2> QED BY <1>2, <2>2, <2>3, <2>5, <2>6, <2>7, <2>8, <2>9, <2>10, <2>11, <2>12, <2>13,
             <2>14 DEF Next, Generate
<1>3. CASE Next /\ phase # "gen"
  <2>1. Execute /\ phase = "run"
    BY <1>3 DEF Next, Generate, Execute, Generating, GenExpression, GenReturn, BeginDomain,
         EndDomain, BeginIf, BeginElse, EndIf, BeginFor, EndFor, EndFunction,
         RefuseFunction, MayStart, ExecInstruction, ExecBranch, ExecRet
  <2>2. PICK W \in SUBSET linked : Closed(W) /\ Kept(W)
    BY <2>1 DEF RInv, Complete
  <2>3. TypeOK /\ Len(term[at[1]]) = 1 /\ UNCHANGED linked
    BY <2>1 DEF IInv, Complete, WellFormed, Execute, ExecInstruction, ExecBranch, ExecRet, gen
  <2>4. CASE ExecInstruction
    <3>1. phase' = "run" /\ Closed(W)' /\ Kept(W)'
      BY <2>1, <2>2, <2>3, <2>4, ExecInstructionKeeps DEF ExecInstruction
    <3> QED BY <3>1, <2>3 DEF RInv, Complete
  <2>5. CASE ExecBranch
    <3>1. phase' = "run" /\ Closed(W)' /\ Kept(W)'
      BY <2>1, <2>2, <2>3, <2>5, ExecBranchKeeps DEF ExecBranch
    <3> QED BY <3>1, <2>3 DEF RInv, Complete
  <2>6. CASE ExecRet
    <3>1. phase' = "done" /\ at'[1] = RetBB
      BY <2>6 DEF ExecRet, run
    <3>2. Closed(W)' /\ Kept(W)'
      BY <2>2, <2>6 DEF ExecRet, gen, run, Closed, Kept, Preds, PredsIn, Past, Writes
    <3> QED BY <3>1, <3>2, <2>3 DEF RInv, Complete
  <2> QED BY <2>1, <2>4, <2>5, <2>6 DEF Execute
<1> QED BY <1>1, <1>2, <1>3

\* What the parser's HasReturnExpForAllPaths accepts, the generated code honours: a
\* function of any size that returns a value never reaches its exit with the return
\* slot unwritten.
THEOREM ReturnsValue == Spec => []ResultWritten
<1>1. RInv => ResultWritten
  BY DEF RInv, Complete, Kept, ResultWritten
<1>2. Spec => [](IInv /\ RInv)
  <2>1. IInv /\ RInv /\ [Next]_vars => (IInv /\ RInv)'
    BY NextInv, StepReturns
  <2> QED BY <2>1, InitInv, InitReturns, PTL DEF Spec
<1> QED BY <1>1, <1>2, PTL
=============================================================================
