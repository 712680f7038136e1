-------------------------- MODULE KscSessionProofs --------------------------
(***************************************************************************)
(* For every set of names, every text a client may pass and every number   *)
(* of calls, with or without a second initialisation: the state of a       *)
(* session is well typed, the code of a module calls into that module and  *)
(* into the shared domain only, refused sources leave no code, the shared  *)
(* domain stays as KSC_Initialize left it, a pointer is handed out only    *)
(* with all the code it reaches, the handles of a module are its own, and  *)
(* the assertions fail for the known reasons only.                         *)
(***************************************************************************)
EXTENDS KscSession, TLAPS

\* KSC_Initialize always declares intrinsics of its own (SC_API.cpp), which is what
\* keeps a second initialisation from ever generating code.
First == Intrinsics[1]

\* What stands at the head of the shared domain.
FirstDeclared ==
    /\ phase = "ParseShared" =>
          \/ order["shared"] # <<>> /\ order["shared"][1] = First
          \/ /\ order["shared"] = <<>> /\ ~noisy /\ text # <<>>
             /\ Head(text).form = "decl" /\ Head(text).name = First
             /\ ~decls["shared"][First].declared
    /\ phase = "GenShared" => order["shared"] # <<>> /\ order["shared"][1] = First

\* Expressions belong to declarations, and a module never redeclares a shared name.
ListedDeclared == \A s \in Scopes : \A k \in DOMAIN order[s] : decls[s][order[s][k]].declared
ScopesDisjoint ==
    /\ phase \in {"Parse", "Gen"} =>
          \A n \in Names : decls["module"][n].declared => ~decls["shared"][n].declared
    /\ phase \notin {"Parse", "Gen", "Aborted"} => \A n \in Names : ~decls["module"][n].declared

\* The Functions of the shared context: a context that is not empty holds the first
\* intrinsic, and in a session that is ready it holds declared functions only.
SharedFunctions ==
    /\ (\E n \in Names : ctx["shared"][n] # 0) => ctx["shared"][First] # 0
    /\ (ready \/ (phase = "GenShared" /\ next > 1)) =>
          \A n \in Names : ctx["shared"][n] # 0 => decls["shared"][n].declared
    /\ phase = "GenShared" /\ next > 1 => ctx["shared"][First] # 0
    /\ phase \in {"Parse", "Gen"} => ready
    /\ phase \in {"ParseShared", "GenShared"} => ~ready

ModuleFunctions == phase = "Gen" => \A n \in Names : ctx["module"][n] \in {0, call}

Linkage == FirstDeclared /\ ListedDeclared /\ ScopesDisjoint /\ SharedFunctions /\ ModuleFunctions

IInv ==
    /\ TypeOK
    /\ Linkage
    /\ phase \in {"ParseShared", "GenShared", "Parse", "Gen", "Jit"} => call \in CallIds
    /\ CallsStayInModule

-----------------------------------------------------------------------------
(* Facts about the constants and about the texts.                          *)

LEMMA FirstIsName == First \in Names /\ 1 \in DOMAIN Intrinsics /\ Len(Intrinsics) \in Nat \ {0}
  BY NamesAssumption DEF First

LEMMA IntrinsicTextTyped ==
    /\ IntrinsicText \in Seq(Items) /\ IntrinsicText # <<>>
    /\ Head(IntrinsicText).form = "decl" /\ Head(IntrinsicText).name = First
  <1>1. DOMAIN Intrinsics = 1..Len(Intrinsics) /\ Len(Intrinsics) \in Nat
        /\ \A k \in DOMAIN Intrinsics : Intrinsics[k] \in Names
    BY NamesAssumption
  <1>2. \A k \in DOMAIN Intrinsics :
           [form |-> "decl", name |-> Intrinsics[k], args |-> 1, calls |-> {}] \in Items
    BY <1>1 DEF Items, Forms
  <1>3. IntrinsicText \in [1..Len(Intrinsics) -> Items]
    BY <1>1, <1>2 DEF IntrinsicText
  <1>4. IntrinsicText \in Seq(Items) /\ Len(IntrinsicText) = Len(Intrinsics)
    BY <1>1, <1>3
  <1>5. IntrinsicText # <<>> /\ Head(IntrinsicText) = IntrinsicText[1]
    BY <1>4, FirstIsName
  <1> QED BY <1>4, <1>5, FirstIsName DEF IntrinsicText, First

LEMMA SharedTextTyped ==
    ASSUME NEW shared \in SharedTexts
    PROVE  /\ IntrinsicText \o shared \in Seq(Items) /\ IntrinsicText \o shared # <<>>
           /\ Head(IntrinsicText \o shared).form = "decl"
           /\ Head(IntrinsicText \o shared).name = First
  <1>1. shared \in Seq(Items)
    BY TextsAssumption
  <1>2. Head(IntrinsicText \o shared) = Head(IntrinsicText) /\ IntrinsicText \o shared # <<>>
    BY <1>1, IntrinsicTextTyped
  <1> QED BY <1>1, <1>2, IntrinsicTextTyped

LEMMA ItemTyped ==
    ASSUME TypeOK, text # <<>>
    PROVE  Head(text) \in Items /\ Tail(text) \in Seq(Items) /\ Head(text).name \in Names
  <1>1. text \in Seq(Items)
    BY DEF TypeOK
  <1>2. Head(text) \in Items /\ Tail(text) \in Seq(Items)
    BY <1>1
  <1> QED BY <1>2 DEF Items

-----------------------------------------------------------------------------
(* What parsing an item does to the declarations.                          *)

LEMMA AppendedItems ==
    ASSUME NEW S, NEW q \in Seq(S), NEW x \in S, NEW k \in DOMAIN Append(q, x)
    PROVE  (k \in DOMAIN q /\ Append(q, x)[k] = q[k]) \/ Append(q, x)[k] = x
  OBVIOUS

LEMMA CurrentScope == Current \in Scopes /\ "shared" \in Scopes /\ "module" \in Scopes
  BY DEF Current, Scopes

LEMMA BodyScopeIn == \A it : BodyScope(it) \in Scopes
  BY CurrentScope DEF BodyScope, HomeOf

LEMMA EnteredTyped ==
    ASSUME TypeOK, NEW it \in Items
    PROVE  /\ Entered(it) \in [Scopes -> [Names -> Decls]]
           /\ \A s \in Scopes, n \in Names :
                 Entered(it)[s][n].declared <=>
                    \/ decls[s][n].declared
                    \/ s = Current /\ n = it.name /\ ~Visible(Current, it.name)
  <1>1. it.name \in Names /\ it.args \in Nat
    BY DEF Items
  <1> DEFINE d == [Undeclared EXCEPT !.declared = TRUE, !.args = it.args]
  <1>2. d \in Decls /\ d.declared = TRUE
    BY <1>1 DEF Undeclared, Decls
  <1> HIDE DEF d
  <1>3. decls \in [Scopes -> [Names -> Decls]]
    BY DEF TypeOK
  <1>4. CASE Visible(Current, it.name)
    BY <1>3, <1>4 DEF Entered
  <1>5. CASE ~Visible(Current, it.name)
    <2>1. Entered(it) = [decls EXCEPT ![Current][it.name] = d]
      BY <1>5 DEF Entered, d
    <2>2. Entered(it) \in [Scopes -> [Names -> Decls]]
      BY <2>1, <1>1, <1>2, <1>3, CurrentScope
    <2>3. /\ Entered(it)[Current][it.name] = d
          /\ \A s \in Scopes, n \in Names :
                s # Current \/ n # it.name => Entered(it)[s][n] = decls[s][n]
      BY <2>1, <1>1, <1>2, <1>3, CurrentScope
    <2> QED BY <2>2, <2>3, <1>2, <1>5
  <1> QED BY <1>4, <1>5

LEMMA ListedTyped ==
    ASSUME TypeOK, NEW it \in Items
    PROVE  /\ Listed(it) \in [Scopes -> Seq(Names)]
           /\ Visible(Current, it.name) => Listed(it) = order
           /\ ~Visible(Current, it.name) =>
                /\ Listed(it)[Current] = Append(order[Current], it.name)
                /\ \A s \in Scopes \ {Current} : Listed(it)[s] = order[s]
  <1>1. order \in [Scopes -> Seq(Names)] /\ it.name \in Names /\ order[Current] \in Seq(Names)
    BY CurrentScope DEF TypeOK, Items
  <1>2. Append(order[Current], it.name) \in Seq(Names)
    BY <1>1
  <1> QED BY <1>1, <1>2, CurrentScope DEF Listed

\* An item that is entered, whatever becomes of its body.
LEMMA ParsedItem ==
    ASSUME IInv, Parsing, text # <<>>, NEW it \in Items, it = Head(text),
           decls' \in [Scopes -> [Names -> Decls]],
           \A s \in Scopes, n \in Names : decls'[s][n].declared <=> Entered(it)[s][n].declared,
           order' = Listed(it), text' \in Seq(Items), noisy' \in BOOLEAN,
           UNCHANGED <<session, source, baseline, back, handles, jit>>
    PROVE  IInv'
  <1>1. TypeOK /\ it.name \in Names
    BY DEF IInv, Items
  <1>2. TypeOK'
    BY <1>1, ListedTyped DEF TypeOK, session, back, handles, jit
  <1>3. \A s \in Scopes, n \in Names :
           decls'[s][n].declared <=>
              \/ decls[s][n].declared
              \/ s = Current /\ n = it.name /\ ~Visible(Current, it.name)
    BY <1>1, EnteredTyped
  <1>4. UNCHANGED <<phase, ready, ctx, next, call, binds>>
    BY DEF session, back
  <1>5. FirstDeclared'
    <2>1. CASE phase = "ParseShared" /\ Visible(Current, it.name)
      <3>1. ~decls["shared"][it.name].declared => FALSE
        BY <2>1 DEF Visible, HomeOf, Current
      <3> QED BY <2>1, <3>1, <1>1, <1>4, ListedTyped DEF IInv, Linkage, FirstDeclared
    <2>2. CASE phase = "ParseShared" /\ ~Visible(Current, it.name)
      <3>1. order'["shared"] = Append(order["shared"], it.name) /\ order["shared"] \in Seq(Names)
        BY <2>2, <1>1, ListedTyped, CurrentScope DEF Current, TypeOK
      <3>2. order'["shared"] # <<>>
        BY <3>1, <1>1
      <3>3. order["shared"] = <<>> => order'["shared"][1] = it.name /\ it.name = First
        BY <3>1, <2>2, <1>1 DEF IInv, Linkage, FirstDeclared
      <3>4. order["shared"] # <<>> => order'["shared"][1] = order["shared"][1]
        BY <3>1, <1>1
      <3> QED BY <2>2, <3>2, <3>3, <3>4, <1>4 DEF IInv, Linkage, FirstDeclared
    <2> QED BY <2>1, <2>2, <1>4 DEF Parsing, FirstDeclared
  <1>6. ListedDeclared'
    <2>1. ASSUME NEW s \in Scopes, NEW k \in DOMAIN order'[s]
          PROVE  decls'[s][order'[s][k]].declared
      <3>1. order[s] \in Seq(Names) /\ order'[s] \in Seq(Names)
        BY <1>1, <1>2 DEF TypeOK
      <3>2. \A j \in DOMAIN order[s] : order[s][j] \in Names /\ decls[s][order[s][j]].declared
        BY <3>1 DEF IInv, Linkage, ListedDeclared
      <3>3. CASE order'[s] = order[s]
        BY <3>2, <3>3, <1>3
      <3>4. CASE ~Visible(Current, it.name) /\ s = Current
        <4>1. order'[s] = Append(order[s], it.name)
          BY <3>4, <1>1, ListedTyped
        <4>2. (k \in DOMAIN order[s] /\ order'[s][k] = order[s][k]) \/ order'[s][k] = it.name
          <5>1. k \in DOMAIN Append(order[s], it.name)
            BY <4>1
          <5>2. \/ k \in DOMAIN order[s] /\ Append(order[s], it.name)[k] = order[s][k]
                \/ Append(order[s], it.name)[k] = it.name
            <6>1. order[s] \in Seq(Names) /\ it.name \in Names
              BY <3>1, <1>1
            <6> QED BY <5>1, <6>1, AppendedItems
          <5> QED BY <5>2, <4>1
        <4> QED BY <4>2, <3>2, <3>4, <1>1, <1>3
      <3> QED BY <3>3, <3>4, <1>1, ListedTyped
    <2> QED BY <2>1 DEF ListedDeclared
  <1>7. ScopesDisjoint'
    <2>1. CASE phase = "Parse"
      <3>1. Current = "module"
        BY <2>1 DEF Current
      <3>2. ~Visible(Current, it.name) => ~decls["shared"][it.name].declared
        BY <3>1 DEF Visible, HomeOf
      <3> QED BY <2>1, <3>1, <3>2, <1>1, <1>3, <1>4, CurrentScope
              DEF IInv, Linkage, ScopesDisjoint
    <2>2. CASE phase = "ParseShared"
      <3>1. Current = "shared"
        BY <2>2 DEF Current
      <3> QED BY <2>2, <3>1, <1>3, <1>4, CurrentScope DEF IInv, Linkage, ScopesDisjoint
    <2> QED BY <2>1, <2>2 DEF Parsing
  <1>8. SharedFunctions' /\ ModuleFunctions'
    BY <1>3, <1>4, CurrentScope DEF IInv, Linkage, SharedFunctions, ModuleFunctions
  <1>9. CallsStayInModule'
    BY <1>4 DEF IInv, CallsStayInModule
  <1> QED BY <1>2, <1>4, <1>5, <1>6, <1>7, <1>8, <1>9 DEF IInv, Linkage

LEMMA MarkedDecls ==
    ASSUME NEW D \in [Scopes -> [Names -> Decls]], NEW s \in Scopes, NEW n \in Names,
           NEW d \in Decls, d.declared = D[s][n].declared
    PROVE  /\ [D EXCEPT ![s][n] = d] \in [Scopes -> [Names -> Decls]]
           /\ \A t \in Scopes, m \in Names :
                 [D EXCEPT ![s][n] = d][t][m].declared <=> D[t][m].declared
  OBVIOUS

LEMMA ParseSteps ==
    ASSUME IInv, ParseDeclaration \/ ParseDefinition \/ ParseTruncatedDefinition \/ RefuseBody
    PROVE  IInv'
  <1> DEFINE it == Head(text)
             D == Entered(it)
             b == BodyScope(it)
             old == D[b][it.name]
  <1>1. TypeOK /\ Parsing /\ text # <<>>
    BY DEF IInv, ParseDeclaration, ParseDefinition, ParseTruncatedDefinition, RefuseBody
  <1>2. it \in Items /\ Tail(text) \in Seq(Items) /\ it.name \in Names /\ text \in Seq(Items)
        /\ noisy \in BOOLEAN /\ it.args \in Nat /\ it.calls \in SUBSET Names
    BY <1>1, ItemTyped DEF TypeOK, Items
  <1>3. D \in [Scopes -> [Names -> Decls]] /\ b \in Scopes /\ old \in Decls
    BY <1>1, <1>2, EnteredTyped, BodyScopeIn
  <1>4. text' \in Seq(Items) /\ noisy' \in BOOLEAN /\ order' = Listed(it)
        /\ UNCHANGED <<session, source, baseline, back, handles, jit>>
    BY <1>2 DEF ParseDeclaration, ParseDefinition, ParseTruncatedDefinition, RefuseBody
  <1>5. /\ decls' \in [Scopes -> [Names -> Decls]]
        /\ \A s \in Scopes, n \in Names : decls'[s][n].declared <=> D[s][n].declared
    <2>1. CASE ParseDeclaration
      BY <2>1, <1>3 DEF ParseDeclaration
    <2>2. CASE ParseDefinition
      <3> DEFINE d == [old EXCEPT !.started = TRUE, !.hasBody = TRUE, !.calls = it.calls]
      <3>1. d \in Decls /\ d.declared = old.declared
        BY <1>2, <1>3 DEF Decls
      <3>2. decls' = [D EXCEPT ![b][it.name] = d]
        BY <2>2, <1>2, <1>3 DEF ParseDefinition
      <3> HIDE DEF d, D, b
      <3> QED BY <3>1, <3>2, <1>2, <1>3, MarkedDecls
    <2>3. CASE ParseTruncatedDefinition
      <3> DEFINE d == [old EXCEPT !.started = @ \/ it.args > 0]
      <3>1. d \in Decls /\ d.declared = old.declared
        BY <1>2, <1>3 DEF Decls
      <3>2. decls' = [D EXCEPT ![b][it.name] = d]
        BY <2>3, <1>2, <1>3 DEF ParseTruncatedDefinition
      <3> HIDE DEF d, D, b
      <3> QED BY <3>1, <3>2, <1>2, <1>3, MarkedDecls
    <2>4. CASE RefuseBody
      <3> DEFINE d == [old EXCEPT !.started = TRUE]
      <3>1. d \in Decls /\ d.declared = old.declared
        BY <1>2, <1>3 DEF Decls
      <3>2. decls' = [D EXCEPT ![b][it.name] = d]
        BY <2>4, <1>2, <1>3 DEF RefuseBody
      <3> HIDE DEF d, D, b
      <3> QED BY <3>1, <3>2, <1>2, <1>3, MarkedDecls
    <2> QED BY <2>1, <2>2, <2>3, <2>4
  <1> HIDE DEF it, D
  <1>6. it = Head(text) /\ D = Entered(it)
    BY DEF it, D
  <1> QED BY <1>1, <1>2, <1>4, <1>5, <1>6, ParsedItem

-----------------------------------------------------------------------------
(* The other steps.                                                        *)

\* Steps that leave the declarations, the contexts and the generated calls alone.
LEMMA QuietStep ==
    ASSUME IInv, TypeOK', UNCHANGED <<decls, order, ctx, binds>>,
           FirstDeclared', phase' \in {"Idle", "Jit", "Aborted"} \/ phase' = phase,
           ready' = ready \/ ready' = FALSE, next' = next, call' \in {call, call + 1},
           phase' \in {"Parse", "Gen", "ParseShared", "GenShared"} => ready' = ready /\ call' = call,
           phase' # "Aborted" => phase \notin {"Parse", "Gen", "Aborted"} \/ phase' = phase,
           phase' = "Jit" => call' \in CallIds
    PROVE  IInv'
  <1>1. ListedDeclared' /\ CallsStayInModule'
    BY DEF IInv, Linkage, ListedDeclared, CallsStayInModule
  <1>2. ScopesDisjoint'
    BY DEF IInv, Linkage, ScopesDisjoint
  <1>3. SharedFunctions'
    BY DEF IInv, Linkage, SharedFunctions
  <1>4. ModuleFunctions'
    BY DEF IInv, Linkage, ModuleFunctions
  <1>5. phase' \in {"ParseShared", "GenShared", "Parse", "Gen", "Jit"} => call' \in CallIds
    BY DEF IInv
  <1> QED BY <1>1, <1>2, <1>3, <1>4, <1>5 DEF IInv, Linkage

LEMMA QuietSteps ==
    ASSUME IInv,
           \/ \E n \in Names : AddExternalFunction(n)
           \/ InitializeWithoutEngine
           \/ \E m \in CallIds, n \in Names : GetFunctionPtr(m, n)
           \/ RefuseItem \/ GenAssertionFails \/ EndGetFunctionPtr
           \/ \E f \in FnIds : Emit(f) \/ UnresolvedSymbol(f)
    PROVE  IInv'
  <1>0. TypeOK /\ MaxCalls \in Nat \ {0} /\ CallIds = 1..MaxCalls /\ Ids0 = 0..MaxCalls
        /\ call \in Nat /\ call <= MaxCalls
    <2>1. TypeOK /\ call \in Ids0
      BY DEF IInv, TypeOK
    <2> QED BY <2>1, MaxCallsAssumption DEF CallIds, Ids0
  <1>1. ASSUME NEW n \in Names, AddExternalFunction(n) PROVE IInv'
    <2>1. TypeOK'
      BY <1>0, <1>1 DEF AddExternalFunction, Idle, TypeOK, front, back, handles, jit
    <2>2. FirstDeclared'
      BY <1>1 DEF AddExternalFunction, Idle, FirstDeclared
    <2> QED BY <2>1, <2>2, <1>1, QuietStep DEF AddExternalFunction, Idle, front, back
  <1>2. CASE InitializeWithoutEngine
    <2>1. TypeOK'
      <3>1. call' \in Ids0
        BY <1>0, <1>2 DEF InitializeWithoutEngine, Idle
      <3> QED BY <3>1, <1>0, <1>2 DEF InitializeWithoutEngine, TypeOK, front, back, handles, jit
    <2>2. FirstDeclared'
      BY <1>2 DEF InitializeWithoutEngine, Idle, FirstDeclared
    <2> QED BY <2>1, <2>2, <1>2, QuietStep DEF InitializeWithoutEngine, Idle, front, back
  <1>3. ASSUME NEW m \in CallIds, NEW n \in Names, GetFunctionPtr(m, n) PROVE IInv'
    <2>1. TypeOK'
      <3>1. desc[m][n] \in Ids0 /\ (desc[m][n] # 0 => <<desc[m][n], n>> \in FnIds)
        <4>1. desc[m][n] \in Ids0
          BY <1>0 DEF TypeOK
        <4> QED BY <4>1, <1>0 DEF FnIds
      <3>2. pending' \subseteq FnIds /\ failed' \in BOOLEAN /\ phase' \in {"Idle", "Jit"}
        BY <3>1, <1>0, <1>3 DEF GetFunctionPtr, Idle, TypeOK
      <3>3. call' \in Ids0
        BY <1>0, <1>3 DEF GetFunctionPtr, Idle
      <3> QED BY <3>2, <3>3, <1>0, <1>3 DEF GetFunctionPtr, TypeOK, front, back, handles
    <2>2. /\ phase' \in {"Idle", "Jit"} /\ phase = "Idle" /\ call' = call + 1 /\ call' \in CallIds
          /\ UNCHANGED <<ready, decls, order, ctx, binds, next>>
      BY <1>0, <1>3 DEF GetFunctionPtr, Idle, front, back
    <2>3. FirstDeclared'
      BY <2>2 DEF FirstDeclared
    <2> QED BY <2>1, <2>2, <2>3, QuietStep
  <1>4. CASE RefuseItem
    <2>1. TypeOK' /\ UNCHANGED <<phase, call, ready, decls, order, ctx, binds, next>>
      BY <1>0, <1>4 DEF RefuseItem, TypeOK, session, back, handles, jit
    <2>2. FirstDeclared'
      <3>1. CASE phase = "ParseShared"
        <4>1. Current = "shared" /\ \A n : Visible(Current, n) <=> decls["shared"][n].declared
          BY <3>1 DEF Current, Visible, HomeOf
        <4>2. ASSUME order["shared"] = <<>> PROVE FALSE
          <5>1. /\ Head(text).form = "decl" /\ Head(text).name = First
                /\ ~decls["shared"][First].declared
            BY <3>1, <4>2 DEF IInv, Linkage, FirstDeclared
          <5> QED BY <5>1, <4>1, <1>4 DEF RefuseItem, SamePrototype
        <4> QED BY <3>1, <4>2, <2>1 DEF IInv, Linkage, FirstDeclared
      <3> QED BY <3>1, <2>1, <1>4 DEF FirstDeclared, RefuseItem, Parsing
    <2>3. phase \in {"ParseShared", "Parse"}
      BY <1>4 DEF RefuseItem, Parsing
    <2> QED BY <2>1, <2>2, <2>3, QuietStep DEF IInv
  <1>5. CASE GenAssertionFails
    <2>1. phase' = "Aborted" /\ assertion' \in {"declared twice", "callee not generated"}
      BY <1>5 DEF GenAssertionFails, Abort
    <2>2. TypeOK'
      BY <1>0, <1>5, <2>1 DEF GenAssertionFails, TypeOK, front, back, handles, jit
    <2>3. FirstDeclared'
      BY <2>1 DEF FirstDeclared
    <2> QED BY <2>1, <2>2, <2>3, <1>5, QuietStep DEF GenAssertionFails, front, back
  <1>6. CASE EndGetFunctionPtr
    <2>1. phase' = "Idle" /\ phase = "Jit" /\ failed' \in BOOLEAN
      BY <1>6 DEF EndGetFunctionPtr, Return
    <2>2. TypeOK'
      BY <1>0, <1>6, <2>1 DEF EndGetFunctionPtr, TypeOK, front, back, handles, jit
    <2>3. FirstDeclared'
      BY <2>1 DEF FirstDeclared
    <2> QED BY <2>1, <2>2, <2>3, <1>6, QuietStep DEF EndGetFunctionPtr, front, back
  <1>7. ASSUME NEW f \in FnIds, Emit(f) PROVE IInv'
    <2>1. CalleesOf(f) \subseteq FnIds
      BY <1>0 DEF CalleesOf, TypeOK
    <2>2. pending' \subseteq FnIds /\ jitted' \subseteq FnIds
      BY <2>1, <1>0, <1>7 DEF Emit, TypeOK
    <2>3. TypeOK' /\ phase = "Jit" /\ UNCHANGED <<phase, call, ready, decls, order, ctx, binds, next>>
      BY <2>2, <1>0, <1>7 DEF Emit, TypeOK, session, front, back, handles
    <2>4. FirstDeclared'
      BY <2>3 DEF FirstDeclared
    <2> QED BY <2>3, <2>4, QuietStep DEF IInv
  <1>8. ASSUME NEW f \in FnIds, UnresolvedSymbol(f) PROVE IInv'
    <2>1. phase' = "Aborted" /\ assertion' = "unresolved symbol"
      BY <1>8 DEF UnresolvedSymbol, Abort
    <2>2. TypeOK'
      BY <1>0, <1>8, <2>1 DEF UnresolvedSymbol, TypeOK, front, back, handles, jit
    <2>3. FirstDeclared'
      BY <2>1 DEF FirstDeclared
    <2> QED BY <2>1, <2>2, <2>3, <1>8, QuietStep DEF UnresolvedSymbol, front, back
  <1> QED BY <1>1, <1>2, <1>3, <1>4, <1>5, <1>6, <1>7, <1>8

LEMMA CallTyped ==
    ASSUME TypeOK
    PROVE  /\ MaxCalls \in Nat \ {0} /\ CallIds = 1..MaxCalls /\ Ids0 = 0..MaxCalls
           /\ call \in Nat /\ call \in Ids0 /\ call <= MaxCalls
  <1>1. call \in Ids0
    BY DEF TypeOK
  <1> QED BY <1>1, MaxCallsAssumption DEF CallIds, Ids0

LEMMA EmptyTyped ==
    /\ EmptyDomain \in [Names -> Decls] /\ \A n \in Names : ~EmptyDomain[n].declared
    /\ EmptyCtx \in [Names -> Ids0] /\ \A n \in Names : EmptyCtx[n] = 0
  <1>1. Undeclared \in Decls /\ ~Undeclared.declared
    BY DEF Undeclared, Decls
  <1>2. 0 \in Ids0
    BY MaxCallsAssumption DEF Ids0
  <1> QED BY <1>1, <1>2 DEF EmptyDomain, EmptyCtx

\* A scope is emptied of its declarations and expressions.
LEMMA ScopeEmptied ==
    ASSUME TypeOK, NEW s \in Scopes,
           decls' = [decls EXCEPT ![s] = EmptyDomain], order' = [order EXCEPT ![s] = <<>>]
    PROVE  /\ decls' \in [Scopes -> [Names -> Decls]] /\ order' \in [Scopes -> Seq(Names)]
           /\ \A n \in Names : ~decls'[s][n].declared
           /\ order'[s] = <<>>
           /\ \A t \in Scopes \ {s} : decls'[t] = decls[t] /\ order'[t] = order[t]
  <1>1. decls \in [Scopes -> [Names -> Decls]] /\ order \in [Scopes -> Seq(Names)]
    BY DEF TypeOK
  <1>2. <<>> \in Seq(Names)
    OBVIOUS
  <1> QED BY <1>1, <1>2, EmptyTyped

LEMMA InitializeStep ==
    ASSUME IInv, NEW shared \in SharedTexts, Initialize(shared)
    PROVE  IInv'
  <1>1. /\ phase = "Idle" /\ phase' = "ParseShared" /\ ready' = FALSE
        /\ call' = call + 1 /\ call < MaxCalls
        /\ text' = IntrinsicText \o shared /\ noisy' = FALSE
        /\ decls' = [decls EXCEPT !["shared"] = EmptyDomain]
        /\ order' = [order EXCEPT !["shared"] = <<>>]
        /\ UNCHANGED back
    BY DEF Initialize, Idle
  <1>2. TypeOK
    BY DEF IInv
  <1>3. call' \in CallIds /\ call' \in Ids0
    BY <1>1, <1>2, CallTyped
  <1>4. TypeOK'
    <2>1. symbols' \subseteq Names
      <3>1. {Intrinsics[k] : k \in DOMAIN Intrinsics} \subseteq Names
        BY NamesAssumption
      <3>2. symbols \subseteq Names
        BY <1>2 DEF TypeOK
      <3> QED BY <3>1, <3>2 DEF Initialize
    <2> QED BY <2>1, <1>1, <1>2, <1>3, ScopeEmptied, SharedTextTyped, CurrentScope
            DEF Initialize, TypeOK, back, handles, jit
  <1>5. FirstDeclared'
    BY <1>1, <1>2, ScopeEmptied, CurrentScope, SharedTextTyped, FirstIsName DEF FirstDeclared
  <1>6. ListedDeclared'
    <2>1. ASSUME NEW s \in Scopes, NEW k \in DOMAIN order'[s]
          PROVE  decls'[s][order'[s][k]].declared
      <3>1. order'["shared"] = <<>> /\ \A t \in Scopes \ {"shared"} : decls'[t] = decls[t] /\ order'[t] = order[t]
        BY <1>1, <1>2, ScopeEmptied, CurrentScope
      <3>2. s # "shared"
        BY <2>1, <3>1
      <3> QED BY <3>1, <3>2 DEF IInv, Linkage, ListedDeclared
    <2> QED BY <2>1 DEF ListedDeclared
  <1>7. ScopesDisjoint'
    BY <1>1, <1>2, ScopeEmptied, CurrentScope DEF IInv, Linkage, ScopesDisjoint, Scopes
  <1>8. SharedFunctions' /\ ModuleFunctions' /\ CallsStayInModule'
    BY <1>1 DEF IInv, Linkage, SharedFunctions, ModuleFunctions, CallsStayInModule, back
  <1> QED BY <1>3, <1>4, <1>5, <1>6, <1>7, <1>8 DEF IInv, Linkage

LEMMA CompileStep ==
    ASSUME IInv, NEW src \in ModuleTexts, Compile(src)
    PROVE  IInv'
  <1>1. /\ phase = "Idle" /\ phase' = "Parse" /\ ready /\ call' = call + 1 /\ call < MaxCalls
        /\ UNCHANGED <<ready, decls, order, back>>
    BY DEF Compile, Idle
  <1>2. TypeOK
    BY DEF IInv
  <1>3. call' \in CallIds /\ call' \in Ids0
    BY <1>1, <1>2, CallTyped
  <1>4. TypeOK'
    <2>1. src \in Seq(Items)
      BY TextsAssumption
    <2> QED BY <2>1, <1>1, <1>2, <1>3 DEF Compile, TypeOK, back, handles, jit
  <1>5. FirstDeclared' /\ ListedDeclared' /\ CallsStayInModule'
    BY <1>1 DEF IInv, Linkage, FirstDeclared, ListedDeclared, CallsStayInModule, back
  <1>6. ScopesDisjoint' /\ SharedFunctions' /\ ModuleFunctions'
    BY <1>1 DEF IInv, Linkage, ScopesDisjoint, SharedFunctions, ModuleFunctions, back
  <1> QED BY <1>3, <1>4, <1>5, <1>6 DEF IInv, Linkage

LEMMA DestoryStep == ASSUME IInv, Destory PROVE IInv'
  <1>1. /\ phase = "Idle" /\ phase' \in {"Idle", "Aborted"} /\ ready' = FALSE
        /\ call' = call + 1 /\ call < MaxCalls
        /\ UNCHANGED <<decls, order, ctx, next>> /\ binds' \in {binds, {}}
    BY DEF Destory, Idle, Abort, front
  <1>2. TypeOK
    BY DEF IInv
  <1>3. call' \in Ids0
    BY <1>1, <1>2, CallTyped
  <1>4. TypeOK'
    BY <1>1, <1>2, <1>3 DEF Destory, TypeOK, Abort, front
  <1>5. FirstDeclared' /\ ListedDeclared' /\ CallsStayInModule'
    BY <1>1 DEF IInv, Linkage, FirstDeclared, ListedDeclared, CallsStayInModule
  <1>6. ScopesDisjoint' /\ SharedFunctions' /\ ModuleFunctions'
    BY <1>1 DEF IInv, Linkage, ScopesDisjoint, SharedFunctions, ModuleFunctions
  <1> QED BY <1>1, <1>4, <1>5, <1>6 DEF IInv, Linkage

LEMMA EndParseSharedStep == ASSUME IInv, EndParseShared PROVE IInv'
  <1>1. /\ phase = "ParseShared" /\ phase' \in {"Idle", "GenShared"}
        /\ phase' = "GenShared" => Accepted /\ next' = 1
        /\ phase' = "Idle" => next' = next
        /\ UNCHANGED <<call, ready, decls, order, ctx, binds>>
    BY DEF EndParseShared, Return, front
  <1>2. TypeOK
    BY DEF IInv
  <1>3. TypeOK'
    <2>1. next' \in Nat \ {0} /\ failed' \in BOOLEAN
      <3>1. next' = 1 \/ next' = next
        BY DEF EndParseShared, Return
      <3>2. next \in Nat \ {0} /\ failed \in BOOLEAN
        BY <1>2 DEF TypeOK
      <3>3. next' \in Nat \ {0}
        BY <3>1, <3>2
      <3>4. failed' \in BOOLEAN
        BY <3>2 DEF EndParseShared, Return
      <3> QED BY <3>3, <3>4
    <2> QED BY <2>1, <1>1, <1>2 DEF EndParseShared, TypeOK, front, handles, jit
  <1>4. FirstDeclared'
    BY <1>1 DEF IInv, Linkage, FirstDeclared, Accepted
  <1>5. ListedDeclared' /\ CallsStayInModule' /\ ScopesDisjoint'
    BY <1>1 DEF IInv, Linkage, ListedDeclared, CallsStayInModule, ScopesDisjoint
  <1>6. SharedFunctions' /\ ModuleFunctions'
    BY <1>1 DEF IInv, Linkage, SharedFunctions, ModuleFunctions
  <1> QED BY <1>1, <1>3, <1>4, <1>5, <1>6 DEF IInv, Linkage

LEMMA EndParseAcceptedStep == ASSUME IInv, EndParseAccepted PROVE IInv'
  <1>1. /\ phase = "Parse" /\ phase' = "Gen" /\ next' = 1
        /\ ctx' = [ctx EXCEPT !["module"] = EmptyCtx]
        /\ UNCHANGED <<call, ready, decls, order, binds>>
    BY DEF EndParseAccepted, front
  <1>2. TypeOK /\ ctx \in [Scopes -> [Names -> Ids0]]
    BY DEF IInv, TypeOK
  <1>3. /\ ctx' \in [Scopes -> [Names -> Ids0]] /\ ctx'["shared"] = ctx["shared"]
        /\ \A n \in Names : ctx'["module"][n] = 0
    BY <1>1, <1>2, CurrentScope, EmptyTyped
  <1>4. TypeOK'
    <2>1. next' \in Nat \ {0}
      BY <1>1
    <2> QED BY <2>1, <1>1, <1>2, <1>3 DEF EndParseAccepted, TypeOK, front, handles, jit
  <1>5. FirstDeclared' /\ ListedDeclared' /\ CallsStayInModule' /\ ScopesDisjoint'
    BY <1>1, <1>3 DEF IInv, Linkage, FirstDeclared, ListedDeclared, CallsStayInModule, ScopesDisjoint
  <1>6. SharedFunctions' /\ ModuleFunctions'
    BY <1>1, <1>3 DEF IInv, Linkage, SharedFunctions, ModuleFunctions
  <1> QED BY <1>1, <1>4, <1>5, <1>6 DEF IInv, Linkage

LEMMA EndInitializeStep == ASSUME IInv, EndInitialize PROVE IInv'
  <1>1. /\ phase = "GenShared" /\ phase' = "Idle" /\ ready' = TRUE /\ next > Len(order["shared"])
        /\ UNCHANGED <<call, decls, order, ctx, binds, next>>
    BY DEF EndInitialize, Return, front, back
  <1>2. TypeOK /\ order["shared"] \in Seq(Names) /\ next \in Nat \ {0}
    BY CurrentScope DEF IInv, TypeOK
  <1>3. next > 1
    BY <1>1, <1>2 DEF IInv, Linkage, FirstDeclared
  <1>4. TypeOK'
    BY <1>1, <1>2 DEF EndInitialize, TypeOK, Return, front, back, handles, jit
  <1>5. FirstDeclared' /\ ListedDeclared' /\ CallsStayInModule' /\ ScopesDisjoint'
    BY <1>1 DEF IInv, Linkage, FirstDeclared, ListedDeclared, CallsStayInModule, ScopesDisjoint
  <1>6. SharedFunctions' /\ ModuleFunctions'
    BY <1>1, <1>3 DEF IInv, Linkage, SharedFunctions, ModuleFunctions
  <1> QED BY <1>1, <1>4, <1>5, <1>6 DEF IInv, Linkage

\* The domain and the context of a module end with its KSC_Compile.
LEMMA EndOfCompile == ASSUME IInv, EndParseRejected \/ EndCompile PROVE IInv'
  <1>1. /\ phase \in {"Parse", "Gen"} /\ phase' \in {"Idle", "Aborted"}
        /\ decls' = [decls EXCEPT !["module"] = EmptyDomain]
        /\ order' = [order EXCEPT !["module"] = <<>>]
        /\ ctx' \in {ctx, [ctx EXCEPT !["module"] = EmptyCtx]}
        /\ UNCHANGED <<call, ready, next, binds>>
    BY DEF EndParseRejected, EndCompile, Return, Abort, back
  <1>2. TypeOK /\ ctx \in [Scopes -> [Names -> Ids0]] /\ call \in CallIds
    BY <1>1 DEF IInv, TypeOK
  <1>3. ctx' \in [Scopes -> [Names -> Ids0]] /\ ctx'["shared"] = ctx["shared"]
    BY <1>1, <1>2, CurrentScope, EmptyTyped
  <1>4. TypeOK'
    <2>1. decls' \in [Scopes -> [Names -> Decls]] /\ order' \in [Scopes -> Seq(Names)]
      BY <1>1, <1>2, ScopeEmptied, CurrentScope
    <2>2. CASE EndParseRejected
      BY <2>1, <2>2, <1>2, CallTyped DEF EndParseRejected, TypeOK, Return, Abort, back, handles, jit
    <2>3. CASE EndCompile
      BY <2>1, <2>3, <1>2, <1>3 DEF EndCompile, TypeOK, Return, Abort, PushModule, jit
    <2> QED BY <2>2, <2>3
  <1>5. ListedDeclared'
    <2>1. ASSUME NEW s \in Scopes, NEW k \in DOMAIN order'[s]
          PROVE  decls'[s][order'[s][k]].declared
      <3>1. order'["module"] = <<>> /\ \A t \in Scopes \ {"module"} : decls'[t] = decls[t] /\ order'[t] = order[t]
        BY <1>1, <1>2, ScopeEmptied, CurrentScope
      <3>2. s # "module"
        BY <2>1, <3>1
      <3> QED BY <3>1, <3>2 DEF IInv, Linkage, ListedDeclared
    <2> QED BY <2>1 DEF ListedDeclared
  <1>6. ScopesDisjoint'
    BY <1>1, <1>2, ScopeEmptied, CurrentScope DEF ScopesDisjoint
  <1>7. SharedFunctions'
    <2>1. decls'["shared"] = decls["shared"]
      BY <1>1, <1>2, CurrentScope DEF TypeOK
    <2> QED BY <2>1, <1>1, <1>3 DEF IInv, Linkage, SharedFunctions
  <1>8. FirstDeclared' /\ ModuleFunctions' /\ CallsStayInModule'
    BY <1>1, <1>3 DEF IInv, FirstDeclared, ModuleFunctions, CallsStayInModule
  <1> QED BY <1>1, <1>4, <1>5, <1>6, <1>7, <1>8 DEF IInv, Linkage

\* The expression reached by code generation gets a Function made by this call: a
\* name of the shared domain had none before, and a name of the module is not shared.
LEMMA GeneratedName ==
    ASSUME IInv, GenFunction, NEW s, s = Current, NEW n, n = order[s][next]
    PROVE  /\ s \in Scopes /\ n \in Names /\ decls[s][n].declared
           /\ FunctionFor(s, n) = call /\ call \in CallIds
           /\ ctx' = [ctx EXCEPT ![s][n] = call] /\ ctx[s][n] = 0
           /\ s = "shared" => (next = 1 => n = First /\ \A m \in Names : ctx["shared"][m] = 0)
  <1>1. /\ phase \in {"GenShared", "Gen"} /\ next <= Len(order[s]) /\ s \in Scopes /\ ctx[s][n] = 0
        /\ ctx' = CtxWith(s, n)
    BY CurrentScope DEF GenFunction, Generating
  <1>2. TypeOK /\ call \in CallIds
    BY <1>1 DEF IInv
  <1>3. order[s] \in Seq(Names) /\ next \in Nat \ {0}
    BY <1>1, <1>2 DEF TypeOK
  <1>4. next \in DOMAIN order[s] /\ n \in Names
    BY <1>1, <1>3
  <1>5. decls[s][n].declared
    BY <1>1, <1>4 DEF IInv, Linkage, ListedDeclared
  <1>6. s = "shared" => (next = 1 => n = First /\ \A m \in Names : ctx["shared"][m] = 0)
    <2>1. s = "shared" => phase = "GenShared"
      BY <1>1 DEF Current
    <2> QED BY <2>1, <1>1 DEF IInv, Linkage, FirstDeclared, SharedFunctions
  <1>7. FuncOf(ctx, s, n) = 0
    <2>1. CASE s = "shared"
      BY <2>1, <1>1 DEF FuncOf
    <2>2. CASE s = "module"
      <3>1. phase = "Gen"
        BY <2>2, <1>1 DEF Current
      <3>2. ready /\ ~decls["shared"][n].declared
        BY <2>2, <3>1, <1>4, <1>5 DEF IInv, Linkage, ScopesDisjoint, SharedFunctions
      <3>3. ctx["shared"][n] = 0
        BY <3>2, <1>4 DEF IInv, Linkage, SharedFunctions
      <3> QED BY <2>2, <3>3, <1>1 DEF FuncOf
    <2> QED BY <2>1, <2>2, <1>1 DEF Scopes
  <1>8. FunctionFor(s, n) = call
    BY <1>7 DEF FunctionFor
  <1> QED BY <1>1, <1>2, <1>4, <1>5, <1>6, <1>8 DEF CtxWith

LEMMA GenFunctionStep == ASSUME IInv, GenFunction PROVE IInv'
  <1> DEFINE s == Current
             n == order[s][next]
             f == <<call, n>>
             callees == {<<CalleeIn(s, n, c), c>> : c \in decls[s][n].calls}
  <1>1. /\ s \in Scopes /\ n \in Names /\ decls[s][n].declared
        /\ FunctionFor(s, n) = call /\ call \in CallIds
        /\ ctx' = [ctx EXCEPT ![s][n] = call] /\ ctx[s][n] = 0
        /\ s = "shared" => (next = 1 => n = First /\ \A m \in Names : ctx["shared"][m] = 0)
    BY GeneratedName
  <1>2. /\ next' = next + 1 /\ UNCHANGED <<session, front, modules, live, jit>>
        /\ phase \in {"GenShared", "Gen"}
        /\ \A g \in callees : g[1] # 0
        /\ code' \in {code, code \cup {f}} /\ mapped' \in {mapped, mapped \cup {f}}
        /\ binds' \in {binds, binds \cup {<<f, g>> : g \in callees}}
        /\ desc' \in {desc, [desc EXCEPT ![call][n] = call]}
    BY <1>1 DEF GenFunction, Generating
  <1>3. TypeOK
    BY DEF IInv
  <1>4. /\ ctx \in [Scopes -> [Names -> Ids0]] /\ decls[s][n].calls \subseteq Names
        /\ next \in Nat \ {0} /\ call \in Ids0 /\ call # 0
    <2>1. decls[s][n] \in Decls /\ ctx \in [Scopes -> [Names -> Ids0]] /\ next \in Nat \ {0}
      BY <1>1, <1>3 DEF TypeOK
    <2>2. call \in Ids0 /\ call # 0
      BY <1>1, <1>3, CallTyped
    <2> QED BY <2>1, <2>2 DEF Decls
  <1>5. /\ ctx' \in [Scopes -> [Names -> Ids0]] /\ ctx'[s][n] = call
        /\ \A t \in Scopes, m \in Names : t # s \/ m # n => ctx'[t][m] = ctx[t][m]
    BY <1>1, <1>4
  <1>6. \A c \in Names : CalleeIn(s, n, c) = FuncOf(ctx', s, c)
    BY <1>1 DEF CalleeIn, CtxWith
  <1> HIDE DEF s, n
  <1>7. ASSUME NEW g \in callees
        PROVE  g \in FnIds /\ (g[1] = call \/ g[1] = ctx'["shared"][g[2]])
    <2>1. PICK c \in decls[s][n].calls : g = <<CalleeIn(s, n, c), c>>
      BY <1>7
    <2>2. c \in Names /\ g[1] = FuncOf(ctx', s, c) /\ g[2] = c /\ g[1] # 0
      BY <2>1, <1>2, <1>4, <1>6
    <2>3. CASE s = "shared"
      <3>1. g[1] = ctx'["shared"][c]
        BY <2>2, <2>3 DEF FuncOf
      <3> QED BY <3>1, <2>1, <2>2, <1>3, <1>5, CallTyped, CurrentScope DEF FnIds
    <2>4. CASE s = "module"
      <3>1. phase = "Gen"
        BY <2>4, <1>2 DEF s, Current
      <3>2. ctx["module"][c] \in {0, call}
        BY <2>2, <3>1 DEF IInv, Linkage, ModuleFunctions
      <3>3. ctx'["module"][c] \in {0, call}
        BY <3>2, <2>2, <2>4, <1>5, CurrentScope
      <3>4. g[1] \in {call, ctx'["shared"][c]}
        BY <3>3, <2>2, <2>4 DEF FuncOf
      <3>5. g[1] \in Ids0
        BY <3>4, <2>2, <1>4, <1>5, CurrentScope
      <3> QED BY <3>4, <3>5, <2>1, <2>2, <1>3, CallTyped DEF FnIds
    <2> QED BY <2>3, <2>4, <1>1 DEF Scopes
  <1>8. f \in FnIds
    BY <1>1 DEF FnIds
  <1>9. TypeOK'
    <2>1. binds' \subseteq FnIds \X FnIds
      <3>1. {<<f, g>> : g \in callees} \subseteq FnIds \X FnIds
        BY <1>7, <1>8
      <3>2. binds \subseteq FnIds \X FnIds
        BY <1>3 DEF TypeOK
      <3> QED BY <3>1, <3>2, <1>2
    <2>2. code' \subseteq FnIds /\ mapped' \subseteq FnIds
      BY <1>2, <1>3, <1>8 DEF TypeOK
    <2>3. desc' \in [CallIds -> [Names -> Ids0]]
      <3>1. desc \in [CallIds -> [Names -> Ids0]]
        BY <1>3 DEF TypeOK
      <3>2. [desc EXCEPT ![call][n] = call] \in [CallIds -> [Names -> Ids0]]
        BY <3>1, <1>1, <1>4
      <3> QED BY <3>1, <3>2, <1>2
    <2>4. next' \in Nat \ {0}
      BY <1>2, <1>4
    <2> QED BY <2>1, <2>2, <2>3, <2>4, <1>2, <1>3, <1>5 DEF TypeOK, session, front, jit
  <1>10. FirstDeclared' /\ ListedDeclared' /\ ScopesDisjoint'
    BY <1>2 DEF IInv, Linkage, FirstDeclared, ListedDeclared, ScopesDisjoint, session, front
  <1>11. SharedFunctions'
    <2>1. UNCHANGED <<phase, ready, decls>> /\ next' > 1 /\ First \in Names
      BY <1>2, <1>4, FirstIsName DEF session, front
    <2>2. CASE s = "module"
      <3>1. \A m \in Names : ctx'["shared"][m] = ctx["shared"][m]
        BY <2>2, <1>5, CurrentScope
      <3>2. phase = "Gen"
        BY <2>2, <1>2 DEF s, Current
      <3> QED BY <3>1, <3>2, <2>1 DEF IInv, Linkage, SharedFunctions
    <2>3. CASE s = "shared"
      <3>1. phase = "GenShared" /\ ~ready
        BY <2>3, <1>2 DEF s, Current, IInv, Linkage, SharedFunctions
      <3>2. ctx'["shared"][First] # 0
        <4>1. CASE next = 1
          BY <4>1, <2>3, <1>1, <1>4, <1>5
        <4>2. CASE next > 1
          BY <4>2, <2>1, <2>3, <3>1, <1>4, <1>5, CurrentScope DEF IInv, Linkage, SharedFunctions
        <4> QED BY <4>1, <4>2, <1>4
      <3>3. \A m \in Names : ctx["shared"][m] # 0 => decls["shared"][m].declared
        <4>1. CASE next = 1
          BY <4>1, <2>3, <1>1
        <4>2. CASE next > 1
          BY <4>2, <3>1 DEF IInv, Linkage, SharedFunctions
        <4> QED BY <4>1, <4>2, <1>4
      <3>4. \A m \in Names : ctx'["shared"][m] # 0 => decls["shared"][m].declared
        BY <3>3, <2>3, <1>1, <1>5
      <3> QED BY <3>1, <3>2, <3>4, <2>1 DEF SharedFunctions
    <2> QED BY <2>2, <2>3, <1>1 DEF Scopes
  <1>12. ModuleFunctions'
    <2>1. ASSUME phase = "Gen" PROVE s = "module"
      BY <2>1 DEF s, Current
    <2> QED BY <2>1, <1>2, <1>5, CurrentScope DEF IInv, Linkage, ModuleFunctions, session
  <1>13. CallsStayInModule'
    <2>1. ASSUME NEW b \in binds PROVE b[2][1] = b[1][1] \/ b[2][1] = ctx'["shared"][b[2][2]]
      <3>1. b[2] \in FnIds
        BY <1>3 DEF TypeOK
      <3>2. b[2][1] # 0 /\ b[2][2] \in Names
        BY <3>1, <1>3, CallTyped DEF FnIds
      <3>3. b[2][1] = b[1][1] \/ b[2][1] = ctx["shared"][b[2][2]]
        BY DEF IInv, CallsStayInModule
      <3> QED BY <3>2, <3>3, <1>1, <1>5, CurrentScope
    <2>2. ASSUME NEW g \in callees PROVE g[1] = f[1] \/ g[1] = ctx'["shared"][g[2]]
      BY <2>2, <1>7
    <2> QED BY <2>1, <2>2, <1>2 DEF CallsStayInModule
  <1> QED BY <1>2, <1>9, <1>10, <1>11, <1>12, <1>13 DEF IInv, Linkage, session

-----------------------------------------------------------------------------
(* The theorems.                                                           *)

LEMMA InitInv == Init => IInv
  <1> SUFFICES ASSUME Init PROVE IInv
    OBVIOUS
  <1>1. 0 \in Ids0 /\ EmptyCtx \in [Names -> Ids0] /\ EmptyDomain \in [Names -> Decls]
        /\ (\A n \in Names : ~EmptyDomain[n].declared) /\ (\A n \in Names : EmptyCtx[n] = 0)
    BY EmptyTyped, MaxCallsAssumption DEF Ids0
  <1>2. decls \in [Scopes -> [Names -> Decls]] /\ ctx \in [Scopes -> [Names -> Ids0]]
        /\ desc \in [CallIds -> [Names -> Ids0]]
    BY <1>1 DEF Init
  <1>3. order \in [Scopes -> Seq(Names)] /\ source \in Seq(Items) /\ text \in Seq(Items)
    BY DEF Init
  <1>4. TypeOK
    <2>1. next \in Nat \ {0} /\ call \in Ids0 /\ lastErr \in Ids0
      BY <1>1 DEF Init
    <2>2. /\ phase \in {"Idle", "ParseShared", "GenShared", "Parse", "Gen", "Jit", "Aborted"}
          /\ failed \in BOOLEAN /\ ready \in BOOLEAN /\ noisy \in BOOLEAN
          /\ engine \in {"null", "live", "dangling"}
          /\ assertion \in {"none", "deleted twice", "instances leaked", "declared twice",
                            "callee not generated", "unresolved symbol"}
      BY DEF Init
    <2>3. /\ symbols = {} /\ baseline = {} /\ code = {} /\ mapped = {} /\ binds = {}
          /\ modules = {} /\ live = {} /\ pending = {} /\ jitted = {}
      BY DEF Init
    <2> QED BY <2>1, <2>2, <2>3, <1>2, <1>3 DEF TypeOK
  <1>5. FirstDeclared /\ ModuleFunctions /\ CallsStayInModule
    BY DEF Init, FirstDeclared, ModuleFunctions, CallsStayInModule
  <1>6. ListedDeclared
    BY DEF Init, ListedDeclared
  <1>7. ScopesDisjoint /\ SharedFunctions
    BY <1>1, CurrentScope DEF Init, ScopesDisjoint, SharedFunctions
  <1> QED BY <1>4, <1>5, <1>6, <1>7 DEF Init, IInv, Linkage

LEMMA NextInv == IInv /\ [Next]_vars => IInv'
  <1>1. ASSUME IInv, UNCHANGED vars PROVE IInv'
    <2>1. TypeOK'
      BY <1>1 DEF vars, session, front, back, handles, jit, IInv, TypeOK
    <2>2. UNCHANGED <<phase, call, ready, noisy, text, decls, order, ctx, next, binds>>
      BY <1>1 DEF vars, session, front, back
    <2>3. FirstDeclared' /\ ListedDeclared' /\ CallsStayInModule'
      BY <1>1, <2>2 DEF IInv, Linkage, FirstDeclared, ListedDeclared, CallsStayInModule
    <2>4. ScopesDisjoint' /\ SharedFunctions' /\ ModuleFunctions'
      BY <1>1, <2>2 DEF IInv, Linkage, ScopesDisjoint, SharedFunctions, ModuleFunctions
    <2> QED BY <1>1, <2>1, <2>2, <2>3, <2>4 DEF IInv, Linkage
  <1>2. ASSUME IInv, ClientCall PROVE IInv'
    BY <1>2, QuietSteps, InitializeStep, CompileStep, DestoryStep DEF ClientCall
  <1>3. ASSUME IInv, Work PROVE IInv'
    BY <1>3, ParseSteps, QuietSteps, EndParseSharedStep, EndParseAcceptedStep, EndOfCompile,
       GenFunctionStep, EndInitializeStep DEF Work
  <1> QED BY <1>1, <1>2, <1>3 DEF Next

LEMMA Invariance == Spec => []IInv
  BY InitInv, NextInv, PTL DEF Spec

\* The state of a session is well typed.
THEOREM TypeCorrect == Spec => []TypeOK
  <1>1. IInv => TypeOK
    BY DEF IInv
  <1> QED BY <1>1, Invariance, PTL

\* A call instruction leads to a function of its own module or of the shared domain,
\* whatever other modules, refused sources and destroyed sessions came before.
THEOREM ModulesIsolated == Spec => []CallsStayInModule
  <1>1. IInv => CallsStayInModule
    BY DEF IInv
  <1> QED BY <1>1, Invariance, PTL

-----------------------------------------------------------------------------
(* What is left behind by the calls of a session, for every text and every *)
(* number of calls.                                                        *)

\* A call that parses or generates has made nothing yet that was handed out.
Busy == phase \in {"ParseShared", "GenShared", "Parse", "Gen"}

Numbered ==
    /\ \A f \in code \cup mapped : f[1] <= call
    /\ \A f \in jitted : f \in code \cup mapped /\ (Busy => f[1] < call)
    /\ \A m \in modules \cup {lastErr} : m <= call /\ (Busy => m < call)

\* The JIT stops only when nothing that an emitted function calls is missing.
Reached ==
    /\ phase \notin {"Jit", "Aborted"} => pending = {}
    /\ phase # "Aborted" => \A b \in binds : b[1] \in jitted => b[2] \in jitted \cup pending

CodeInv == Numbered /\ Reached /\ NoCodeOfRefusedSources

LEMMA CodeInit == Init => CodeInv
BY DEF Init, CodeInv, Numbered, Reached, Busy, NoCodeOfRefusedSources

LEMMA CallNumbers ==
    ASSUME TypeOK
    PROVE  /\ call \in Nat /\ lastErr \in Nat
           /\ \A f \in FnIds : f[1] \in Nat \ {0}
           /\ \A m \in modules : m \in Nat
<1>1. MaxCalls \in Nat /\ Ids0 = 0..MaxCalls /\ CallIds = 1..MaxCalls
  BY MaxCallsAssumption DEF Ids0, CallIds
<1>2. /\ call \in 0..MaxCalls /\ lastErr \in 0..MaxCalls /\ modules \subseteq 1..MaxCalls
      /\ \A f \in FnIds : f[1] \in 1..MaxCalls
  BY <1>1 DEF TypeOK, FnIds
<1>3. \A k : (k \in 0..MaxCalls => k \in Nat) /\ (k \in 1..MaxCalls => k \in Nat \ {0})
  BY <1>1
<1> QED BY <1>2, <1>3

\* Steps that neither make code nor hand anything out.
LEMMA CodeKept ==
    ASSUME IInv, CodeInv, ctx'["shared"] = ctx["shared"],
           UNCHANGED <<call, lastErr, modules, code, mapped, binds, pending, jitted>>,
           Busy' => Busy, phase' \notin {"Jit", "Aborted"} => pending = {},
           phase = "Aborted" => phase' = "Aborted", phase = "Gen" => phase' \in {"Gen", "Aborted"}
    PROVE  CodeInv'
<1>1. Numbered'
  BY DEF CodeInv, Numbered
<1>2. Reached'
  BY DEF CodeInv, Reached
<1>3. NoCodeOfRefusedSources'
  BY DEF CodeInv, NoCodeOfRefusedSources
<1> QED BY <1>1, <1>2, <1>3 DEF CodeInv

LEMMA CodeKeptSteps ==
    ASSUME IInv, CodeInv,
           \/ \E n \in Names : AddExternalFunction(n)
           \/ ParseDeclaration \/ ParseDefinition \/ ParseTruncatedDefinition
           \/ RefuseBody \/ RefuseItem
           \/ EndParseShared \/ EndParseAccepted \/ GenAssertionFails \/ EndInitialize
           \/ \E f \in FnIds : UnresolvedSymbol(f)
           \/ EndGetFunctionPtr
    PROVE  CodeInv'
<1>1. CASE \E n \in Names : AddExternalFunction(n)
  BY <1>1, CodeKept DEF AddExternalFunction, Idle, front, back, handles, jit, CodeInv, Reached, Busy
<1>2. CASE ParseDeclaration \/ ParseDefinition \/ ParseTruncatedDefinition \/ RefuseBody \/ RefuseItem
  BY <1>2, CodeKept DEF ParseDeclaration, ParseDefinition, ParseTruncatedDefinition, RefuseBody,
     RefuseItem, Parsing, session, back, handles, jit, CodeInv, Reached, Busy
<1>3. CASE EndParseShared
  BY <1>3, CodeKept DEF EndParseShared, Return, handles, jit, CodeInv, Reached, Busy
<1>4. CASE EndParseAccepted
  <2>1. ctx'["shared"] = ctx["shared"]
    BY <1>4, CurrentScope DEF EndParseAccepted, IInv, TypeOK
  <2> QED BY <1>4, <2>1, CodeKept DEF EndParseAccepted, handles, jit, CodeInv, Reached, Busy
<1>5. CASE GenAssertionFails
  BY <1>5, CodeKept DEF GenAssertionFails, Abort, back, handles, jit, CodeInv, Reached, Busy
<1>6. CASE EndInitialize
  BY <1>6, CodeKept DEF EndInitialize, Return, back, handles, jit, CodeInv, Reached, Busy
<1>7. CASE \E f \in FnIds : UnresolvedSymbol(f)
  BY <1>7, CodeKept DEF UnresolvedSymbol, Abort, back, handles, jit, CodeInv, Reached, Busy
<1>8. CASE EndGetFunctionPtr
  BY <1>8, CodeKept DEF EndGetFunctionPtr, Return, back, handles, jit, CodeInv, Reached, Busy
<1> QED BY <1>1, <1>2, <1>3, <1>4, <1>5, <1>6, <1>7, <1>8

\* A new call begins: everything there is belongs to earlier ones.
LEMMA CodeNewCall ==
    ASSUME IInv, CodeInv, phase = "Idle", call' = call + 1,
           UNCHANGED <<lastErr, modules, ctx>>,
           \/ UNCHANGED <<code, mapped, binds, jitted>>
           \/ code' = {} /\ mapped' = {} /\ binds' = {} /\ jitted' = {},
           pending' = pending \/ phase' = "Jit"
    PROVE  CodeInv'
<1>1. /\ call \in Nat /\ lastErr \in Nat /\ \A f \in FnIds : f[1] \in Nat
      /\ \A m \in modules : m \in Nat
      /\ code \subseteq FnIds /\ mapped \subseteq FnIds /\ jitted \subseteq FnIds
  BY CallNumbers DEF IInv, TypeOK
<1>2. Numbered'
  <2>1. ASSUME NEW f \in code \cup mapped PROVE f[1] <= call' /\ f[1] < call'
    BY <1>1 DEF CodeInv, Numbered
  <2>2. ASSUME NEW m \in modules \cup {lastErr} PROVE m <= call' /\ m < call'
    BY <1>1 DEF CodeInv, Numbered
  <2> QED BY <2>1, <2>2 DEF CodeInv, Numbered
<1>3. Reached'
  BY DEF CodeInv, Reached
<1>4. NoCodeOfRefusedSources'
  BY DEF CodeInv, NoCodeOfRefusedSources
<1> QED BY <1>2, <1>3, <1>4 DEF CodeInv

LEMMA CodeNewCalls ==
    ASSUME IInv, CodeInv,
           \/ InitializeWithoutEngine
           \/ \E shared \in SharedTexts : Initialize(shared)
           \/ \E src \in ModuleTexts : Compile(src)
           \/ \E m \in CallIds, n \in Names : GetFunctionPtr(m, n)
           \/ Destory
    PROVE  CodeInv'
<1>1. CASE InitializeWithoutEngine
  BY <1>1, CodeNewCall DEF InitializeWithoutEngine, Idle, back, handles, jit
<1>2. CASE \E shared \in SharedTexts : Initialize(shared)
  BY <1>2, CodeNewCall DEF Initialize, Idle, back, handles, jit
<1>3. CASE \E src \in ModuleTexts : Compile(src)
  BY <1>3, CodeNewCall DEF Compile, Idle, back, handles, jit
<1>4. CASE \E m \in CallIds, n \in Names : GetFunctionPtr(m, n)
  BY <1>4, CodeNewCall DEF GetFunctionPtr, Idle, back, handles
<1>5. CASE Destory
  BY <1>5, CodeNewCall DEF Destory, Idle
<1> QED BY <1>1, <1>2, <1>3, <1>4, <1>5

LEMMA CodeEndParseRejected == ASSUME IInv, CodeInv, EndParseRejected PROVE CodeInv'
<1>1. /\ phase = "Parse" /\ phase' \in {"Idle", "Aborted"} /\ lastErr' \in {call, lastErr}
      /\ UNCHANGED <<call, ctx, code, mapped, binds, modules, pending, jitted>>
  BY DEF EndParseRejected, Return, Abort, back, handles, jit
<1>2. call \in Nat /\ \A m \in modules : m \in Nat
  BY CallNumbers DEF IInv
<1>3. Numbered'
  BY <1>1, <1>2 DEF CodeInv, Numbered, Busy
<1>4. Reached'
  BY <1>1 DEF CodeInv, Reached
<1>5. call \notin modules
  BY <1>1, <1>2 DEF CodeInv, Numbered, Busy
<1>6. NoCodeOfRefusedSources'
  BY <1>1, <1>5 DEF CodeInv, NoCodeOfRefusedSources
<1> QED BY <1>3, <1>4, <1>6 DEF CodeInv

LEMMA CodeEndCompile == ASSUME IInv, CodeInv, EndCompile PROVE CodeInv'
<1>1. /\ phase = "Gen" /\ phase' \in {"Idle", "Aborted"} /\ modules' = modules \cup {call}
      /\ UNCHANGED <<call, lastErr, code, mapped, binds, pending, jitted>>
      /\ ctx'["shared"] = ctx["shared"]
  BY CurrentScope DEF EndCompile, PushModule, Return, Abort, jit, IInv, TypeOK
<1>2. call \in Nat /\ lastErr \in Nat
  BY CallNumbers DEF IInv
<1>3. Numbered'
  BY <1>1, <1>2 DEF CodeInv, Numbered, Busy
<1>4. Reached'
  BY <1>1 DEF CodeInv, Reached
<1>5. lastErr # call
  BY <1>1, <1>2 DEF CodeInv, Numbered, Busy
<1>6. NoCodeOfRefusedSources'
  BY <1>1, <1>5 DEF CodeInv, NoCodeOfRefusedSources
<1> QED BY <1>3, <1>4, <1>6 DEF CodeInv

\* A generated function is one of this call's: no emitted function is given new calls.
LEMMA CodeGenFunction == ASSUME IInv, CodeInv, GenFunction PROVE CodeInv'
<1> DEFINE s == Current
           n == order[s][next]
           f == <<call, n>>
<1>1. /\ s \in Scopes /\ n \in Names /\ FunctionFor(s, n) = call /\ call \in CallIds
      /\ ctx' = [ctx EXCEPT ![s][n] = call] /\ ctx[s][n] = 0
  BY GeneratedName
<1>2. /\ phase \in {"GenShared", "Gen"} /\ UNCHANGED <<call, phase, lastErr, modules, pending, jitted>>
      /\ code \cup mapped \subseteq code' \cup mapped'
      /\ code' \cup mapped' \subseteq code \cup mapped \cup {f}
      /\ \A b \in binds' : b \in binds \/ b[1] = f
  BY <1>1 DEF GenFunction, Generating, session, jit
<1>3. /\ call \in Nat /\ \A g \in FnIds : g[1] \in Nat \ {0}
      /\ code \subseteq FnIds /\ mapped \subseteq FnIds /\ jitted \subseteq FnIds
      /\ ctx \in [Scopes -> [Names -> Ids0]]
  BY CallNumbers DEF IInv, TypeOK
<1>4. s = "shared" \/ phase = "Gen"
  BY <1>2 DEF Current
<1>5. /\ ctx'[s][n] = call
      /\ \A t \in Scopes, m \in Names : t # s \/ m # n => ctx'[t][m] = ctx[t][m]
  BY <1>1, <1>3
<1> HIDE DEF s, n
<1>6. f \notin jitted
  <2>1. f[1] = call /\ ~(call < call)
    BY <1>3
  <2> QED BY <2>1, <1>2 DEF CodeInv, Numbered, Busy
<1>7. Numbered'
  <2>1. \A g \in code' \cup mapped' : g[1] <= call
    BY <1>2, <1>3 DEF CodeInv, Numbered
  <2>2. \A g \in jitted : g \in code' \cup mapped' /\ (Busy => g[1] < call)
    BY <1>2 DEF CodeInv, Numbered
  <2> QED BY <2>1, <2>2, <1>2 DEF CodeInv, Numbered, Busy
<1>8. Reached'
  BY <1>2, <1>6 DEF CodeInv, Reached
<1>9. NoCodeOfRefusedSources'
  <2>1. ASSUME NEW g \in code' \cup mapped'
        PROVE  g[1] \in modules \/ g[1] = ctx'["shared"][g[2]] \/ (phase = "Gen" /\ g[1] = call)
    <3>1. CASE g = f
      BY <3>1, <1>4, <1>5
    <3>2. CASE g # f
      <4>1. g \in code \cup mapped /\ g \in FnIds
        BY <3>2, <1>2, <1>3
      <4>2. g[1] # 0 /\ g[2] \in Names
        BY <4>1, <1>3 DEF FnIds
      <4>3. \/ g[1] \in modules \/ g[1] = ctx["shared"][g[2]]
            \/ phase = "Gen" /\ g[1] = call
        BY <4>1, <1>2 DEF CodeInv, NoCodeOfRefusedSources
      <4>4. g[1] = ctx["shared"][g[2]] => ctx'["shared"][g[2]] = ctx["shared"][g[2]]
        BY <4>2, <1>1, <1>5, CurrentScope
      <4> QED BY <4>3, <4>4
    <3> QED BY <3>1, <3>2
  <2> QED BY <2>1, <1>2 DEF CodeInv, NoCodeOfRefusedSources
<1> QED BY <1>7, <1>8, <1>9 DEF CodeInv

LEMMA CodeEmit == ASSUME IInv, CodeInv, NEW f \in FnIds, Emit(f) PROVE CodeInv'
<1>1. /\ phase = "Jit" /\ f \in code \cup mapped /\ jitted' = jitted \cup {f}
      /\ pending' = (pending \cup CalleesOf(f)) \ jitted'
      /\ UNCHANGED <<phase, call, lastErr, modules, ctx, code, mapped, binds>>
  BY DEF Emit, session, back, handles
<1>2. Numbered'
  BY <1>1 DEF CodeInv, Numbered, Busy
<1>3. Reached'
  BY <1>1 DEF CodeInv, Reached, CalleesOf
<1>4. NoCodeOfRefusedSources'
  BY <1>1 DEF CodeInv, NoCodeOfRefusedSources
<1> QED BY <1>2, <1>3, <1>4 DEF CodeInv

LEMMA CodeStep == IInv /\ CodeInv /\ [Next]_vars => CodeInv'
<1> SUFFICES ASSUME IInv, CodeInv, [Next]_vars PROVE CodeInv'
  OBVIOUS
<1>1. CASE UNCHANGED vars
  <2>1. /\ UNCHANGED <<phase, call, lastErr, modules, code, mapped, binds, pending, jitted>>
        /\ ctx'["shared"] = ctx["shared"]
    BY <1>1 DEF vars, session, back, handles, jit
  <2> QED BY <2>1, CodeKept DEF CodeInv, Reached, Busy
<1>2. CASE ClientCall
  BY <1>2, CodeKeptSteps, CodeNewCalls DEF ClientCall
<1>3. CASE Work
  BY <1>3, CodeKeptSteps, CodeEndParseRejected, CodeEndCompile, CodeGenFunction, CodeEmit DEF Work
<1> QED BY <1>1, <1>2, <1>3 DEF Next

LEMMA CodeInvariance == Spec => []CodeInv
BY InitInv, NextInv, CodeInit, CodeStep, PTL DEF Spec

\* Whatever was refused before, every generated function belongs to a module the
\* client was given, to the shared domain, or to the call that is generating.
THEOREM RefusedLeaveNoCode == Spec => []NoCodeOfRefusedSources
<1>1. CodeInv => NoCodeOfRefusedSources
  BY DEF CodeInv
<1> QED BY CodeInvariance, <1>1, PTL

\* What KSC_GetFunctionPtr handed out stays callable: its callees, and theirs, have
\* been emitted, whatever is compiled afterwards.
THEOREM PointersReachCode == Spec => []PointersComplete
<1>1. CodeInv => PointersComplete
  BY DEF CodeInv, Numbered, Reached, PointersComplete
<1> QED BY CodeInvariance, <1>1, PTL

-----------------------------------------------------------------------------
(* What a module's text does to the shared domain.                         *)

\* What is left to parse is part of the text KSC_Compile was given.
TextOfSource == phase = "Parse" => \A k \in DOMAIN text : \E j \in DOMAIN source : text[k] = source[j]

\* The steps that enter an item in the current domain.
EnterItem == ParseDeclaration \/ ParseDefinition \/ ParseTruncatedDefinition \/ RefuseBody

LEMMA HeadItem ==
    ASSUME TypeOK, text # <<>>
    PROVE  /\ Head(text) \in Items /\ Head(text).name \in Names /\ 1 \in DOMAIN text
           /\ Head(text) = text[1] /\ Head(text).args \in Nat /\ Head(text).calls \in SUBSET Names
           /\ \A k \in DOMAIN Tail(text) : k + 1 \in DOMAIN text /\ Tail(text)[k] = text[k + 1]
<1>1. text \in Seq(Items)
  BY DEF TypeOK
<1>2. Head(text) \in Items /\ 1 \in DOMAIN text /\ Head(text) = text[1]
  BY <1>1
<1>3. \A k \in DOMAIN Tail(text) : k + 1 \in DOMAIN text /\ Tail(text)[k] = text[k + 1]
  BY <1>1
<1> QED BY <1>2, <1>3 DEF Items

LEMMA EnteredItem ==
    ASSUME TypeOK, NEW it \in Items, NEW s \in Scopes, NEW n \in Names
    PROVE  IF s = Current /\ n = it.name /\ ~Visible(Current, it.name)
           THEN /\ Entered(it)[s][n].declared /\ ~Entered(it)[s][n].started
                /\ Entered(it)[s][n].calls = {}
           ELSE Entered(it)[s][n] = decls[s][n]
<1> DEFINE d == [Undeclared EXCEPT !.declared = TRUE, !.args = it.args]
<1>1. d.declared = TRUE /\ d.started = FALSE /\ d.calls = {}
  BY DEF Undeclared
<1> HIDE DEF d
<1>2. decls \in [Scopes -> [Names -> Decls]] /\ it.name \in Names
  BY DEF TypeOK, Items
<1>3. CASE Visible(Current, it.name)
  BY <1>3 DEF Entered
<1>4. CASE ~Visible(Current, it.name)
  <2>1. Entered(it) = [decls EXCEPT ![Current][it.name] = d]
    BY <1>4 DEF Entered, d
  <2> QED BY <2>1, <1>1, <1>2, <1>4, CurrentScope
<1> QED BY <1>3, <1>4

\* Only the declaration of the item changes, and only a definition changes it.
LEMMA ItemEffect ==
    ASSUME TypeOK, EnterItem, NEW it, it = Head(text)
    PROVE  /\ it \in Items /\ it.name \in Names /\ text # <<>> /\ Parsing
           /\ decls' \in [Scopes -> [Names -> Decls]]
           /\ \A s \in Scopes, n \in Names :
                 s # BodyScope(it) \/ n # it.name => decls'[s][n] = Entered(it)[s][n]
           /\ \A s \in Scopes, n \in Names : decls'[s][n].declared <=> Entered(it)[s][n].declared
           /\ \A s \in Scopes, n \in Names :
                 \/ decls'[s][n].calls = Entered(it)[s][n].calls
                 \/ /\ s = BodyScope(it) /\ n = it.name /\ decls'[s][n].calls = it.calls
                    /\ CalleesKnown(it)
           /\ it.form \in {"def", "cut"} \/ decls' = Entered(it)
           /\ order' = Listed(it) /\ (text' = text \/ text' = Tail(text))
           /\ UNCHANGED <<session, source, baseline, back, handles, jit>>
<1> DEFINE D == Entered(it)
           b == BodyScope(it)
           old == D[b][it.name]
<1>1. text # <<>> /\ Parsing
  BY DEF EnterItem, ParseDeclaration, ParseDefinition, ParseTruncatedDefinition, RefuseBody
<1>2. it \in Items /\ it.name \in Names /\ it.args \in Nat /\ it.calls \in SUBSET Names
  BY <1>1, HeadItem
<1>3. D \in [Scopes -> [Names -> Decls]] /\ b \in Scopes /\ old \in Decls
  BY <1>2, EnteredTyped, BodyScopeIn
<1>4. /\ order' = Listed(it) /\ (text' = text \/ text' = Tail(text))
      /\ UNCHANGED <<session, source, baseline, back, handles, jit>>
  BY DEF EnterItem, ParseDeclaration, ParseDefinition, ParseTruncatedDefinition, RefuseBody
<1>5. \/ decls' = D
      \/ /\ it.form \in {"def", "cut"}
         /\ \E d \in Decls : /\ decls' = [D EXCEPT ![b][it.name] = d] /\ d.declared = old.declared
                             /\ d.calls = old.calls \/ (d.calls = it.calls /\ CalleesKnown(it))
  <2>1. CASE ParseDeclaration
    BY <2>1 DEF ParseDeclaration
  <2>2. CASE ParseDefinition
    <3> DEFINE d == [old EXCEPT !.started = TRUE, !.hasBody = TRUE, !.calls = it.calls]
    <3>1. d \in Decls /\ d.declared = old.declared /\ d.calls = it.calls
      BY <1>2, <1>3 DEF Decls
    <3>2. decls' = [D EXCEPT ![b][it.name] = d] /\ CalleesKnown(it) /\ it.form = "def"
      BY <2>2, <1>2, <1>3 DEF ParseDefinition
    <3> QED BY <3>1, <3>2
  <2>3. CASE ParseTruncatedDefinition
    <3> DEFINE d == [old EXCEPT !.started = @ \/ it.args > 0]
    <3>1. d \in Decls /\ d.declared = old.declared /\ d.calls = old.calls
      BY <1>2, <1>3 DEF Decls
    <3>2. decls' = [D EXCEPT ![b][it.name] = d] /\ it.form = "cut"
      BY <2>3, <1>2, <1>3 DEF ParseTruncatedDefinition
    <3> QED BY <3>1, <3>2
  <2>4. CASE RefuseBody
    <3> DEFINE d == [old EXCEPT !.started = TRUE]
    <3>1. d \in Decls /\ d.declared = old.declared /\ d.calls = old.calls
      BY <1>2, <1>3 DEF Decls
    <3>2. decls' = [D EXCEPT ![b][it.name] = d] /\ it.form = "def"
      BY <2>4, <1>2, <1>3 DEF RefuseBody
    <3> QED BY <3>1, <3>2
  <2> QED BY <2>1, <2>2, <2>3, <2>4 DEF EnterItem
<1> HIDE DEF D, b
<1>6. CASE decls' = D
  BY <1>1, <1>2, <1>3, <1>4, <1>6 DEF D
<1>7. ASSUME it.form \in {"def", "cut"}, NEW d \in Decls, decls' = [D EXCEPT ![b][it.name] = d],
             d.declared = old.declared, d.calls = old.calls \/ (d.calls = it.calls /\ CalleesKnown(it))
      PROVE  /\ decls' \in [Scopes -> [Names -> Decls]]
             /\ \A s \in Scopes, n \in Names : s # b \/ n # it.name => decls'[s][n] = D[s][n]
             /\ \A s \in Scopes, n \in Names : decls'[s][n].declared <=> D[s][n].declared
             /\ \A s \in Scopes, n \in Names :
                   \/ decls'[s][n].calls = D[s][n].calls
                   \/ s = b /\ n = it.name /\ decls'[s][n].calls = it.calls /\ CalleesKnown(it)
  <2>1. decls'[b][it.name] = d /\ decls' \in [Scopes -> [Names -> Decls]]
    BY <1>2, <1>3, <1>7
  <2>2. \A s \in Scopes, n \in Names : s # b \/ n # it.name => decls'[s][n] = D[s][n]
    BY <1>2, <1>3, <1>7
  <2> QED BY <2>1, <2>2, <1>2, <1>3, <1>7
<1> QED BY <1>1, <1>2, <1>4, <1>5, <1>6, <1>7 DEF D, b

\* A module's item leaves the shared declarations alone unless it defines one of them.
LEMMA SharedUntouched ==
    ASSUME TypeOK, TextOfSource, EnterItem, phase = "Parse"
    PROVE  /\ order'["shared"] = order["shared"]
           /\ \A n \in Names : decls'["shared"][n].declared <=> decls["shared"][n].declared
           /\ DefinesShared \/ decls'["shared"] = decls["shared"]
<1> DEFINE it == Head(text)
<1>1. Current = "module" /\ Current # "shared" /\ "shared" \in Scopes
  BY CurrentScope DEF Current
<1>2. /\ it \in Items /\ it.name \in Names /\ text # <<>>
      /\ decls' \in [Scopes -> [Names -> Decls]] /\ decls \in [Scopes -> [Names -> Decls]]
  BY ItemEffect DEF TypeOK
<1>3. \A n \in Names : Entered(it)["shared"][n] = decls["shared"][n]
  BY <1>1, <1>2, EnteredItem
<1>4. order'["shared"] = order["shared"]
  BY <1>1, <1>2, ItemEffect, ListedTyped
<1>5. \A n \in Names : decls'["shared"][n].declared <=> decls["shared"][n].declared
  BY <1>1, <1>3, ItemEffect
<1>6. ASSUME ~DefinesShared PROVE decls'["shared"] = decls["shared"]
  <2>1. \A n \in Names : decls'["shared"][n] = decls["shared"][n]
    <3>1. CASE it.form \in {"def", "cut"}
      <4>1. PICK j \in DOMAIN source : source[j] = it
        BY <1>2, HeadItem DEF TextOfSource
      <4>2. it.name \in DefinedIn(source)
        BY <4>1, <3>1 DEF DefinedIn
      <4>3. ~decls["shared"][it.name].declared
        BY <4>2, <1>2, <1>6 DEF DefinesShared, SharedNames
      <4>4. BodyScope(it) # "shared"
        BY <4>3, <1>1 DEF BodyScope, HomeOf, Visible
      <4> QED BY <4>4, <1>1, <1>3, ItemEffect
    <3>2. CASE decls' = Entered(it)
      BY <3>2, <1>3
    <3> QED BY <3>1, <3>2, ItemEffect
  <2>2. decls'["shared"] \in [Names -> Decls] /\ decls["shared"] \in [Names -> Decls]
    BY <1>1, <1>2
  <2> QED BY <2>1, <2>2
<1> QED BY <1>4, <1>5, <1>6

LEMMA TextOfSourceStep == TypeOK /\ TextOfSource /\ [Next]_vars => TextOfSource'
<1> SUFFICES ASSUME TypeOK, TextOfSource, [Next]_vars, phase' = "Parse" PROVE TextOfSource'
  BY DEF TextOfSource
<1>1. CASE UNCHANGED <<text, source, phase>>
  BY <1>1 DEF TextOfSource
<1>2. CASE \E src \in ModuleTexts : Compile(src)
  BY <1>2 DEF Compile, TextOfSource
<1>3. CASE phase = "Parse" /\ EnterItem
  <2>1. /\ text # <<>> /\ source' = source /\ (text' = text \/ text' = Tail(text))
    BY <1>3, ItemEffect
  <2>2. CASE text' = Tail(text)
    BY <2>1, <2>2, <1>3, HeadItem DEF TextOfSource
  <2> QED BY <2>1, <2>2, <1>3 DEF TextOfSource
<1>4. CASE ClientCall
  BY <1>1, <1>2, <1>4 DEF ClientCall, AddExternalFunction, InitializeWithoutEngine, Initialize,
     GetFunctionPtr, Destory, Abort, Idle, front
<1>5. CASE Work
  BY <1>1, <1>3, <1>5 DEF Work, EnterItem, ParseDeclaration, ParseDefinition,
     ParseTruncatedDefinition, RefuseBody, RefuseItem, EndParseShared, EndParseRejected,
     EndParseAccepted, GenFunction, GenAssertionFails, EndInitialize, EndCompile, Emit,
     UnresolvedSymbol, EndGetFunctionPtr, Return, Abort, session, front
<1>6. CASE UNCHANGED vars
  BY <1>1, <1>6 DEF vars, session, front
<1> QED BY <1>4, <1>5, <1>6 DEF Next

\* A step of a ready session that touches the shared domain.
LEMMA FrozenStep ==
    ASSUME IInv, TextOfSource, [Next]_vars, ready, ready', ~DefinesShared
    PROVE  UNCHANGED <<decls["shared"], order["shared"], ctx["shared"]>>
<1>1. /\ "shared" \in Scopes /\ "module" \in Scopes /\ "shared" # "module" /\ TypeOK
      /\ phase \notin {"ParseShared", "GenShared"}
  BY CurrentScope DEF IInv, Linkage, SharedFunctions
<1>2. /\ decls \in [Scopes -> [Names -> Decls]] /\ order \in [Scopes -> Seq(Names)]
      /\ ctx \in [Scopes -> [Names -> Ids0]]
  BY <1>1 DEF TypeOK
<1>3. CASE EnterItem
  <2>1. Parsing /\ UNCHANGED back
    BY <1>1, <1>3, ItemEffect
  <2>2. phase = "Parse"
    BY <2>1, <1>1 DEF Parsing
  <2> QED BY <2>1, <2>2, <1>1, <1>3, SharedUntouched DEF back
<1>4. CASE GenFunction
  <2>1. Current = "module" /\ UNCHANGED front
    BY <1>1, <1>4 DEF GenFunction, Generating, Current
  <2>2. \E k, n : ctx' = [ctx EXCEPT !["module"][n] = k]
    BY <2>1, <1>4 DEF GenFunction, CtxWith
  <2> QED BY <2>1, <2>2, <1>1, <1>2 DEF front
<1>5. CASE EndParseRejected \/ EndParseAccepted \/ EndCompile
  BY <1>1, <1>2, <1>5 DEF EndParseRejected, EndParseAccepted, EndCompile, front, back
<1>6. CASE ClientCall
  BY <1>6 DEF ClientCall, AddExternalFunction, InitializeWithoutEngine, Initialize, Compile,
     GetFunctionPtr, Destory, front, back
<1>7. CASE Work
  BY <1>1, <1>3, <1>4, <1>5, <1>7 DEF Work, EnterItem, RefuseItem, EndParseShared,
     GenAssertionFails, EndInitialize, Emit, UnresolvedSymbol, EndGetFunctionPtr, front, back
<1>8. CASE UNCHANGED vars
  BY <1>8 DEF vars, front, back
<1> QED BY <1>6, <1>7, <1>8 DEF Next

\* Compiling never changes what KSC_Initialize set up, for any text that defines no
\* function the shared text declares, accepted or refused.
THEOREM SharedStaysFrozen == Spec => SharedDomainFrozen
<1>1. Init => TextOfSource
  BY DEF Init, TextOfSource
<1>2. IInv => TypeOK
  BY DEF IInv
<1>3. Spec => [](IInv /\ TextOfSource)
  BY InitInv, NextInv, <1>1, <1>2, TextOfSourceStep, PTL DEF Spec
<1>4. IInv /\ TextOfSource /\ [Next]_vars =>
         [ready /\ ready' /\ ~DefinesShared =>
             UNCHANGED <<decls["shared"], order["shared"], ctx["shared"]>>]_vars
  BY FrozenStep
<1> QED BY <1>3, <1>4, PTL DEF Spec, SharedDomainFrozen

-----------------------------------------------------------------------------
(* Why the program stops.                                                  *)

OrderDistinct ==
    \A s \in Scopes : \A k, l \in DOMAIN order[s] : order[s][k] = order[s][l] => k = l
AllListed ==
    \A s \in Scopes, n \in Names :
        decls[s][n].declared => \E k \in DOMAIN order[s] : order[s][k] = n
CallsKnown ==
    \A s \in Scopes, n \in Names : decls[s][n].declared =>
        \A c \in decls[s][n].calls : decls[s][c].declared \/ decls["shared"][c].declared

\* The expressions generated so far are those before `next', in order.
GenSoFar ==
    /\ \A n \in Names : ctx["shared"][n] <= call
    /\ phase = "ParseShared" => \A n \in Names : ctx["shared"][n] # call
    /\ phase = "GenShared" =>
          /\ \A k \in DOMAIN order["shared"] : k < next => ctx["shared"][order["shared"][k]] # 0
          /\ \A n \in Names : ctx["shared"][n] = call =>
                \E k \in DOMAIN order["shared"] : k < next /\ order["shared"][k] = n
    /\ phase = "Gen" =>
          /\ \A k \in DOMAIN order["module"] : k < next => ctx["module"][order["module"][k]] # 0
          /\ \A n \in Names : ctx["module"][n] # 0 =>
                \E k \in DOMAIN order["module"] : k < next /\ order["module"][k] = n
    /\ ready => \A n \in Names : decls["shared"][n].declared => ctx["shared"][n] # 0

Counted == phase \in {"Parse", "Gen"} /\ ~DefinesShared => SharedInstances(decls) = baseline

FrontInv == TextOfSource /\ OrderDistinct /\ AllListed /\ CallsKnown /\ GenSoFar /\ Counted

Stopped == (assertion # "none" => phase = "Aborted") /\ StopsExplained

\* Steps that neither parse nor generate.
LEMMA FrontKept ==
    ASSUME IInv, FrontInv, TextOfSource', UNCHANGED <<decls, order, ctx>>,
           call' \in {call, call + 1}, ready' => ready,
           phase' \in {"ParseShared", "GenShared", "Parse", "Gen"} =>
               phase' = phase /\ UNCHANGED <<call, next, source, baseline>>
    PROVE  FrontInv'
<1>1. call \in Nat /\ \A n \in Names : ctx["shared"][n] \in Nat
  <2>1. MaxCalls \in Nat /\ Ids0 = 0..MaxCalls
    BY MaxCallsAssumption DEF Ids0
  <2>2. \A n \in Names : ctx["shared"][n] \in Ids0
    BY CurrentScope DEF IInv, TypeOK
  <2> QED BY <2>1, <2>2, CallNumbers DEF IInv
<1>2. OrderDistinct' /\ AllListed' /\ CallsKnown'
  BY DEF FrontInv, OrderDistinct, AllListed, CallsKnown
<1>3. GenSoFar'
  BY <1>1 DEF FrontInv, GenSoFar
<1>4. Counted'
  <2>1. SharedInstances(decls)' = SharedInstances(decls)
    BY DEF SharedInstances
  <2>2. source' = source => (DefinesShared' <=> DefinesShared)
    BY DEF DefinesShared, DefinedIn, SharedNames
  <2> QED BY <2>1, <2>2 DEF FrontInv, Counted
<1> QED BY <1>2, <1>3, <1>4 DEF FrontInv

LEMMA FrontKeptSteps ==
    ASSUME IInv, FrontInv, TextOfSource',
           \/ \E n \in Names : AddExternalFunction(n)
           \/ InitializeWithoutEngine \/ Destory
           \/ \E m \in CallIds, n \in Names : GetFunctionPtr(m, n)
           \/ RefuseItem \/ GenAssertionFails \/ EndGetFunctionPtr
           \/ \E f \in FnIds : Emit(f) \/ UnresolvedSymbol(f)
           \/ EndParseShared /\ ~Accepted
           \/ UNCHANGED vars
    PROVE  FrontInv'
<1>1. CASE UNCHANGED vars
  BY <1>1, FrontKept DEF vars, session, front, back
<1>2. CASE \E n \in Names : AddExternalFunction(n)
  BY <1>2, FrontKept DEF AddExternalFunction, Idle, front, back
<1>3. CASE InitializeWithoutEngine
  BY <1>3, FrontKept DEF InitializeWithoutEngine, Idle, front, back
<1>4. CASE Destory
  BY <1>4, FrontKept DEF Destory, Idle, Abort, front
<1>5. CASE \E m \in CallIds, n \in Names : GetFunctionPtr(m, n)
  BY <1>5, FrontKept DEF GetFunctionPtr, Idle, front, back
<1>6. CASE RefuseItem
  BY <1>6, FrontKept DEF RefuseItem, session, back
<1>7. CASE GenAssertionFails
  BY <1>7, FrontKept DEF GenAssertionFails, Abort, front, back
<1>8. CASE EndGetFunctionPtr
  BY <1>8, FrontKept DEF EndGetFunctionPtr, Return, front, back
<1>9. CASE \E f \in FnIds : Emit(f) \/ UnresolvedSymbol(f)
  <2>1. ASSUME NEW f \in FnIds, Emit(f) PROVE FrontInv'
    BY <2>1, FrontKept DEF Emit, session, front, back
  <2>2. ASSUME NEW f \in FnIds, UnresolvedSymbol(f) PROVE FrontInv'
    BY <2>2, FrontKept DEF UnresolvedSymbol, Abort, front, back
  <2> QED BY <1>9, <2>1, <2>2
<1>10. CASE EndParseShared /\ ~Accepted
  BY <1>10, FrontKept DEF EndParseShared, Return, front
<1> QED BY <1>1, <1>2, <1>3, <1>4, <1>5, <1>6, <1>7, <1>8, <1>9, <1>10

LEMMA FrontInit == Init => FrontInv
<1> SUFFICES ASSUME Init PROVE FrontInv
  OBVIOUS
<1>1. \A s \in Scopes, n \in Names : ~decls[s][n].declared
  BY EmptyTyped DEF Init
<1>2. \A n \in Names : ctx["shared"][n] = 0
  BY EmptyTyped, CurrentScope DEF Init
<1>3. \A s \in Scopes : order[s] = <<>>
  BY DEF Init
<1>4. TextOfSource /\ Counted
  BY DEF Init, TextOfSource, Counted
<1>5. OrderDistinct /\ AllListed /\ CallsKnown
  BY <1>1, <1>3 DEF OrderDistinct, AllListed, CallsKnown
<1>6. GenSoFar
  BY <1>1, <1>2, CurrentScope DEF Init, GenSoFar
<1> QED BY <1>4, <1>5, <1>6 DEF FrontInv

\* A domain that has been emptied holds no names.
LEMMA EmptiedFront ==
    ASSUME TypeOK, FrontInv, NEW s \in Scopes,
           decls' = [decls EXCEPT ![s] = EmptyDomain], order' = [order EXCEPT ![s] = <<>>],
           s = "shared" => \A n \in Names : ~decls["module"][n].declared
    PROVE  OrderDistinct' /\ AllListed' /\ CallsKnown'
<1>1. /\ decls'[s] = EmptyDomain /\ order'[s] = <<>>
      /\ \A t \in Scopes : t # s => decls'[t] = decls[t] /\ order'[t] = order[t]
  BY DEF TypeOK
<1>2. \A n \in Names : ~decls'[s][n].declared
  BY <1>1, EmptyTyped
<1>3. OrderDistinct'
  BY <1>1 DEF FrontInv, OrderDistinct
<1>4. AllListed'
  BY <1>1, <1>2 DEF FrontInv, AllListed
<1>5. CallsKnown'
  <2>1. CASE s = "shared"
    BY <2>1, <1>1, <1>2 DEF CallsKnown, Scopes
  <2>2. CASE s = "module"
    BY <2>2, <1>1, <1>2, CurrentScope DEF FrontInv, CallsKnown, Scopes
  <2> QED BY <2>1, <2>2 DEF Scopes
<1> QED BY <1>3, <1>4, <1>5

LEMMA CtxNumbers ==
    ASSUME TypeOK
    PROVE  call \in Nat /\ \A s \in Scopes, n \in Names : ctx[s][n] \in Nat
<1>1. MaxCalls \in Nat /\ Ids0 = 0..MaxCalls
  BY MaxCallsAssumption DEF Ids0
<1>2. \A s \in Scopes, n \in Names : ctx[s][n] \in Ids0
  BY DEF TypeOK
<1> QED BY <1>1, <1>2, CallNumbers

LEMMA FrontInitialize ==
    ASSUME IInv, FrontInv, TextOfSource', NEW shared \in SharedTexts, Initialize(shared)
    PROVE  FrontInv'
<1>1. /\ phase = "Idle" /\ phase' = "ParseShared" /\ call' = call + 1 /\ ready' = FALSE
      /\ decls' = [decls EXCEPT !["shared"] = EmptyDomain]
      /\ order' = [order EXCEPT !["shared"] = <<>>] /\ ctx' = ctx
  BY DEF Initialize, Idle, back
<1>2. OrderDistinct' /\ AllListed' /\ CallsKnown'
  BY <1>1, EmptiedFront, CurrentScope DEF IInv, Linkage, ScopesDisjoint
<1>3. GenSoFar'
  <2>1. \A n \in Names : ctx["shared"][n] <= call /\ ctx["shared"][n] \in Nat /\ call \in Nat
    BY CtxNumbers, CurrentScope DEF FrontInv, GenSoFar, IInv
  <2>2. \A n \in Names : ctx["shared"][n] <= call + 1 /\ ctx["shared"][n] # call + 1
    BY <2>1
  <2> QED BY <1>1, <2>2 DEF GenSoFar
<1>4. Counted'
  BY <1>1 DEF Counted
<1> QED BY <1>2, <1>3, <1>4 DEF FrontInv

LEMMA FrontCompile ==
    ASSUME IInv, FrontInv, TextOfSource', NEW src \in ModuleTexts, Compile(src)
    PROVE  FrontInv'
<1>1. /\ phase' = "Parse" /\ call' = call + 1 /\ ready' = ready /\ UNCHANGED <<decls, order, ctx>>
      /\ baseline' = {n \in Names : decls["shared"][n].started}
  BY DEF Compile, Idle, back
<1>2. OrderDistinct' /\ AllListed' /\ CallsKnown'
  BY <1>1 DEF FrontInv, OrderDistinct, AllListed, CallsKnown
<1>3. GenSoFar'
  <2>1. \A n \in Names : ctx["shared"][n] <= call /\ ctx["shared"][n] \in Nat /\ call \in Nat
    BY CtxNumbers, CurrentScope DEF FrontInv, GenSoFar, IInv
  <2> QED BY <1>1, <2>1 DEF FrontInv, GenSoFar
<1>4. Counted'
  BY <1>1 DEF Counted, SharedInstances
<1> QED BY <1>2, <1>3, <1>4 DEF FrontInv

LEMMA AppendedLast ==
    ASSUME NEW S, NEW q \in Seq(S), NEW x \in S
    PROVE  /\ \A k \in DOMAIN q : k \in DOMAIN Append(q, x) /\ Append(q, x)[k] = q[k]
           /\ \A k \in DOMAIN Append(q, x) : k \in DOMAIN q \/ k = Len(q) + 1
           /\ Len(q) + 1 \in DOMAIN Append(q, x) /\ Append(q, x)[Len(q) + 1] = x
OBVIOUS

LEMMA FrontEnterItem == ASSUME IInv, FrontInv, TextOfSource', EnterItem PROVE FrontInv'
<1> DEFINE it == Head(text)
           D == Entered(it)
           b == BodyScope(it)
           fresh == ~Visible(Current, it.name)
<1>1. /\ TypeOK /\ it \in Items /\ it.name \in Names /\ it.calls \subseteq Names
      /\ phase \in {"ParseShared", "Parse"}
      /\ order' = Listed(it) /\ order \in [Scopes -> Seq(Names)] /\ Current \in Scopes
      /\ UNCHANGED <<phase, call, ready, source, baseline, ctx, next>>
  BY ItemEffect, CurrentScope DEF IInv, TypeOK, Parsing, session, back, Items
<1>2. \A s \in Scopes, n \in Names :
          decls'[s][n].declared <=> decls[s][n].declared \/ (s = Current /\ n = it.name /\ fresh)
  BY <1>1, ItemEffect, EnteredTyped
<1>3. \A s \in Scopes, n \in Names :
         \/ decls'[s][n].calls = D[s][n].calls
         \/ s = b /\ n = it.name /\ decls'[s][n].calls = it.calls /\ CalleesKnown(it)
  BY <1>1, ItemEffect
<1>4. \A s \in Scopes, n \in Names : D[s][n].calls = decls[s][n].calls \/ D[s][n].calls = {}
  BY <1>1, EnteredItem
<1>5. ~fresh => order' = order
  BY <1>1, ListedTyped
<1>6. fresh => /\ order'[Current] = Append(order[Current], it.name)
               /\ \A s \in Scopes : s # Current => order'[s] = order[s]
               /\ ~decls[Current][it.name].declared
  <2>1. fresh => ~decls[Current][it.name].declared
    BY <1>1, CurrentScope DEF Visible, HomeOf, Scopes
  <2> QED BY <2>1, <1>1, ListedTyped
<1>7. fresh => /\ \A k \in DOMAIN order[Current] : /\ k \in DOMAIN order'[Current]
                                                   /\ order'[Current][k] = order[Current][k]
               /\ \A k \in DOMAIN order'[Current] : \/ k \in DOMAIN order[Current]
                                                    \/ k = Len(order[Current]) + 1
               /\ Len(order[Current]) + 1 \in DOMAIN order'[Current]
               /\ order'[Current][Len(order[Current]) + 1] = it.name
  <2>1. order[Current] \in Seq(Names)
    BY <1>1
  <2> HIDE DEF it, fresh
  <2> QED BY <2>1, <1>1, <1>6, AppendedLast
<1>8. CalleesKnown(it) => \A c \in it.calls : c = it.name \/ Visible(b, c)
  BY DEF CalleesKnown
<1> HIDE DEF it, D, b, fresh
<1>9. OrderDistinct'
  <2>1. ASSUME NEW s \in Scopes, NEW k \in DOMAIN order'[s], NEW l \in DOMAIN order'[s],
               order'[s][k] = order'[s][l]
        PROVE  k = l
    <3>1. CASE order'[s] = order[s]
      BY <2>1, <3>1 DEF FrontInv, OrderDistinct
    <3>2. CASE fresh /\ s = Current
      <4>1. \A j \in DOMAIN order[Current] : order[Current][j] # it.name
        BY <3>2, <1>1, <1>6 DEF IInv, Linkage, ListedDeclared
      <4> QED BY <4>1, <2>1, <3>2, <1>1, <1>7 DEF FrontInv, OrderDistinct
    <3> QED BY <3>1, <3>2, <1>5, <1>6
  <2> QED BY <2>1 DEF OrderDistinct
<1>10. AllListed'
  <2>1. ASSUME NEW s \in Scopes, NEW n \in Names, decls'[s][n].declared
        PROVE  \E k \in DOMAIN order'[s] : order'[s][k] = n
    <3>1. CASE decls[s][n].declared
      <4>1. PICK k \in DOMAIN order[s] : order[s][k] = n
        BY <3>1 DEF FrontInv, AllListed
      <4> QED BY <4>1, <1>5, <1>6, <1>7
    <3>2. CASE s = Current /\ n = it.name /\ fresh
      BY <3>2, <1>7
    <3> QED BY <3>1, <3>2, <2>1, <1>2
  <2> QED BY <2>1 DEF AllListed
<1>11. CallsKnown'
  <2>1. ASSUME NEW s \in Scopes, NEW n \in Names, decls'[s][n].declared, NEW c \in decls'[s][n].calls
        PROVE  decls'[s][c].declared \/ decls'["shared"][c].declared
    <3>1. CASE decls'[s][n].calls = D[s][n].calls
      <4>1. D[s][n].calls = decls[s][n].calls /\ c \in decls[s][n].calls
        BY <2>1, <3>1, <1>4
      <4>2. c \in Names
        <5>1. decls[s][n] \in Decls
          BY <1>1 DEF TypeOK
        <5> QED BY <5>1, <4>1 DEF Decls
      <4>3. CASE decls[s][n].declared
        <5>1. decls[s][c].declared \/ decls["shared"][c].declared
          BY <4>1, <4>3 DEF FrontInv, CallsKnown
        <5> QED BY <5>1, <4>2, <1>2, CurrentScope
      <4>4. CASE ~decls[s][n].declared
        <5>1. D[s][n].calls = {}
          <6>1. s = Current /\ n = it.name /\ fresh
            BY <2>1, <4>4, <1>2
          <6> QED BY <6>1, <1>1, EnteredItem DEF D, fresh
        <5> QED BY <5>1, <4>1
      <4> QED BY <4>3, <4>4
    <3>2. CASE s = b /\ n = it.name /\ decls'[s][n].calls = it.calls /\ CalleesKnown(it)
      <4>1. c \in Names /\ (c = it.name \/ Visible(b, c))
        BY <2>1, <3>2, <1>1, <1>8
      <4>2. CASE c = it.name
        BY <4>2, <2>1, <3>2
      <4>3. CASE Visible(b, c)
        <5>1. decls[s][c].declared \/ decls["shared"][c].declared
          BY <4>3, <3>2 DEF Visible, HomeOf
        <5> QED BY <5>1, <4>1, <1>2, CurrentScope
      <4> QED BY <4>1, <4>2, <4>3
    <3> QED BY <3>1, <3>2, <1>3
  <2> QED BY <2>1 DEF CallsKnown
<1>12. GenSoFar'
  <2>1. ready => phase = "Parse"
    BY <1>1 DEF IInv, Linkage, SharedFunctions
  <2>2. phase = "Parse" => \A n \in Names : decls'["shared"][n].declared <=> decls["shared"][n].declared
    BY <1>1, SharedUntouched DEF FrontInv
  <2> QED BY <2>1, <2>2, <1>1 DEF FrontInv, GenSoFar
<1>13. Counted'
  <2>1. phase = "Parse" => /\ \A n \in Names : decls'["shared"][n].declared <=> decls["shared"][n].declared
                           /\ DefinesShared \/ decls'["shared"] = decls["shared"]
    BY <1>1, SharedUntouched DEF FrontInv
  <2>2. phase = "Parse" => (DefinesShared' <=> DefinesShared)
    BY <2>1, <1>1 DEF DefinesShared, DefinedIn, SharedNames
  <2> QED BY <2>1, <2>2, <1>1 DEF FrontInv, Counted, SharedInstances
<1> QED BY <1>9, <1>10, <1>11, <1>12, <1>13 DEF FrontInv

LEMMA FrontEndParseShared ==
    ASSUME IInv, FrontInv, TextOfSource', EndParseShared, Accepted
    PROVE  FrontInv'
<1>1. /\ phase = "ParseShared" /\ phase' = "GenShared" /\ next' = 1
      /\ UNCHANGED <<call, ready, decls, order, ctx>>
  BY DEF EndParseShared, front
<1>2. OrderDistinct' /\ AllListed' /\ CallsKnown' /\ Counted'
  BY <1>1 DEF FrontInv, OrderDistinct, AllListed, CallsKnown, Counted
<1>3. GenSoFar'
  <2>1. \A k \in DOMAIN order["shared"] : ~(k < 1)
    <3>1. order["shared"] \in Seq(Names)
      BY CurrentScope DEF IInv, TypeOK
    <3> QED BY <3>1
  <2> QED BY <2>1, <1>1 DEF FrontInv, GenSoFar
<1> QED BY <1>2, <1>3 DEF FrontInv

LEMMA FrontEndParseAccepted ==
    ASSUME IInv, FrontInv, TextOfSource', EndParseAccepted
    PROVE  FrontInv'
<1>1. /\ phase = "Parse" /\ phase' = "Gen" /\ next' = 1
      /\ ctx' = [ctx EXCEPT !["module"] = EmptyCtx]
      /\ UNCHANGED <<call, ready, decls, order, source, baseline>>
  BY DEF EndParseAccepted, front
<1>2. ctx'["shared"] = ctx["shared"] /\ \A n \in Names : ctx'["module"][n] = 0
  BY <1>1, EmptyTyped, CurrentScope DEF IInv, TypeOK
<1>3. OrderDistinct' /\ AllListed' /\ CallsKnown'
  BY <1>1 DEF FrontInv, OrderDistinct, AllListed, CallsKnown
<1>4. Counted'
  <2>1. SharedInstances(decls)' = SharedInstances(decls) /\ (DefinesShared' <=> DefinesShared)
    BY <1>1 DEF SharedInstances, DefinesShared, DefinedIn, SharedNames
  <2> QED BY <2>1, <1>1 DEF FrontInv, Counted
<1>5. GenSoFar'
  <2>1. \A k \in DOMAIN order["module"] : ~(k < 1)
    <3>1. order["module"] \in Seq(Names)
      BY CurrentScope DEF IInv, TypeOK
    <3> QED BY <3>1
  <2> QED BY <2>1, <1>1, <1>2 DEF FrontInv, GenSoFar
<1> QED BY <1>3, <1>4, <1>5 DEF FrontInv

LEMMA FrontEndOfCompile ==
    ASSUME IInv, FrontInv, TextOfSource', EndParseRejected \/ EndCompile
    PROVE  FrontInv'
<1>1. /\ phase' \in {"Idle", "Aborted"} /\ UNCHANGED <<call, ready>>
      /\ decls' = [decls EXCEPT !["module"] = EmptyDomain]
      /\ order' = [order EXCEPT !["module"] = <<>>]
      /\ ctx' \in {ctx, [ctx EXCEPT !["module"] = EmptyCtx]}
  BY DEF EndParseRejected, EndCompile, Return, Abort, back
<1>2. ctx'["shared"] = ctx["shared"] /\ decls'["shared"] = decls["shared"]
  BY <1>1, CurrentScope DEF IInv, TypeOK
<1>3. OrderDistinct' /\ AllListed' /\ CallsKnown'
  BY <1>1, EmptiedFront, CurrentScope DEF IInv
<1>4. GenSoFar' /\ Counted'
  BY <1>1, <1>2 DEF FrontInv, GenSoFar, Counted
<1> QED BY <1>3, <1>4 DEF FrontInv

LEMMA FrontEndInitialize ==
    ASSUME IInv, FrontInv, TextOfSource', EndInitialize
    PROVE  FrontInv'
<1>1. /\ phase = "GenShared" /\ phase' = "Idle" /\ next > Len(order["shared"])
      /\ UNCHANGED <<call, decls, order, ctx>>
  BY DEF EndInitialize, Return, front, back
<1>2. OrderDistinct' /\ AllListed' /\ CallsKnown' /\ Counted'
  BY <1>1 DEF FrontInv, OrderDistinct, AllListed, CallsKnown, Counted
<1>3. ASSUME NEW n \in Names, decls["shared"][n].declared PROVE ctx["shared"][n] # 0
  <2>1. PICK k \in DOMAIN order["shared"] : order["shared"][k] = n
    BY <1>3, CurrentScope DEF FrontInv, AllListed
  <2>2. order["shared"] \in Seq(Names) /\ next \in Nat
    BY CurrentScope DEF IInv, TypeOK
  <2>3. k < next
    BY <2>2, <1>1
  <2> QED BY <2>1, <2>3, <1>1 DEF FrontInv, GenSoFar
<1>4. GenSoFar'
  BY <1>1, <1>3 DEF FrontInv, GenSoFar
<1> QED BY <1>2, <1>4 DEF FrontInv

LEMMA FrontGenFunction == ASSUME IInv, FrontInv, TextOfSource', GenFunction PROVE FrontInv'
<1> DEFINE s == Current
           n == order[s][next]
<1>1. /\ s \in Scopes /\ n \in Names /\ call \in CallIds /\ ctx' = [ctx EXCEPT ![s][n] = call]
  BY GeneratedName
<1>2. /\ phase \in {"GenShared", "Gen"} /\ next' = next + 1 /\ next <= Len(order[s])
      /\ UNCHANGED <<phase, call, ready, source, baseline, decls, order>>
  BY DEF GenFunction, Generating, session, front
<1>3. /\ ctx \in [Scopes -> [Names -> Ids0]] /\ next \in Nat \ {0} /\ order[s] \in Seq(Names)
      /\ call \in Nat /\ call # 0
  <2>1. call # 0 /\ call \in Nat
    BY <1>1, MaxCallsAssumption DEF CallIds
  <2> QED BY <2>1, <1>1 DEF IInv, TypeOK
<1>4. /\ ctx'[s][n] = call
      /\ \A t \in Scopes, m \in Names : t # s \/ m # n => ctx'[t][m] = ctx[t][m]
  BY <1>1, <1>3
<1>5. /\ next \in DOMAIN order[s] /\ next < next'
      /\ \A k \in DOMAIN order[s] : (k < next => k < next') /\ (k < next' => k < next \/ k = next)
      /\ \A k \in DOMAIN order[s] : order[s][k] \in Names
  BY <1>2, <1>3
<1>6. s = IF phase = "GenShared" THEN "shared" ELSE "module"
  BY <1>2 DEF Current
<1>7. n = order[s][next]
  OBVIOUS
<1> HIDE DEF s, n
<1>8. OrderDistinct' /\ AllListed' /\ CallsKnown'
  BY <1>2 DEF FrontInv, OrderDistinct, AllListed, CallsKnown
<1>9. Counted'
  <2>1. SharedInstances(decls)' = SharedInstances(decls) /\ (DefinesShared' <=> DefinesShared)
    BY <1>2 DEF SharedInstances, DefinesShared, DefinedIn, SharedNames
  <2> QED BY <2>1, <1>2 DEF FrontInv, Counted
<1>10. ASSUME \A k \in DOMAIN order[s] : k < next => ctx[s][order[s][k]] # 0
       PROVE  \A k \in DOMAIN order[s] : k < next' => ctx'[s][order[s][k]] # 0
  <2>1. ASSUME NEW k \in DOMAIN order[s], k < next' PROVE ctx'[s][order[s][k]] # 0
    <3>1. CASE order[s][k] = n
      BY <3>1, <1>3, <1>4
    <3>2. CASE order[s][k] # n
      <4>1. k < next
        BY <2>1, <3>2, <1>5, <1>7
      <4> QED BY <4>1, <2>1, <3>2, <1>1, <1>4, <1>5, <1>10
    <3> QED BY <3>1, <3>2
  <2> QED BY <2>1
<1>11. \E k \in DOMAIN order[s] : k < next' /\ order[s][k] = n
  BY <1>5, <1>7
<1>12. CASE phase = "GenShared"
  <2>1. s = "shared" /\ ~ready
    BY <1>6, <1>12 DEF IInv, Linkage, SharedFunctions
  <2>2. \A m \in Names : ctx'["shared"][m] <= call
    <3>1. call <= call
      BY <1>3
    <3> QED BY <3>1, <2>1, <1>1, <1>4 DEF FrontInv, GenSoFar
  <2>3. ASSUME NEW m \in Names, ctx'["shared"][m] = call
        PROVE  \E k \in DOMAIN order["shared"] : k < next' /\ order["shared"][k] = m
    <3>1. CASE m = n
      BY <3>1, <2>1, <1>11
    <3>2. CASE m # n
      <4>1. PICK k \in DOMAIN order["shared"] : k < next /\ order["shared"][k] = m
        BY <2>3, <3>2, <2>1, <1>1, <1>4, <1>12 DEF FrontInv, GenSoFar
      <4> QED BY <4>1, <2>1, <1>5
    <3> QED BY <3>1, <3>2
  <2>4. \A k \in DOMAIN order["shared"] : k < next' => ctx'["shared"][order["shared"][k]] # 0
    BY <2>1, <1>10, <1>12 DEF FrontInv, GenSoFar
  <2>5. GenSoFar'
    BY <2>1, <2>2, <2>3, <2>4, <1>2, <1>12 DEF GenSoFar
  <2> QED BY <2>5, <1>8, <1>9 DEF FrontInv
<1>13. CASE phase = "Gen"
  <2>1. s = "module" /\ s # "shared" /\ "shared" \in Scopes
    BY <1>6, <1>13, CurrentScope
  <2>2. \A m \in Names : ctx'["shared"][m] = ctx["shared"][m]
    BY <2>1, <1>4
  <2>3. ASSUME NEW m \in Names, ctx'["module"][m] # 0
        PROVE  \E k \in DOMAIN order["module"] : k < next' /\ order["module"][k] = m
    <3>1. CASE m = n
      BY <3>1, <2>1, <1>11
    <3>2. CASE m # n
      <4>1. PICK k \in DOMAIN order["module"] : k < next /\ order["module"][k] = m
        BY <2>3, <3>2, <2>1, <1>1, <1>4, <1>13 DEF FrontInv, GenSoFar
      <4> QED BY <4>1, <2>1, <1>5
    <3> QED BY <3>1, <3>2
  <2>4. \A k \in DOMAIN order["module"] : k < next' => ctx'["module"][order["module"][k]] # 0
    BY <2>1, <1>10, <1>13 DEF FrontInv, GenSoFar
  <2>5. GenSoFar'
    BY <2>2, <2>3, <2>4, <1>2, <1>13 DEF FrontInv, GenSoFar
  <2> QED BY <2>5, <1>8, <1>9 DEF FrontInv
<1> QED BY <1>2, <1>12, <1>13

LEMMA FrontStep == IInv /\ FrontInv /\ [Next]_vars => FrontInv'
<1> SUFFICES ASSUME IInv, FrontInv, [Next]_vars PROVE FrontInv'
  OBVIOUS
<1>1. TextOfSource'
  BY TextOfSourceStep DEF IInv, FrontInv
<1>2. CASE UNCHANGED vars
  BY <1>1, <1>2, FrontKeptSteps
<1>3. CASE ClientCall
  BY <1>1, <1>3, FrontKeptSteps, FrontInitialize, FrontCompile DEF ClientCall
<1>4. CASE Work
  BY <1>1, <1>4, FrontKeptSteps, FrontEnterItem, FrontEndParseShared, FrontEndParseAccepted,
     FrontEndOfCompile, FrontEndInitialize, FrontGenFunction DEF Work, EnterItem
<1> QED BY <1>2, <1>3, <1>4 DEF Next

\* AddFunctionDecl meets a name it has, or assert(pF) a callee that has no Function.
LEMMA WhyGenFails ==
    ASSUME IInv, FrontInv, GenAssertionFails
    PROVE  StopsExplained'
<1> DEFINE s == Current
           n == order[s][next]
<1>1. /\ Generating /\ UNCHANGED <<call, ctx, decls, order, source>> /\ s \in Scopes
      /\ \/ ctx[s][n] # 0 /\ assertion' = "declared twice"
         \/ /\ ctx[s][n] = 0 /\ assertion' = "callee not generated"
            /\ \E c \in decls[s][n].calls : CalleeIn(s, n, c) = 0
  BY CurrentScope DEF GenAssertionFails, Abort, front, back
<1>2. /\ phase \in {"GenShared", "Gen"} /\ next \in DOMAIN order[s] /\ n \in Names
      /\ \A k \in DOMAIN order[s] : ~(k < next) /\ k # next => next < k
      /\ ~(next < next)
  <2>1. /\ phase \in {"GenShared", "Gen"} /\ next <= Len(order[s])
        /\ order[s] \in Seq(Names) /\ next \in Nat \ {0}
    BY <1>1 DEF IInv, TypeOK, Generating
  <2> HIDE DEF s
  <2>2. next \in DOMAIN order[s] /\ order[s][next] \in Names
    BY <2>1
  <2>3. \A k \in DOMAIN order[s] : k \in Nat
    BY <2>1
  <2> QED BY <2>1, <2>2, <2>3
<1>3. s = IF phase = "GenShared" THEN "shared" ELSE "module"
  BY <1>2 DEF Current
<1>4. n = order[s][next]
  OBVIOUS
<1> HIDE DEF s, n
<1>5. CASE ctx[s][n] # 0 /\ assertion' = "declared twice"
  <2>1. ~\E k \in DOMAIN order[s] : k < next /\ order[s][k] = n
    BY <1>1, <1>2, <1>4 DEF FrontInv, OrderDistinct
  <2>2. phase = "GenShared" /\ ctx["shared"][n] # call
    BY <2>1, <1>2, <1>3, <1>5 DEF FrontInv, GenSoFar
  <2>3. ctx["shared"][n] \notin {0, call}
    BY <2>2, <1>3, <1>5
  <2>4. \E m \in Names : ctx'["shared"][m] \notin {0, call'}
    BY <2>3, <1>1, <1>2
  <2> QED BY <2>4, <1>5 DEF StopsExplained
<1>6. CASE /\ ctx[s][n] = 0 /\ assertion' = "callee not generated"
           /\ \E c \in decls[s][n].calls : CalleeIn(s, n, c) = 0
  <2>1. PICK c \in decls[s][n].calls : CalleeIn(s, n, c) = 0
    BY <1>6
  <2>2. decls[s][n].declared /\ c \in Names
    <3>1. decls[s][n] \in Decls
      BY <1>1, <1>2 DEF IInv, TypeOK
    <3> QED BY <3>1, <1>1, <1>2, <1>4 DEF IInv, Linkage, ListedDeclared, Decls
  <2>3. decls[s][c].declared \/ decls["shared"][c].declared
    BY <2>2, <1>1, <1>2 DEF FrontInv, CallsKnown
  <2>4. FunctionFor(s, n) # 0 /\ FunctionFor(s, n) \in Ids0
    <3>1. call \in CallIds
      BY <1>2 DEF IInv
    <3>2. call \in Ids0 /\ call # 0
      BY <3>1, MaxCallsAssumption DEF CallIds, Ids0
    <3>3. FuncOf(ctx, s, n) \in Ids0
      BY <1>1, <1>2, CurrentScope DEF FuncOf, IInv, TypeOK
    <3> QED BY <3>2, <3>3 DEF FunctionFor
  <2>5. CtxWith(s, n)[s][n] # 0 /\ (c # n => CtxWith(s, n)[s][c] = ctx[s][c])
        /\ (s # "shared" => CtxWith(s, n)["shared"][c] = ctx["shared"][c])
    BY <2>2, <2>4, <1>1, <1>2, CurrentScope DEF CtxWith, IInv, TypeOK
  <2>6. c # n /\ ctx[s][c] = 0 /\ (s = "module" => ctx["shared"][c] = 0)
    BY <2>1, <2>5, <1>1 DEF CalleeIn, FuncOf, Scopes
  <2>7. decls[s][c].declared
    <3>1. CASE s = "shared"
      BY <3>1, <2>3
    <3>2. CASE s = "module"
      <4>1. ready
        BY <3>2, <1>2, <1>3 DEF IInv, Linkage, SharedFunctions
      <4> QED BY <4>1, <3>2, <2>2, <2>3, <2>6 DEF FrontInv, GenSoFar
    <3> QED BY <3>1, <3>2, <1>1 DEF Scopes
  <2>8. PICK l \in DOMAIN order[s] : order[s][l] = c
    BY <2>2, <2>7, <1>1 DEF FrontInv, AllListed
  <2>9. ~(l < next)
    BY <2>6, <2>8, <1>2, <1>3 DEF FrontInv, GenSoFar
  <2>10. next < l
    BY <2>6, <2>8, <2>9, <1>2, <1>4
  <2>11. \E t \in Scopes : CalledAhead(t)
    BY <2>8, <2>10, <1>1, <1>2, <1>4 DEF CalledAhead
  <2>12. (\E t \in Scopes : CalledAhead(t))'
    BY <2>11, <1>1 DEF CalledAhead
  <2> QED BY <2>12, <1>1, <1>6 DEF StopsExplained
<1> QED BY <1>1, <1>5, <1>6

LEMMA WhyLeaked ==
    ASSUME IInv, FrontInv, EndParseRejected \/ EndCompile, assertion = "none"
    PROVE  StopsExplained' /\ (assertion' # "none" => phase' = "Aborted")
<1>1. /\ phase \in {"Parse", "Gen"} /\ source' = source
      /\ decls' = [decls EXCEPT !["module"] = EmptyDomain]
      /\ \/ assertion' = "none"
         \/ /\ assertion' = "instances leaked" /\ phase' = "Aborted"
            /\ SharedInstances(decls) # baseline
  BY DEF EndParseRejected, EndCompile, Return, Abort
<1>2. decls'["shared"] = decls["shared"]
  BY <1>1, CurrentScope DEF IInv, TypeOK
<1>3. DefinesShared' <=> DefinesShared
  BY <1>1, <1>2 DEF DefinesShared, DefinedIn, SharedNames
<1> QED BY <1>1, <1>3 DEF FrontInv, Counted, StopsExplained

LEMMA StoppedStep == IInv /\ FrontInv /\ Stopped /\ [Next]_vars => Stopped'
<1> SUFFICES ASSUME IInv, FrontInv, Stopped, [Next]_vars PROVE Stopped'
  OBVIOUS
<1>1. CASE UNCHANGED vars
  BY <1>1 DEF vars, session, front, back, Stopped, StopsExplained, CalledAhead, DefinesShared,
     DefinedIn, SharedNames
<1>2. ASSUME Next PROVE assertion = "none"
  BY <1>2 DEF Stopped, Next, ClientCall, Work, AddExternalFunction, Initialize,
     InitializeWithoutEngine, Compile, GetFunctionPtr, Destory, Idle, ParseDeclaration,
     ParseDefinition, ParseTruncatedDefinition, RefuseBody, RefuseItem, Parsing, EndParseShared,
     EndParseRejected, EndParseAccepted, GenFunction, GenAssertionFails, Generating, EndInitialize,
     EndCompile, Emit, UnresolvedSymbol, EndGetFunctionPtr
<1>3. ASSUME assertion = "none", assertion' = "none" PROVE Stopped'
  BY <1>3 DEF Stopped, StopsExplained
<1>4. CASE ClientCall
  <2>1. assertion' \in {assertion, "deleted twice"} /\ (assertion' # assertion => phase' = "Aborted")
    BY <1>4 DEF ClientCall, AddExternalFunction, InitializeWithoutEngine, Initialize, Compile,
       GetFunctionPtr, Destory, Abort
  <2> QED BY <2>1, <1>2, <1>3, <1>4 DEF Next, Stopped, StopsExplained
<1>5. CASE Work
  <2>1. assertion = "none"
    BY <1>2, <1>5 DEF Next
  <2>2. CASE GenAssertionFails
    <3>1. phase' = "Aborted"
      BY <2>2 DEF GenAssertionFails, Abort
    <3> QED BY <3>1, <2>2, WhyGenFails DEF Stopped
  <2>3. CASE EndParseRejected \/ EndCompile
    BY <2>1, <2>3, WhyLeaked DEF Stopped
  <2>4. CASE \E f \in FnIds : UnresolvedSymbol(f)
    BY <2>4 DEF UnresolvedSymbol, Abort, Stopped, StopsExplained
  <2>5. ASSUME ~GenAssertionFails, ~EndParseRejected, ~EndCompile, ~\E f \in FnIds : UnresolvedSymbol(f)
        PROVE  assertion' = assertion
    BY <2>5, <1>5 DEF Work, ParseDeclaration, ParseDefinition, ParseTruncatedDefinition,
       RefuseBody, RefuseItem, EndParseShared, EndParseAccepted, GenFunction, EndInitialize,
       Emit, EndGetFunctionPtr, session
  <2> QED BY <2>1, <2>2, <2>3, <2>4, <2>5, <1>3
<1> QED BY <1>1, <1>4, <1>5 DEF Next

\* An assertion fails for its known reason only: a name of an earlier session is
\* generated again, a callee is listed behind its caller, or the module defines a
\* function that the shared text declares.
THEOREM StopsKnown == Spec => []StopsExplained
<1>1. Init => Stopped
  BY DEF Init, Stopped, StopsExplained
<1>2. Spec => [](IInv /\ FrontInv)
  BY InitInv, NextInv, FrontInit, FrontStep, PTL DEF Spec
<1>3. Stopped => StopsExplained
  BY DEF Stopped
<1> QED BY <1>1, <1>2, <1>3, StoppedStep, PTL DEF Spec
-----------------------------------------------------------------------------
(***************************************************************************)
(* A module that compiled has a handle for each function its text defines  *)
(* and for no other, for every text: what was parsed of the source, what   *)
(* the module's domain holds and what the descriptor lists, kept in step.  *)
(***************************************************************************)

Compiling == phase \in {"Parse", "Gen"}

\* The items of the source that were parsed; the others are left in the text.
Gone == Len(source) - Len(text)
Consumed ==
    Compiling => /\ Len(text) <= Len(source)
                 /\ \A k \in DOMAIN text : text[k] = source[Gone + k]
                 /\ phase = "Gen" => text = <<>>
                 /\ source \in ModuleTexts

\* A function of the module has a body when a parsed item gave it one.
Defined(n) == \E i \in 1..Gone : source[i].form = "def" /\ source[i].name = n
BodiesParsed ==
    /\ \A n \in Names : decls["module"][n].hasBody => decls["module"][n].declared
    /\ Compiling =>
          /\ \A n \in Names :
                decls["module"][n].hasBody <=> Defined(n) /\ ~decls["shared"][n].declared
          /\ \A i \in 1..Gone : source[i].form = "cut" => ~decls["module"][source[i].name].hasBody

\* The descriptor lists the functions with a body among the expressions generated.
Generated(n) ==
    decls["module"][n].hasBody /\ \E k \in DOMAIN order["module"] : k < next /\ order["module"][k] = n
Described ==
    /\ \A m \in CallIds : m > call => \A n \in Names : desc[m][n] = 0
    /\ phase = "Parse" => \A n \in Names : desc[call][n] = 0
    /\ phase = "Gen" => \A n \in Names :
          IF Generated(n) THEN desc[call][n] = call /\ <<call, n>> \in code ELSE desc[call][n] = 0

HandleInv == Consumed /\ BodiesParsed /\ Described

-----------------------------------------------------------------------------
LEMMA HandleInit == Init => HandleInv
<1> SUFFICES ASSUME Init PROVE HandleInv
  OBVIOUS
<1>1. \A n \in Names : ~decls["module"][n].hasBody /\ \A m \in CallIds : desc[m][n] = 0
  BY CurrentScope DEF Init, EmptyDomain, EmptyCtx, Undeclared
<1> QED BY <1>1 DEF Init, HandleInv, Consumed, BodiesParsed, Described, Compiling

\* Steps that neither parse an item nor generate code of a module.
LEMMA HandlesKept ==
    ASSUME IInv, HandleInv, UNCHANGED <<decls, order, desc>>, call' \in {call, call + 1},
           Compiling' => /\ phase' = phase /\ code \subseteq code'
                         /\ UNCHANGED <<call, text, source, next>>
    PROVE  HandleInv'
<1>1. call \in Nat /\ \A m \in CallIds : m > call' => m > call
  BY MaxCallsAssumption, CallNumbers DEF IInv, CallIds
<1>2. CASE ~Compiling'
  BY <1>1, <1>2 DEF HandleInv, Consumed, BodiesParsed, Described, Compiling
<1>3. CASE Compiling'
  <2>1. UNCHANGED <<phase, call, text, source, next>> /\ code \subseteq code'
    BY <1>3
  <2>2. Gone' = Gone /\ (\A n : Defined(n)' <=> Defined(n)) /\ (\A n : Generated(n)' <=> Generated(n))
    BY <2>1 DEF Gone, Defined, Generated
  <2>3. Consumed'
    BY <2>1, <2>2 DEF HandleInv, Consumed, Compiling
  <2>4. BodiesParsed'
    BY <2>1, <2>2 DEF HandleInv, BodiesParsed, Compiling
  <2>5. Described'
    BY <2>1, <2>2 DEF HandleInv, Described
  <2> QED BY <2>3, <2>4, <2>5 DEF HandleInv
<1> QED BY <1>2, <1>3

LEMMA HandlesKeptSteps ==
    ASSUME IInv, HandleInv,
           \/ \E n \in Names : AddExternalFunction(n)
           \/ InitializeWithoutEngine \/ Destory
           \/ \E m \in CallIds, n \in Names : GetFunctionPtr(m, n)
           \/ RefuseItem \/ EndParseShared \/ GenAssertionFails \/ EndInitialize
           \/ \E f \in FnIds : Emit(f) \/ UnresolvedSymbol(f)
           \/ EndGetFunctionPtr
           \/ UNCHANGED vars
    PROVE  HandleInv'
<1>1. CASE UNCHANGED vars
  BY <1>1, HandlesKept DEF vars, session, front, back, handles, Compiling
<1>2. CASE (\E n \in Names : AddExternalFunction(n)) \/ InitializeWithoutEngine
  BY <1>2, HandlesKept DEF AddExternalFunction, InitializeWithoutEngine, Idle, front, back, handles, Compiling
<1>3. CASE Destory
  BY <1>3, HandlesKept DEF Destory, Idle, Abort, front, Compiling
<1>4. CASE \E m \in CallIds, n \in Names : GetFunctionPtr(m, n)
  BY <1>4, HandlesKept DEF GetFunctionPtr, Idle, front, back, handles, Compiling
<1>5. CASE RefuseItem
  BY <1>5, HandlesKept DEF RefuseItem, session, back, handles, Compiling
<1>6. CASE EndParseShared
  BY <1>6, HandlesKept DEF EndParseShared, Return, front, handles, Compiling
<1>7. CASE GenAssertionFails
  BY <1>7, HandlesKept DEF GenAssertionFails, Abort, front, back, handles, Compiling
<1>8. CASE EndInitialize
  BY <1>8, HandlesKept DEF EndInitialize, Return, front, back, handles, Compiling
<1>9. CASE \E f \in FnIds : Emit(f) \/ UnresolvedSymbol(f)
  <2>1. ASSUME NEW f \in FnIds, Emit(f) PROVE HandleInv'
    BY <2>1, HandlesKept DEF Emit, session, front, back, handles, Compiling
  <2>2. ASSUME NEW f \in FnIds, UnresolvedSymbol(f) PROVE HandleInv'
    BY <2>2, HandlesKept DEF UnresolvedSymbol, Abort, front, back, handles, Compiling
  <2> QED BY <1>9, <2>1, <2>2
<1>10. CASE EndGetFunctionPtr
  BY <1>10, HandlesKept DEF EndGetFunctionPtr, Return, front, back, handles, Compiling
<1> QED BY <1>1, <1>2, <1>3, <1>4, <1>5, <1>6, <1>7, <1>8, <1>9, <1>10

\* The domain of the shared text, or of the module, is emptied.
LEMMA HandlesEmptied ==
    ASSUME IInv, HandleInv,
           \/ \E shared \in SharedTexts : Initialize(shared)
           \/ EndParseRejected \/ EndCompile
    PROVE  HandleInv'
<1>1. /\ \E s \in Scopes : decls' = [decls EXCEPT ![s] = EmptyDomain]
      /\ ~Compiling' /\ call' \in {call, call + 1} /\ desc' = desc
  BY CurrentScope DEF Initialize, EndParseRejected, EndCompile, Return, Abort, back, handles, Compiling
<1>2. \A n \in Names : decls'["module"][n].hasBody => decls'["module"][n].declared
  <2>1. \A n \in Names : ~EmptyDomain[n].hasBody
    BY DEF EmptyDomain, Undeclared
  <2> QED BY <2>1, <1>1, CurrentScope DEF HandleInv, BodiesParsed, IInv, TypeOK
<1>3. call \in Nat /\ \A m \in CallIds : m > call' => m > call
  BY <1>1, MaxCallsAssumption, CallNumbers DEF IInv, CallIds
<1> QED BY <1>1, <1>2, <1>3 DEF HandleInv, Consumed, BodiesParsed, Described, Compiling

LEMMA HandlesCompile ==
    ASSUME IInv, HandleInv, NEW src \in ModuleTexts, Compile(src)
    PROVE  HandleInv'
<1>1. /\ phase = "Idle" /\ phase' = "Parse" /\ call < MaxCalls /\ call' = call + 1
      /\ source' = src /\ text' = src /\ UNCHANGED <<decls, desc>>
  BY DEF Compile, Idle, handles
<1>2. src \in Seq(Items)
  BY TextsAssumption
<1>3. Gone' = 0
  BY <1>1, <1>2 DEF Gone
<1>4. Consumed'
  <2>1. Len(src) <= Len(src) /\ \A k \in DOMAIN src : src[k] = src[0 + k]
    BY <1>2
  <2> QED BY <2>1, <1>1, <1>3 DEF Consumed
<1>5. BodiesParsed'
  <2>1. \A n \in Names : ~decls["module"][n].hasBody
    BY <1>1 DEF HandleInv, BodiesParsed, IInv, Linkage, ScopesDisjoint
  <2>2. ~\E i \in 1..Gone' : TRUE
    BY <1>3
  <2> QED BY <2>1, <2>2, <1>1 DEF BodiesParsed, Defined
<1>6. Described'
  <2>1. call \in Nat /\ call' \in CallIds /\ call' > call /\ \A m \in CallIds : m > call' => m > call
    BY <1>1, MaxCallsAssumption, CallNumbers DEF IInv, CallIds
  <2> QED BY <2>1, <1>1 DEF HandleInv, Described
<1> QED BY <1>4, <1>5, <1>6 DEF HandleInv

LEMMA EnteredBody ==
    ASSUME TypeOK, BodiesParsed, NEW it \in Items, NEW n \in Names
    PROVE  Entered(it)["module"][n].hasBody <=> decls["module"][n].hasBody
<1> DEFINE d == [Undeclared EXCEPT !.declared = TRUE, !.args = it.args]
<1>1. d.hasBody = FALSE
  BY DEF Undeclared
<1> HIDE DEF d
<1>2. decls \in [Scopes -> [Names -> Decls]] /\ it.name \in Names
  BY DEF TypeOK, Items
<1>3. CASE Visible(Current, it.name)
  BY <1>3 DEF Entered
<1>4. CASE ~Visible(Current, it.name)
  <2>1. Entered(it) = [decls EXCEPT ![Current][it.name] = d]
    BY <1>4 DEF Entered, d
  <2>2. Current = "module" => ~decls["module"][it.name].declared
    BY <1>4 DEF Visible, HomeOf
  <2>3. Current = "module" => ~decls["module"][it.name].hasBody
    BY <2>2, <1>2 DEF BodiesParsed
  <2> QED BY <2>1, <2>3, <1>1, <1>2, CurrentScope
<1> QED BY <1>3, <1>4

\* Only a definition that was parsed to its end gives a function of the module a body.
LEMMA BodyEffect ==
    ASSUME TypeOK, BodiesParsed, EnterItem, NEW it, it = Head(text)
    PROVE  /\ \A n \in Names :
                 decls'["module"][n].hasBody <=>
                    \/ decls["module"][n].hasBody
                    \/ n = it.name /\ BodyScope(it) = "module" /\ it.form = "def" /\ text' = Tail(text)
           /\ text' = text \/ text' = Tail(text)
           /\ it.form = "cut" /\ BodyScope(it) = "module" => ~decls["module"][it.name].hasBody
<1> DEFINE D == Entered(it)
           b == BodyScope(it)
           old == D[b][it.name]
<1>1. /\ it \in Items /\ it.name \in Names /\ text # <<>> /\ it.args \in Nat /\ it.calls \in SUBSET Names
      /\ text' = text \/ text' = Tail(text)
  <2>1. it \in Items /\ it.name \in Names /\ text # <<>> /\ (text' = text \/ text' = Tail(text))
    BY ItemEffect
  <2> QED BY <2>1 DEF Items
<1>2. D \in [Scopes -> [Names -> Decls]] /\ b \in Scopes /\ old \in Decls
  BY <1>1, EnteredTyped, BodyScopeIn
<1>3. \A n \in Names : D["module"][n].hasBody <=> decls["module"][n].hasBody
  BY <1>1, EnteredBody
<1>4. text # Tail(text)
  <2>1. text \in Seq(Items) /\ text # <<>>
    BY <1>1 DEF TypeOK
  <2>2. Len(Tail(text)) = Len(text) - 1 /\ Len(text) \in Nat
    BY <2>1
  <2> QED BY <2>2
<1>5. it.form = "cut" /\ b = "module" => ~decls["module"][it.name].hasBody
  <2>1. ASSUME it.form = "cut", b = "module" PROVE ~decls["module"][it.name].hasBody
    <3>1. BodyAllowed(it)
      BY <2>1, ItemEffect DEF EnterItem, ParseDeclaration, ParseDefinition,
         ParseTruncatedDefinition, RefuseBody
    <3>2. CASE Visible(Current, it.name)
      BY <2>1, <3>1, <3>2 DEF BodyAllowed
    <3>3. CASE ~Visible(Current, it.name)
      <4>1. ~decls["module"][it.name].declared
        BY <2>1, <3>3 DEF BodyScope, Visible, HomeOf
      <4> QED BY <4>1, <1>1 DEF BodiesParsed
    <3> QED BY <3>2, <3>3
  <2> QED BY <2>1
<1>6. \/ /\ \A n \in Names : decls'["module"][n].hasBody <=> D["module"][n].hasBody
         /\ ~(it.form = "def" /\ text' = Tail(text))
      \/ /\ it.form = "def" /\ text' = Tail(text)
         /\ \E d \in Decls : d.hasBody = TRUE /\ decls' = [D EXCEPT ![b][it.name] = d]
  <2>1. CASE ParseDeclaration
    BY <2>1 DEF ParseDeclaration
  <2>2. CASE ParseDefinition
    <3> DEFINE d == [old EXCEPT !.started = TRUE, !.hasBody = TRUE, !.calls = it.calls]
    <3>1. d \in Decls /\ d.hasBody = TRUE
      BY <1>1, <1>2 DEF Decls
    <3>2. decls' = [D EXCEPT ![b][it.name] = d] /\ it.form = "def" /\ text' = Tail(text)
      BY <2>2, <1>1, <1>2 DEF ParseDefinition
    <3> QED BY <3>1, <3>2
  <2>3. CASE ParseTruncatedDefinition
    <3> DEFINE d == [old EXCEPT !.started = @ \/ it.args > 0]
    <3>1. d.hasBody = old.hasBody
      BY <1>1, <1>2 DEF Decls
    <3>2. decls' = [D EXCEPT ![b][it.name] = d] /\ it.form = "cut"
      BY <2>3, <1>1, <1>2 DEF ParseTruncatedDefinition
    <3> HIDE DEF d, D, b
    <3> QED BY <3>1, <3>2, <1>1, <1>2, CurrentScope DEF Decls
  <2>4. CASE RefuseBody
    <3> DEFINE d == [old EXCEPT !.started = TRUE]
    <3>1. d.hasBody = old.hasBody
      BY <1>1, <1>2 DEF Decls
    <3>2. decls' = [D EXCEPT ![b][it.name] = d] /\ text' = text
      BY <2>4, <1>1, <1>2 DEF RefuseBody
    <3> HIDE DEF d, D, b
    <3> QED BY <3>1, <3>2, <1>1, <1>2, <1>4, CurrentScope DEF Decls
  <2> QED BY <2>1, <2>2, <2>3, <2>4 DEF EnterItem
<1>7. b = BodyScope(it)
  OBVIOUS
<1> HIDE DEF D, b
<1>8. \A n \in Names :
         decls'["module"][n].hasBody <=>
            \/ decls["module"][n].hasBody
            \/ n = it.name /\ b = "module" /\ it.form = "def" /\ text' = Tail(text)
  <2>1. ASSUME it.form = "def", text' = Tail(text), NEW d \in Decls, d.hasBody = TRUE,
               decls' = [D EXCEPT ![b][it.name] = d], NEW n \in Names
        PROVE  decls'["module"][n].hasBody <=> decls["module"][n].hasBody \/ (n = it.name /\ b = "module")
    <3>1. CASE n = it.name /\ b = "module"
      BY <2>1, <3>1, <1>1, <1>2, CurrentScope
    <3>2. CASE ~(n = it.name /\ b = "module")
      <4>1. decls'["module"][n] = D["module"][n]
        BY <2>1, <3>2, <1>1, <1>2, CurrentScope
      <4> QED BY <4>1, <3>2, <1>3
    <3> QED BY <3>1, <3>2
  <2> QED BY <2>1, <1>3, <1>6
<1> QED BY <1>1, <1>5, <1>7, <1>8

\* One more item of the source is gone.
LEMMA NextItem ==
    ASSUME TypeOK, Consumed, phase = "Parse", text # <<>>, source' = source, phase' = "Parse",
           text' = Tail(text)
    PROVE  /\ Consumed' /\ Gone \in Nat /\ Gone' = Gone + 1 /\ Gone + 1 \in DOMAIN source
           /\ Gone + 1 <= Len(source) /\ source[Gone + 1] = Head(text)
           /\ \A i : i \in 1..Gone' <=> i \in 1..Gone \/ i = Gone + 1
<1>1. /\ text \in Seq(Items) /\ source \in Seq(Items) /\ Len(text) <= Len(source)
      /\ \A k \in DOMAIN text : text[k] = source[Gone + k]
      /\ source \in ModuleTexts
  BY DEF TypeOK, Consumed, Compiling
<1>2. /\ Len(text) \in Nat \ {0} /\ Len(source) \in Nat /\ Len(text') = Len(text) - 1
      /\ text[1] = Head(text) /\ 1 \in DOMAIN text
      /\ \A k \in DOMAIN text' : k \in Nat /\ k + 1 \in DOMAIN text /\ text'[k] = text[k + 1]
  BY <1>1
<1>3. Gone \in Nat /\ Gone' = Gone + 1 /\ Gone + 1 <= Len(source)
  BY <1>1, <1>2 DEF Gone
<1>4. Gone + 1 \in DOMAIN source
  <2> DEFINE g == Gone
  <2>1. g \in Nat /\ g + 1 <= Len(source)
    BY <1>3
  <2> HIDE DEF g
  <2>2. g + 1 \in DOMAIN source
    BY <1>1, <2>1
  <2> QED BY <2>2 DEF g
<1>5. source[Gone + 1] = Head(text)
  BY <1>1, <1>2
<1>6. \A k \in DOMAIN text' : text'[k] = source'[Gone' + k]
  <2>1. \A k \in DOMAIN text' : Gone' + k = Gone + (k + 1)
    BY <1>2, <1>3
  <2> QED BY <2>1, <1>1, <1>2
<1>7. Consumed'
  BY <1>1, <1>2, <1>6 DEF Consumed
<1>8. \A i : i \in 1..Gone' <=> i \in 1..Gone \/ i = Gone + 1
  BY <1>3
<1> QED BY <1>3, <1>4, <1>5, <1>7, <1>8

LEMMA HandlesEnterItem == ASSUME IInv, FrontInv, HandleInv, EnterItem PROVE HandleInv'
<1> DEFINE it == Head(text)
<1>1. /\ TypeOK /\ it \in Items /\ it.name \in Names /\ phase \in {"ParseShared", "Parse"} /\ text # <<>>
      /\ UNCHANGED <<phase, call, source, desc>>
  BY ItemEffect DEF IInv, Parsing, session, handles
<1>2. \A n \in Names :
         decls'["module"][n].hasBody <=>
            \/ decls["module"][n].hasBody
            \/ n = it.name /\ BodyScope(it) = "module" /\ it.form = "def" /\ text' = Tail(text)
  BY <1>1, BodyEffect DEF HandleInv
<1>3. text' = text \/ text' = Tail(text)
  BY <1>1, BodyEffect DEF HandleInv
<1>4. it.form = "cut" /\ BodyScope(it) = "module" => ~decls["module"][it.name].hasBody
  BY <1>1, BodyEffect DEF HandleInv
<1>5. \A n \in Names : decls["module"][n].declared => decls'["module"][n].declared
  BY <1>1, ItemEffect, EnteredTyped, CurrentScope
<1>6. BodyScope(it) = "module" => decls'["module"][it.name].declared
  BY <1>1, ItemEffect, EnteredTyped, CurrentScope DEF BodyScope, HomeOf, Visible
<1> HIDE DEF it
<1>7. \A n \in Names : decls'["module"][n].hasBody => decls'["module"][n].declared
  BY <1>2, <1>5, <1>6 DEF HandleInv, BodiesParsed
<1>8. Described'
  BY <1>1 DEF HandleInv, Described
<1>9. CASE phase = "ParseShared"
  BY <1>1, <1>7, <1>8, <1>9 DEF HandleInv, Consumed, BodiesParsed, Compiling
<1>10. CASE phase = "Parse"
  <2>1. \A n \in Names : decls'["shared"][n].declared <=> decls["shared"][n].declared
    BY <1>1, <1>10, SharedUntouched DEF FrontInv
  <2>2. BodyScope(it) = "module" <=> ~decls["shared"][it.name].declared
    BY <1>1, <1>10 DEF BodyScope, HomeOf, Visible, Current, IInv, Linkage, ScopesDisjoint
  <2>3. /\ \A n \in Names :
              decls["module"][n].hasBody <=> Defined(n) /\ ~decls["shared"][n].declared
        /\ \A i \in 1..Gone : source[i].form = "cut" => ~decls["module"][source[i].name].hasBody
    BY <1>10 DEF HandleInv, BodiesParsed, Compiling
  <2>4. CASE text' = text
    <3>1. Gone' = Gone /\ \A n : Defined(n)' <=> Defined(n)
      BY <2>4, <1>1 DEF Gone, Defined
    <3>2. Consumed'
      BY <2>4, <3>1, <1>1, <1>10 DEF HandleInv, Consumed, Compiling
    <3>3. \A n \in Names : decls'["module"][n].hasBody <=> decls["module"][n].hasBody
      <4>1. text' # Tail(text)
        <5>1. text \in Seq(Items)
          BY <1>1 DEF TypeOK
        <5>2. Len(Tail(text)) = Len(text) - 1 /\ Len(text) \in Nat
          BY <5>1, <1>1
        <5> QED BY <5>2, <2>4
      <4> QED BY <4>1, <1>2
    <3>4. \A i \in 1..Gone : source[i].name \in Names
      <4>1. source \in Seq(Items) /\ text \in Seq(Items) /\ Gone = Len(source) - Len(text)
        BY <1>1 DEF TypeOK, Gone
      <4>2. \A i \in 1..Gone : i \in DOMAIN source
        BY <4>1
      <4>3. \A i \in DOMAIN source : source[i] \in Items
        BY <4>1
      <4> QED BY <4>2, <4>3 DEF Items
    <3>5. BodiesParsed'
      BY <3>1, <3>3, <3>4, <2>1, <2>3, <1>1, <1>7 DEF BodiesParsed
    <3> QED BY <3>2, <3>5, <1>8 DEF HandleInv
  <2>5. CASE text' = Tail(text)
    <3>1. /\ Consumed' /\ Gone' = Gone + 1 /\ Gone \in Nat
          /\ Gone + 1 \in DOMAIN source /\ source[Gone + 1] = it /\ Gone + 1 <= Len(source)
          /\ \A i : i \in 1..Gone' <=> i \in 1..Gone \/ i = Gone + 1
      BY <2>5, <1>1, <1>10, NextItem DEF HandleInv, it
    <3>2. \A n \in Names : Defined(n)' <=> Defined(n) \/ (it.form = "def" /\ n = it.name)
      BY <3>1, <1>1 DEF Defined
    <3>3. \A n \in Names :
             decls'["module"][n].hasBody <=> Defined(n)' /\ ~decls'["shared"][n].declared
      BY <3>2, <2>1, <2>2, <2>3, <2>5, <1>1, <1>2
    <3>4. ASSUME NEW i \in 1..Gone', source'[i].form = "cut"
          PROVE  ~decls'["module"][source'[i].name].hasBody
      <4>1. source \in ModuleTexts /\ source' = source /\ source \in Seq(Items)
        BY <1>1, <1>10 DEF HandleInv, Consumed, Compiling, TypeOK
      <4>2. i \in Nat /\ i <= Gone + 1 /\ Len(source) \in Nat /\ i \in DOMAIN source
        BY <3>1, <4>1
      <4>3. i = Len(source)
        BY <3>4, <4>1, <4>2, CutAssumption
      <4>4. i = Gone + 1
        BY <3>1, <4>2, <4>3
      <4>5. source'[i] = it
        BY <3>1, <4>1, <4>4
      <4> QED BY <4>5, <3>4, <2>2, <2>3, <1>1, <1>2, <1>4
    <3>5. BodiesParsed'
      BY <3>3, <3>4, <1>7 DEF BodiesParsed
    <3> QED BY <3>1, <3>5, <1>8 DEF HandleInv
  <2> QED BY <2>4, <2>5, <1>3
<1> QED BY <1>1, <1>9, <1>10

LEMMA HandlesEndParseAccepted == ASSUME IInv, HandleInv, EndParseAccepted PROVE HandleInv'
<1>1. /\ phase = "Parse" /\ phase' = "Gen" /\ text = <<>> /\ next' = 1
      /\ UNCHANGED <<call, source, text, decls, order, desc, code>>
  BY DEF EndParseAccepted, Accepted, front, handles
<1>2. Gone' = Gone /\ (\A n : Defined(n)' <=> Defined(n))
  BY <1>1 DEF Gone, Defined
<1>3. Consumed' /\ BodiesParsed'
  BY <1>1, <1>2 DEF HandleInv, Consumed, BodiesParsed, Compiling
<1>4. \A n \in Names : ~Generated(n)'
  <2>1. order["module"] \in Seq(Names)
    BY CurrentScope DEF IInv, TypeOK
  <2>2. \A k \in DOMAIN order["module"] : ~(k < 1)
    BY <2>1
  <2> QED BY <2>2, <1>1 DEF Generated
<1>5. Described'
  BY <1>1, <1>4 DEF HandleInv, Described
<1> QED BY <1>3, <1>5 DEF HandleInv

LEMMA HandlesGenFunction == ASSUME IInv, HandleInv, GenFunction PROVE HandleInv'
<1> DEFINE n == order[Current][next]
<1>1. /\ n \in Names /\ FunctionFor(Current, n) = call /\ call \in CallIds
  BY GeneratedName
<1>2. /\ phase \in {"GenShared", "Gen"} /\ next <= Len(order[Current]) /\ next' = next + 1
      /\ UNCHANGED <<phase, call, source, text, decls, order>>
      /\ code \subseteq code'
  BY DEF GenFunction, Generating, session, front
<1>3. Gone' = Gone /\ \A m : Defined(m)' <=> Defined(m)
  BY <1>2 DEF Gone, Defined
<1>4. Consumed' /\ BodiesParsed'
  BY <1>2, <1>3 DEF HandleInv, Consumed, BodiesParsed, Compiling
<1>5. CASE phase = "GenShared"
  <2>1. desc' = desc
    BY <1>2, <1>5 DEF GenFunction, Current
  <2> QED BY <2>1, <1>2, <1>4, <1>5 DEF HandleInv, Described
<1>6. CASE phase = "Gen"
  <2>1. Current = "module"
    BY <1>6 DEF Current
  <2>2. \/ /\ decls["module"][n].hasBody /\ code' = code \cup {<<call, n>>}
           /\ desc' = [desc EXCEPT ![call][n] = call]
        \/ ~decls["module"][n].hasBody /\ desc' = desc
    BY <1>1, <2>1 DEF GenFunction, GeneratesBody
  <2>3. /\ desc \in [CallIds -> [Names -> Ids0]] /\ order["module"] \in Seq(Names)
        /\ next \in Nat \ {0} /\ call \in Nat /\ \A m \in CallIds : m \in Nat
    <3>1. \A m \in CallIds : m \in Nat
      BY MaxCallsAssumption DEF CallIds
    <3>2. TypeOK /\ call \in Nat
      BY CallNumbers DEF IInv
    <3> QED BY <3>1, <3>2, CurrentScope DEF TypeOK
  <2>4. n = order["module"][next]
    BY <2>1
  <2> HIDE DEF n
  <2>5. /\ next \in DOMAIN order["module"]
        /\ \A k \in DOMAIN order["module"] : k < next' <=> k < next \/ k = next
    BY <2>1, <2>3, <1>2
  <2>6. \A m \in Names : Generated(m)' <=> Generated(m) \/ (m = n /\ decls["module"][n].hasBody)
    BY <2>4, <2>5, <1>2 DEF Generated
  <2>7. /\ \A m \in CallIds, k \in Names : m # call => desc'[m][k] = desc[m][k]
        /\ \A k \in Names : k # n => desc'[call][k] = desc[call][k]
        /\ IF decls["module"][n].hasBody THEN desc'[call][n] = call /\ <<call, n>> \in code'
           ELSE desc'[call][n] = desc[call][n]
    BY <2>2, <2>3, <1>1
  <2>8. \A m \in CallIds : m > call => \A k \in Names : desc'[m][k] = 0
    <3>1. \A m \in CallIds : m > call => m # call
      BY <2>3
    <3> QED BY <3>1, <2>7 DEF HandleInv, Described
  <2>9. ASSUME NEW k \in Names
        PROVE  IF Generated(k)' THEN desc'[call][k] = call /\ <<call, k>> \in code' ELSE desc'[call][k] = 0
    <3>1. IF Generated(k) THEN desc[call][k] = call /\ <<call, k>> \in code ELSE desc[call][k] = 0
      BY <1>6 DEF HandleInv, Described
    <3>2. CASE k = n /\ decls["module"][n].hasBody
      BY <3>2, <2>6, <2>7
    <3>3. CASE ~(k = n /\ decls["module"][n].hasBody)
      <4>1. Generated(k)' <=> Generated(k)
        BY <3>3, <2>6
      <4>2. desc'[call][k] = desc[call][k]
        BY <3>3, <2>7
      <4> QED BY <3>1, <4>1, <4>2, <1>2
    <3> QED BY <3>2, <3>3
  <2>10. Described'
    BY <2>8, <2>9, <1>2, <1>6 DEF Described
  <2> QED BY <2>10, <1>4 DEF HandleInv
<1> QED BY <1>2, <1>5, <1>6

LEMMA HandleStep == IInv /\ FrontInv /\ HandleInv /\ [Next]_vars => HandleInv'
<1> SUFFICES ASSUME IInv, FrontInv, HandleInv, [Next]_vars PROVE HandleInv'
  OBVIOUS
<1>1. CASE UNCHANGED vars
  BY <1>1, HandlesKeptSteps
<1>2. CASE ClientCall
  BY <1>2, HandlesKeptSteps, HandlesEmptied, HandlesCompile DEF ClientCall
<1>3. CASE Work
  BY <1>3, HandlesKeptSteps, HandlesEnterItem, HandlesEndParseAccepted, HandlesEmptied,
     HandlesGenFunction DEF Work, EnterItem
<1> QED BY <1>1, <1>2, <1>3 DEF Next

\* What the invariant says when the last expression has been generated.
LEMMA HandlesComplete == IInv /\ FrontInv /\ HandleInv => HandlesOfOwnDefinitions
<1> SUFFICES ASSUME IInv, FrontInv, HandleInv, phase = "Gen", next > Len(order["module"])
             PROVE  HandlesOfOwnDefinitions
  BY DEF HandlesOfOwnDefinitions
<1> DEFINE Cut == {source[i].name : i \in {j \in DOMAIN source : source[j].form = "cut"}}
           Own == (DefinedIn(source) \ SharedNames) \ Cut
<1>1. /\ source \in Seq(Items) /\ text = <<>> /\ order["module"] \in Seq(Names) /\ next \in Nat
      /\ \A i \in DOMAIN source : source[i] \in Items
  <2>1. source \in Seq(Items) /\ order["module"] \in Seq(Names) /\ next \in Nat
    BY CurrentScope DEF IInv, TypeOK
  <2>2. text = <<>>
    BY DEF HandleInv, Consumed, Compiling
  <2>3. \A i \in DOMAIN source : source[i] \in Items
    BY <2>1
  <2> QED BY <2>1, <2>2, <2>3
<1>2. Gone = Len(source) /\ DOMAIN source = 1..Gone
  BY <1>1 DEF Gone
<1>3. \A i \in DOMAIN source : source[i].name \in Names
  BY <1>1 DEF Items
<1>4. /\ \A n \in Names :
            decls["module"][n].hasBody <=> Defined(n) /\ ~decls["shared"][n].declared
      /\ \A i \in DOMAIN source : source[i].form = "cut" => ~decls["module"][source[i].name].hasBody
      /\ \A n \in Names : decls["module"][n].hasBody => decls["module"][n].declared
  BY <1>2 DEF HandleInv, BodiesParsed, Compiling
<1>5. ASSUME NEW n \in Names PROVE Generated(n) <=> decls["module"][n].hasBody
  <2>1. ASSUME decls["module"][n].hasBody
        PROVE  \E k \in DOMAIN order["module"] : k < next /\ order["module"][k] = n
    <3>1. PICK k \in DOMAIN order["module"] : order["module"][k] = n
      BY <2>1, <1>4, CurrentScope DEF FrontInv, AllListed
    <3>2. k < next
      BY <1>1
    <3> QED BY <3>1, <3>2
  <2> QED BY <2>1 DEF Generated
<1>6. ASSUME NEW n \in Names PROVE decls["module"][n].hasBody <=> n \in Own
  <2>1. ASSUME decls["module"][n].hasBody PROVE n \in Own
    <3>1. PICK i \in 1..Gone : source[i].form = "def" /\ source[i].name = n
      BY <2>1, <1>4 DEF Defined
    <3>2. n \in DefinedIn(source)
      BY <3>1, <1>2 DEF DefinedIn
    <3>3. n \notin SharedNames /\ n \notin Cut
      BY <2>1, <1>4 DEF SharedNames
    <3> QED BY <3>2, <3>3
  <2>2. ASSUME n \in Own PROVE decls["module"][n].hasBody
    <3>1. PICK i \in DOMAIN source : source[i].form \in {"def", "cut"} /\ source[i].name = n
      BY <2>2 DEF DefinedIn
    <3>2. source[i].form # "cut"
      BY <2>2, <3>1
    <3>3. ~decls["shared"][n].declared
      BY <2>2 DEF SharedNames
    <3> QED BY <3>1, <3>2, <3>3, <1>2, <1>4 DEF Defined
  <2> QED BY <2>1, <2>2
<1>7. \A n \in Own : n \in Names
  BY <1>3 DEF DefinedIn
<1>8. \A n \in Names :
         IF Generated(n) THEN desc[call][n] = call /\ <<call, n>> \in code ELSE desc[call][n] = 0
  BY DEF HandleInv, Described
<1>9. call # 0
  BY MaxCallsAssumption DEF IInv, CallIds
<1> HIDE DEF Own
<1>10. {n \in Names : desc[call][n] # 0} = Own
  BY <1>5, <1>6, <1>7, <1>8, <1>9
<1>11. \A n \in Own : desc[call][n] = call /\ <<call, n>> \in code
  BY <1>5, <1>6, <1>7, <1>8
<1> QED BY <1>10, <1>11 DEF HandlesOfOwnDefinitions, Own

\* The client of a module that compiled finds a handle for every function its text
\* defines, but the shared ones, and for no other, whatever the text and the calls
\* before; and the Function behind the handle is that module's.
THEOREM HandlesAreOwn == Spec => []HandlesOfOwnDefinitions
<1>1. Spec => [](IInv /\ FrontInv)
  BY InitInv, NextInv, FrontInit, FrontStep, PTL DEF Spec
<1>2. Spec => []HandleInv
  BY <1>1, HandleInit, HandleStep, PTL DEF Spec
<1> QED BY <1>1, <1>2, HandlesComplete, PTL
=============================================================================
