----------------------------- MODULE KscSession -----------------------------
(***************************************************************************)
(* The life of a KSC session behind the C API of SC_API.cpp: the shared    *)
(* ("predefined") domain that KSC_Initialize parses and generates, the     *)
(* compilation of module sources by KSC_Compile (first every top-level     *)
(* declaration is parsed, then code is generated expression by             *)
(* expression), the symbols of KSC_AddExternalFunction, the JIT request of *)
(* KSC_GetFunctionPtr and KSC_Destory.                                     *)
(*                                                                         *)
(* A source text is a sequence of top-level items.  An item declares or    *)
(* defines a function with a number of arguments and a set of callees, or  *)
(* is a piece of text the parser refuses.  Structures and the inside of    *)
(* function bodies are the business of other modules.                      *)
(***************************************************************************)
EXTENDS Naturals, Sequences

CONSTANTS
    Names,        \* function names
    Intrinsics,   \* the names KSC_Initialize declares and registers itself, in order
    ModuleTexts,  \* the texts a client passes to KSC_Compile
    SharedTexts,  \* the texts a client passes to KSC_Initialize
    MaxCalls,     \* bound: number of Initialize/Compile/GetFunctionPtr/Destory calls
    Reinit        \* may the client initialise or destroy the session again?

Scopes == {"shared", "module"}      \* s_predefineDomain, and scDomain of KSC_Compile
CallIds == 1..MaxCalls
FnIds == CallIds \X Names           \* llvm::Function*: <<the call that created it, name>>

\* "decl":  T n(args);         "def":   T n(args) { body }
\* "cut":   T n(args) {        at the very end of the text
\* "noisy": text refused with a message, "mute": text refused without one
Forms == {"decl", "def", "cut", "noisy", "mute"}
Items == [form : Forms, name : Names, args : Nat, calls : SUBSET Names]

ASSUME NamesAssumption == Intrinsics \in Seq(Names) /\ Intrinsics # <<>>
ASSUME MaxCallsAssumption == MaxCalls \in Nat \ {0}
ASSUME ReinitAssumption == Reinit \in BOOLEAN
ASSUME TextsAssumption == ModuleTexts \cup SharedTexts \subseteq Seq(Items)
\* Only the end of a text can cut a definition off.
ASSUME CutAssumption ==
    \A t \in ModuleTexts \cup SharedTexts : \A i \in DOMAIN t : t[i].form = "cut" => i = Len(t)

\* Exp_FunctionDecl: `started' is mExpressions being non-empty, which a body that
\* failed half way leaves behind.
Decls == [declared : BOOLEAN, args : Nat, started : BOOLEAN,
          hasBody : BOOLEAN, calls : SUBSET Names]
Undeclared == [declared |-> FALSE, args |-> 0, started |-> FALSE,
               hasBody |-> FALSE, calls |-> {}]

VARIABLES
    call,      \* the number of the current or last call
    phase,     \* what the current call is doing
    failed,    \* did the last call return NULL or false?
    lastErr,   \* the call whose text s_lastErrMsg holds, 0 if none
    engine,    \* CG_Context::TheExecutionEngine: "null", "live" or "dangling"
    ready,     \* did the last KSC_Initialize return true, with no KSC_Destory since?
    symbols,   \* CG_Context::sGlobalFuncSymbols
    source,    \* the sourceCode argument of the current KSC_Compile
    text,      \* what the CompilingContext has still to parse
    noisy,     \* is mErrorMessages non-empty?
    decls,     \* mDefinedFunctions of both domains
    order,     \* mExpressions of both domains
    baseline,  \* Expression::s_instances when KSC_Compile was entered (shared part)
    next,      \* the expression CompileToIR has reached
    ctx,       \* mFuncDecls of s_predefineCtx and of cgCtx: the Function's creator, 0 if none
    code,      \* functions of TheModule that have a body
    mapped,    \* functions given an address by addGlobalMapping
    binds,     \* call instructions: <<caller, callee>>
    modules,   \* s_modules
    live,      \* module descriptors not deleted yet
    desc,      \* mFunctionDesc of each module: the Function's creator, 0 if none
    pending,   \* functions the JIT has still to emit
    jitted,    \* functions the JIT has emitted
    assertion  \* "none", or the assertion or fatal error that stopped the program

session == <<call, phase, failed, lastErr, engine, ready, symbols, assertion>>
front == <<source, text, noisy, decls, order, baseline>>
back == <<next, ctx, code, mapped, binds>>
handles == <<modules, live, desc>>
jit == <<pending, jitted>>
vars == <<session, front, back, handles, jit>>

-----------------------------------------------------------------------------
(* Lookups through the parent chain of CodeDomain and of CG_Context.       *)

Current == IF phase \in {"ParseShared", "GenShared"} THEN "shared" ELSE "module"

HomeOf(s, n) == IF s = "module" /\ ~decls["module"][n].declared THEN "shared" ELSE s
Visible(s, n) == decls[HomeOf(s, n)][n].declared

\* CG_Context::GetFuncDeclByName: the context's own map, then its parent's.
FuncOf(c, s, n) == IF s = "module" /\ c["module"][n] = 0 THEN c["shared"][n] ELSE c[s][n]

EmptyDomain == [n \in Names |-> Undeclared]
EmptyCtx == [n \in Names |-> 0]

Init ==
    /\ call = 0 /\ phase = "Idle" /\ failed = FALSE /\ lastErr = 0
    /\ engine = "null" /\ ready = FALSE /\ symbols = {} /\ assertion = "none"
    /\ source = <<>> /\ text = <<>> /\ noisy = FALSE /\ baseline = {}
    /\ decls = [s \in Scopes |-> EmptyDomain]
    /\ order = [s \in Scopes |-> <<>>]
    /\ next = 1 /\ ctx = [s \in Scopes |-> EmptyCtx]
    /\ code = {} /\ mapped = {} /\ binds = {}
    /\ modules = {} /\ live = {} /\ desc = [m \in CallIds |-> EmptyCtx]
    /\ pending = {} /\ jitted = {}

\* A failing assert() or a fatal error of LLVM ends the program.
Abort(why) ==
    /\ phase' = "Aborted" /\ assertion' = why

Return(ok) ==
    /\ phase' = "Idle" /\ failed' = ~ok

-----------------------------------------------------------------------------
(* Calls of the client.                                                    *)

Idle == phase = "Idle" /\ call < MaxCalls

AddExternalFunction(n) ==
    /\ Idle /\ n \notin symbols
    /\ symbols' = symbols \cup {n}
    /\ failed' = FALSE
    /\ UNCHANGED <<call, phase, lastErr, engine, ready, assertion, front, back, handles, jit>>

IntrinsicText ==
    [i \in DOMAIN Intrinsics |->
        [form |-> "decl", name |-> Intrinsics[i], args |-> 1, calls |-> {}]]

\* InitializeCodeGen returns false when LLVM gives no execution engine.
InitializeWithoutEngine ==
    /\ Idle /\ engine = "null"
    /\ call' = call + 1 /\ failed' = TRUE
    /\ UNCHANGED <<phase, lastErr, engine, ready, symbols, assertion, front, back,
                   handles, jit>>

\* KSC_Initialize: a new engine, the intrinsics are registered, and their
\* declarations are parsed in front of the shared text.  A client initialises once;
\* it may try again when KSC_Initialize returned false, and with Reinit also when it
\* returned true and after KSC_Destory.
Initialize(shared) ==
    /\ Idle
    /\ Reinit \/ (~ready /\ engine # "dangling")
    /\ call' = call + 1 /\ phase' = "ParseShared"
    /\ engine' = "live" /\ ready' = FALSE
    /\ symbols' = symbols \cup {Intrinsics[i] : i \in DOMAIN Intrinsics}
    /\ text' = IntrinsicText \o shared /\ noisy' = FALSE
    /\ decls' = [decls EXCEPT !["shared"] = EmptyDomain]
    /\ order' = [order EXCEPT !["shared"] = <<>>]
    /\ UNCHANGED <<failed, lastErr, assertion, source, baseline, back, handles, jit>>

\* KSC_Compile, up to the call of CompilingContext::Parse.
Compile(src) ==
    /\ Idle /\ ready
    /\ call' = call + 1 /\ phase' = "Parse"
    /\ source' = src /\ text' = src /\ noisy' = FALSE
    /\ baseline' = {n \in Names : decls["shared"][n].started}
    /\ UNCHANGED <<failed, lastErr, engine, ready, symbols, assertion, decls, order,
                   back, handles, jit>>

\* KSC_GetFunctionHandleByName and KSC_GetFunctionPtr on a module that was not
\* destroyed: no descriptor, or a wrapper that verifyFunction (external) does not
\* accept, gives NULL; else the JIT starts.
GetFunctionPtr(m, n) ==
    /\ Idle /\ ready /\ m \in live
    /\ call' = call + 1
    /\ \/ /\ failed' = TRUE
          /\ UNCHANGED <<phase, pending>>
       \/ /\ desc[m][n] # 0
          /\ phase' = "Jit" /\ pending' = {<<desc[m][n], n>>}
          /\ UNCHANGED failed
    /\ UNCHANGED <<lastErr, engine, ready, symbols, assertion, front, back, handles, jitted>>

\* KSC_Destory deletes every descriptor of s_modules, the pass manager and the
\* engine; s_modules and s_predefineCtx keep what they hold.
Destory ==
    /\ Idle
    /\ engine = "live" \/ Reinit
    /\ call' = call + 1 /\ ready' = FALSE
    /\ IF modules \subseteq live /\ engine # "dangling"
       THEN /\ engine' = IF engine = "live" THEN "dangling" ELSE engine
            /\ live' = live \ modules
            /\ code' = {} /\ mapped' = {} /\ binds' = {} /\ jitted' = {}
            /\ failed' = FALSE
            /\ UNCHANGED <<phase, assertion>>
       ELSE /\ Abort("deleted twice")
            /\ UNCHANGED <<failed, engine, live, code, mapped, binds, jitted>>
    /\ UNCHANGED <<lastErr, symbols, front, next, ctx, modules, desc, pending>>

-----------------------------------------------------------------------------
(* Parsing: ParseSingleExpression once per item, in ParsePartial for the   *)
(* shared text and in Parse for a module.                                  *)

Parsing == phase \in {"ParseShared", "Parse"} /\ ~noisy

\* Exp_FunctionDecl::Parse up to the body: a name seen for the first time is
\* entered in the current domain before its body is parsed.
Entered(it) ==
    IF Visible(Current, it.name)
    THEN decls
    ELSE [decls EXCEPT ![Current][it.name] =
             [Undeclared EXCEPT !.declared = TRUE, !.args = it.args]]
Listed_InParent(it) ==
    IF Visible(Current, it.name)
    THEN order
    ELSE [order EXCEPT ![HomeOf(Current, it.name)] = Append(@, it.name)]
Listed(it) ==
    IF Visible(Current, it.name)
    THEN order
    ELSE [order EXCEPT ![Current] = Append(@, it.name)]

SamePrototype(it) ==
    Visible(Current, it.name) =>
        decls[HomeOf(Current, it.name)][it.name].args = it.args

\* The domain whose declaration an item's body belongs to; the body's names are
\* looked up from there.
BodyScope(it) == IF Visible(Current, it.name) THEN HomeOf(Current, it.name) ELSE Current

CalleesKnown(it) ==
    \A n \in it.calls : n = it.name \/ Visible(BodyScope(it), n)

\* Only a declaration without a body may be given one, and not when an earlier
\* attempt left expressions in it.
BodyAllowed(it) ==
    LET d == decls[BodyScope(it)][it.name] IN
        Visible(Current, it.name) => ~d.hasBody /\ ~d.started

ParseDeclaration ==
    /\ Parsing /\ text # <<>>
    /\ Head(text).form = "decl" /\ SamePrototype(Head(text))
    /\ decls' = Entered(Head(text)) /\ order' = Listed(Head(text))
    /\ text' = Tail(text)
    /\ UNCHANGED <<session, source, noisy, baseline, back, handles, jit>>

ParseDefinition ==
    LET it == Head(text) IN
    /\ Parsing /\ text # <<>>
    /\ it.form = "def" /\ SamePrototype(it) /\ BodyAllowed(it) /\ CalleesKnown(it)
    /\ decls' = [Entered(it) EXCEPT ![BodyScope(it)][it.name].started = TRUE,
                                    ![BodyScope(it)][it.name].hasBody = TRUE,
                                    ![BodyScope(it)][it.name].calls = it.calls]
    /\ order' = Listed(it)
    /\ text' = Tail(text)
    /\ UNCHANGED <<session, source, noisy, baseline, back, handles, jit>>

\* The text ends right behind the "{": ParseCodeDomain returns false without a
\* message, the loop ends, and at the end of the text that counts as success.
ParseTruncatedDefinition ==
    LET it == Head(text) IN
    /\ Parsing /\ text # <<>>
    /\ it.form = "cut" /\ SamePrototype(it) /\ BodyAllowed(it)
    /\ decls' = [Entered(it) EXCEPT ![BodyScope(it)][it.name].started = @ \/ it.args > 0]
    /\ order' = Listed(it)
    /\ text' = Tail(text)
    /\ UNCHANGED <<session, source, noisy, baseline, back, handles, jit>>

\* A body that calls an unknown function is refused, but what was entered stays.
RefuseBody ==
    LET it == Head(text) IN
    /\ Parsing /\ text # <<>>
    /\ it.form = "def" /\ SamePrototype(it) /\ BodyAllowed(it) /\ ~CalleesKnown(it)
    /\ decls' = [Entered(it) EXCEPT ![BodyScope(it)][it.name].started = TRUE]
    /\ order' = Listed(it)
    /\ noisy' = TRUE
    /\ UNCHANGED <<session, source, text, baseline, back, handles, jit>>

\* Another prototype, a second body, or text that is no declaration at all.
RefuseItem ==
    LET it == Head(text) IN
    /\ Parsing /\ text # <<>>
    /\ \/ it.form \in {"decl", "def", "cut"} /\ ~SamePrototype(it)
       \/ it.form \in {"def", "cut"} /\ SamePrototype(it) /\ ~BodyAllowed(it)
       \/ it.form = "noisy"
    /\ noisy' = TRUE
    /\ UNCHANGED <<session, source, text, decls, order, baseline, back, handles, jit>>

ParseLoopEnds_OnlyAtEnd == noisy \/ text = <<>>
ParseLoopEnds == ~noisy /\ text # <<>> => Head(text).form = "mute"

Accepted == text = <<>> /\ ~noisy       \* IsEOF() && mErrorMessages.empty()

EndParseShared ==
    /\ phase = "ParseShared" /\ ParseLoopEnds
    /\ IF Accepted
       THEN phase' = "GenShared" /\ next' = 1 /\ UNCHANGED failed
       ELSE Return(FALSE) /\ UNCHANGED next
    /\ UNCHANGED <<call, lastErr, engine, ready, symbols, assertion, front,
                   ctx, code, mapped, binds, handles, jit>>

\* The assertion at the end of KSC_Compile counts the Expression objects; those
\* of the module are gone by then, those left in the shared domain are not.
SharedInstances(d) == {n \in Names : d["shared"][n].started}

\* PrintErrorMessage writes s_lastErrMsg only when there is a message.
EndParseRejected ==
    /\ phase = "Parse" /\ ParseLoopEnds /\ ~Accepted
    /\ lastErr' = IF noisy THEN call ELSE lastErr
    /\ decls' = [decls EXCEPT !["module"] = EmptyDomain]
    /\ order' = [order EXCEPT !["module"] = <<>>]
    /\ IF SharedInstances(decls) = baseline
       THEN Return(FALSE) /\ UNCHANGED assertion
       ELSE Abort("instances leaked") /\ UNCHANGED failed
    /\ UNCHANGED <<call, engine, ready, symbols, source, text, noisy, baseline, back, handles, jit>>

EndParseAccepted_FromZero ==
    /\ phase = "Parse" /\ ParseLoopEnds /\ Accepted
    /\ phase' = "Gen" /\ next' = 0
    /\ ctx' = [ctx EXCEPT !["module"] = EmptyCtx]
    /\ UNCHANGED <<call, failed, lastErr, engine, ready, symbols, assertion, front,
                   code, mapped, binds, handles, jit>>
EndParseAccepted ==
    /\ phase = "Parse" /\ ParseLoopEnds /\ Accepted
    /\ phase' = "Gen" /\ next' = 1
    /\ ctx' = [ctx EXCEPT !["module"] = EmptyCtx]
    /\ UNCHANGED <<call, failed, lastErr, engine, ready, symbols, assertion, front,
                   code, mapped, binds, handles, jit>>

-----------------------------------------------------------------------------
(* Code generation: Exp_FunctionDecl::GenerateCode once per expression of  *)
(* the domain, into s_predefineCtx or into the module's cgCtx.             *)

Generating == phase \in {"GenShared", "Gen"} /\ next <= Len(order[Current])

\* The Function of a declaration: one found in the contexts, else a new one.
FunctionFor_ByName(s, n) ==
    IF \E k \in CallIds : <<k, n>> \in code
    THEN CHOOSE k \in CallIds : <<k, n>> \in code
    ELSE call
FunctionFor(s, n) == IF FuncOf(ctx, s, n) # 0 THEN FuncOf(ctx, s, n) ELSE call

CtxWith(s, n) == [ctx EXCEPT ![s][n] = FunctionFor(s, n)]

\* AddFunctionDecl comes before the body is generated: a recursive call finds itself.
CalleeIn_Before(s, n, c) == FuncOf(ctx, s, c)
CalleeIn(s, n, c) == FuncOf(CtxWith(s, n), s, c)

GeneratesBody_AnyExpression(s, n) == decls[s][n].started
GeneratesBody(s, n) == decls[s][n].hasBody

GenFunction ==
    LET s == Current
        n == order[s][next]
        f == <<FunctionFor(s, n), n>>
        callees == {<<CalleeIn(s, n, c), c>> : c \in decls[s][n].calls}
    IN  /\ Generating
        /\ ctx[s][n] = 0
        /\ \A g \in callees : g[1] # 0
        /\ ctx' = CtxWith(s, n)
        /\ \/ /\ GeneratesBody(s, n)
              /\ code' = code \cup {f} /\ binds' = binds \cup {<<f, g>> : g \in callees}
              /\ desc' = IF s = "module" THEN [desc EXCEPT ![call][n] = f[1]] ELSE desc
              /\ UNCHANGED mapped
           \/ /\ ~GeneratesBody(s, n)
              /\ mapped' = IF n \in symbols THEN mapped \cup {f} ELSE mapped
              /\ UNCHANGED <<code, binds, desc>>
        /\ next' = next + 1
        /\ UNCHANGED <<session, front, modules, live, jit>>

\* assert(mFuncDecls.find(funcName) == mFuncDecls.end()) in AddFunctionDecl, and
\* assert(pF) in Exp_FunctionCall::GenerateCode.
GenAssertionFails ==
    LET s == Current
        n == order[s][next]
    IN  /\ Generating
        /\ \/ ctx[s][n] # 0 /\ Abort("declared twice")
           \/ /\ ctx[s][n] = 0
              /\ \E c \in decls[s][n].calls : CalleeIn(s, n, c) = 0
              /\ Abort("callee not generated")
        /\ UNCHANGED <<call, failed, lastErr, engine, ready, symbols, front, back, handles, jit>>

EndInitialize ==
    /\ phase = "GenShared" /\ next > Len(order["shared"])
    /\ ready' = TRUE /\ Return(TRUE)
    /\ UNCHANGED <<call, lastErr, engine, symbols, assertion, front, back, handles, jit>>

PushModule_Dropped == modules
PushModule == modules \cup {call}

\* s_modules.push_back, the module's domain and context are deleted, and the
\* number of Expression objects is asserted.
EndCompile ==
    /\ phase = "Gen" /\ next > Len(order["module"])
    /\ modules' = PushModule /\ live' = live \cup {call}
    /\ decls' = [decls EXCEPT !["module"] = EmptyDomain]
    /\ order' = [order EXCEPT !["module"] = <<>>]
    /\ ctx' = [ctx EXCEPT !["module"] = EmptyCtx]
    /\ IF SharedInstances(decls) = baseline
       THEN Return(TRUE) /\ UNCHANGED assertion
       ELSE Abort("instances leaked") /\ UNCHANGED failed
    /\ UNCHANGED <<call, lastErr, engine, ready, symbols, source, text, noisy, baseline, next,
                   code, mapped, binds, desc, jit>>

-----------------------------------------------------------------------------
(* The JIT of LLVM (external): getPointerToFunction emits the function and *)
(* whatever it calls.  Symbol searching is disabled, so a function that    *)
(* has neither a body nor a mapping is a fatal error.                      *)

CalleesOf_WithCode(f) == {b[2] : b \in {b \in binds : b[1] = f /\ b[2] \in code}}
CalleesOf(f) == {b[2] : b \in {b \in binds : b[1] = f}}

Emit(f) ==
    /\ phase = "Jit" /\ f \in pending
    /\ f \in code \cup mapped
    /\ jitted' = jitted \cup {f}
    /\ pending' = (pending \cup CalleesOf(f)) \ jitted'
    /\ UNCHANGED <<session, front, back, handles>>

UnresolvedSymbol(f) ==
    /\ phase = "Jit" /\ f \in pending
    /\ f \notin code \cup mapped
    /\ Abort("unresolved symbol")
    /\ UNCHANGED <<call, failed, lastErr, engine, ready, symbols, front, back, handles, jit>>

EndGetFunctionPtr ==
    /\ phase = "Jit" /\ pending = {}
    /\ Return(TRUE)
    /\ UNCHANGED <<call, lastErr, engine, ready, symbols, assertion, front, back, handles, jit>>

-----------------------------------------------------------------------------
ClientCall ==
    \/ \E n \in Names : AddExternalFunction(n)
    \/ \E shared \in SharedTexts : Initialize(shared)
    \/ InitializeWithoutEngine
    \/ \E src \in ModuleTexts : Compile(src)
    \/ \E m \in CallIds, n \in Names : GetFunctionPtr(m, n)
    \/ Destory

\* What KSC does within a call it has been given.
Work ==
    \/ ParseDeclaration \/ ParseDefinition \/ ParseTruncatedDefinition
    \/ RefuseBody \/ RefuseItem
    \/ EndParseShared \/ EndParseRejected \/ EndParseAccepted
    \/ GenFunction \/ GenAssertionFails \/ EndInitialize \/ EndCompile
    \/ \E f \in FnIds : Emit(f) \/ UnresolvedSymbol(f)
    \/ EndGetFunctionPtr

Next == ClientCall \/ Work

\* KSC runs in the client's thread: a call it has been given it carries on with.
Spec == Init /\ [][Next]_vars /\ WF_vars(Work)

-----------------------------------------------------------------------------
(* What the session promises.                                              *)

Ids0 == 0..MaxCalls

\* The state variables hold values of their C++ types.
TypeOK ==
    /\ call \in Ids0 /\ lastErr \in Ids0
    /\ phase \in {"Idle", "ParseShared", "GenShared", "Parse", "Gen", "Jit", "Aborted"}
    /\ failed \in BOOLEAN /\ ready \in BOOLEAN /\ noisy \in BOOLEAN
    /\ engine \in {"null", "live", "dangling"}
    /\ symbols \subseteq Names /\ baseline \subseteq Names
    /\ source \in Seq(Items) /\ text \in Seq(Items)
    /\ decls \in [Scopes -> [Names -> Decls]]
    /\ order \in [Scopes -> Seq(Names)]
    /\ next \in Nat \ {0}
    /\ ctx \in [Scopes -> [Names -> Ids0]]
    /\ code \subseteq FnIds /\ mapped \subseteq FnIds /\ binds \subseteq FnIds \X FnIds
    /\ modules \subseteq CallIds /\ live \subseteq CallIds
    /\ desc \in [CallIds -> [Names -> Ids0]]
    /\ pending \subseteq FnIds /\ jitted \subseteq FnIds
    /\ assertion \in {"none", "deleted twice", "instances leaked", "declared twice",
                      "callee not generated", "unresolved symbol"}

\* Modules share nothing but the shared domain: a call instruction of a module
\* leads to a function of the same module or of the shared domain, never to one
\* that another KSC_Compile generated.
CallsStayInModule ==
    \A b \in binds : b[2][1] = b[1][1] \/ b[2][1] = ctx["shared"][b[2][2]]

\* A module may define a function that the shared text declares.
DefinedIn(src) == {src[i].name : i \in {j \in DOMAIN src : src[j].form \in {"def", "cut"}}}
SharedNames == {n \in Names : decls["shared"][n].declared}
DefinesShared == DefinedIn(source) \cap SharedNames # {}

\* A module that compiled has a handle for every function its text defines, but the
\* shared ones, and for no other; the Function behind the handle is its own.
HandlesOfOwnDefinitions ==
    phase = "Gen" /\ next > Len(order["module"]) =>
        LET Cut == {source[i].name : i \in {j \in DOMAIN source : source[j].form = "cut"}}
            Own == (DefinedIn(source) \ SharedNames) \ Cut
        IN  /\ {n \in Names : desc[call][n] # 0} = Own
            /\ \A n \in Own : desc[call][n] = call /\ <<call, n>> \in code

\* A source that was refused leaves nothing behind: every generated function
\* belongs to a module the client was given, to the shared domain, or to the
\* module being generated; and no module comes with a message.
NoCodeOfRefusedSources ==
    /\ lastErr \notin modules
    /\ \A f \in code \cup mapped :
          \/ f[1] \in modules \/ f[1] = ctx["shared"][f[2]]
          \/ phase \in {"Gen", "Aborted"} /\ f[1] = call

\* A pointer is handed out only when everything its code reaches was emitted.
PointersComplete ==
    phase = "Idle" =>
        \A f \in jitted :
            /\ f \in code \cup mapped
            /\ \A b \in binds : b[1] = f => b[2] \in jitted

\* Once KSC_Initialize has returned, compiling a module leaves the declarations,
\* expressions and functions of the shared domain alone, unless the module defines
\* a function that the shared text declares.
SharedDomainFrozen ==
    [][ready /\ ready' /\ ~DefinesShared =>
         UNCHANGED <<decls["shared"], order["shared"], ctx["shared"]>>]_vars

\* The assertions of KSC fail for these reasons only: AddFunctionDecl's on a name of
\* an earlier session, Exp_FunctionCall's on a callee that is listed behind its
\* caller, KSC_Compile's on a module that defines a shared function.
CalledAhead(s) ==
    \E k, l \in DOMAIN order[s] : k < l /\ order[s][l] \in decls[s][order[s][k]].calls
StopsExplained ==
    /\ assertion = "declared twice" => \E n \in Names : ctx["shared"][n] \notin {0, call}
    /\ assertion = "callee not generated" => \E s \in Scopes : CalledAhead(s)
    /\ assertion = "instances leaked" => DefinesShared

\* Every call of the client returns, or the program has stopped.
CallsReturn == phase # "Idle" ~> phase \in {"Idle", "Aborted"}
=============================================================================
