---------------------------- MODULE Declarations ----------------------------
(***************************************************************************)
(* What a name stands for.  The parser keeps a CodeDomain per scope and     *)
(* resolves names to definitions; the code generator, later and in another *)
(* order, keeps a CG_Context per scope and looks names up again by their    *)
(* spelling.  A source declares external types, structures and one function *)
(* whose body nests if and for statements, defines variables and structures *)
(* and refers to variables; it is parsed declaration by declaration, and    *)
(* what the generator would visit is kept in `code' in the order of its     *)
(* visits.  `meaning' is what C says of the source's names.                 *)
(***************************************************************************)
EXTENDS Integers, SequencesExt

CONSTANTS Names,      \* identifiers, of types, variables and arguments
          Lists,      \* argument lists: sequences of a name and the name of a type
          MaxDefs,    \* bound: definitions of the source
          MaxSize     \* bound: references, if and for statements, external types

Types == Names \cup {"int"}
ASSUME ListsAssumption == "int" \notin Names /\ Lists \subseteq Seq(Names \X Types)
ASSUME BoundsAssumption == MaxDefs \in Nat /\ MaxSize \in Nat

\* Definitions are numbered.  A type is a structure's number, or:
NoDef == 0
External == -1
BuiltIn == -2

VARIABLES
    phase,    \* "parse", "generate", "done", "refused", or an assertion "stopped" it
    defs,     \* the definitions, by number
    domains,  \* the open CodeDomains, outermost first
    meaning,  \* for each of them: the definition of each name, as C has it
    function, \* the function: its arguments as first declared
    exprs,    \* the root domain's mExpressions: structures, and NoDef for the function
    blocks,   \* the open statements of the body
    pending,  \* Exp_VarDef::Parse: definitions read but not yet in the domain
    size,     \* references, statements and external types so far
    code,     \* what generation visits in the body
    ctx,      \* generation: the open CG_Contexts, outermost first
    found     \* generation: the reference or variable visited last

parsing == <<domains, meaning, function, exprs, blocks, pending, size>>
vars == <<phase, defs, parsing, code, ctx, found>>

NoName == [n \in Names |-> NoDef]
Domain == [vars |-> NoName, structs |-> NoName, externs |-> {}]
NoFunction == [declared |-> FALSE, args |-> <<>>, hasBody |-> FALSE, renamed |-> FALSE]
NothingPending == [open |-> FALSE, type |-> BuiltIn, ids |-> <<>>]
Visit(op, id) == [op |-> op, id |-> id, name |-> "", meant |-> NoDef, own |-> FALSE]
Block(kind) == [kind |-> kind, use |-> Visit("none", NoDef)]
NothingFound == [visit |-> Visit("none", NoDef), storage |-> NoDef, typed |-> TRUE]

Init ==
    /\ phase = "parse" /\ defs = <<>>
    /\ domains = <<Domain>> /\ meaning = <<NoName>>
    /\ function = NoFunction /\ exprs = <<>> /\ blocks = <<>>
    /\ pending = NothingPending /\ size = 0 /\ code = <<>>
    /\ ctx = <<>> /\ found = NothingFound

-----------------------------------------------------------------------------
(* Lookups along the chain of domains or contexts                           *)

Nearest(maps, n) ==
    LET where == {i \in DOMAIN maps : maps[i][n] # NoDef}
    IN  IF where = {} THEN NoDef ELSE maps[Max(where)][n]

VarMaps == [i \in DOMAIN domains |-> domains[i].vars]
GetStructDefineByName(n) == Nearest([i \in DOMAIN domains |-> domains[i].structs], n)
IsTypeDefined(n) ==
    GetStructDefineByName(n) # NoDef \/ \E i \in DOMAIN domains : n \in domains[i].externs
IsVariableDefined(n) == Nearest(VarMaps, n) # NoDef

\* ExpectTypeAndEat, Exp_VarDef::Parse: a structure of the name goes before an external type.
IsType(t) == t # "int" => IsTypeDefined(t)
TypeNamed(t) ==
    IF t = "int" THEN BuiltIn
    ELSE IF GetStructDefineByName(t) # NoDef THEN GetStructDefineByName(t) ELSE External

ReplaceLast(s, e) == Append(Front(s), e)
Enter(map, n, id) == [map EXCEPT ![n] = id]

\* At file level, in the body; there, where an expression may stand: the start of a for
\* takes one of them, of any kind, and is "started" then.
AtRoot == phase = "parse" /\ Len(domains) = 1
InBody == phase = "parse" /\ Len(domains) > 1 /\ ~pending.open
InBlock == InBody /\ Last(blocks).kind # "started"
InStart == Last(blocks).kind = "start"
Started == IF InStart THEN ReplaceLast(blocks, Block("started")) ELSE blocks

\* The parser gives the whole source up and deletes its domains.
Refuse ==
    /\ phase' = "refused" /\ defs' = <<>>
    /\ domains' = <<Domain>> /\ meaning' = <<NoName>>
    /\ function' = NoFunction /\ exprs' = <<>> /\ blocks' = <<>>
    /\ pending' = NothingPending /\ size' = 0 /\ code' = <<>>
    /\ UNCHANGED <<ctx, found>>

\* kind "variable", "argument" or "structure"; `repeated' if one definition has the name twice.
Def(kind, n, type, repeated) == [kind |-> kind, name |-> n, type |-> type, repeated |-> repeated]

-----------------------------------------------------------------------------
(* Types, and the file level                                                *)

\* extern n; -- at file level or in the body; n is compared with no variable or structure.
\* It leaves no expression: the assertion behind the start of a for fails.
ExternType(n) ==
    /\ AtRoot \/ InBlock
    /\ size < MaxSize /\ size' = size + 1
    /\ domains' = ReplaceLast(domains, [Last(domains) EXCEPT !.externs = @ \cup {n}])
    /\ phase' = IF InBlock /\ InStart THEN "stopped" ELSE phase
    /\ UNCHANGED <<defs, meaning, function, exprs, blocks, pending, code, ctx, found>>

\* struct n { t m; }; -- at file level or in the body.
StructDef(n, t) ==
    LET id == Len(defs) + 1
    IN  /\ AtRoot \/ InBlock
        /\ id <= MaxDefs
        /\ \/ /\ ~IsTypeDefined(n) /\ ~IsVariableDefined(n) /\ IsType(t)
              /\ defs' = Append(defs, Def("structure", n, TypeNamed(t), FALSE))
              /\ domains' = ReplaceLast(domains, [Last(domains) EXCEPT !.structs = Enter(@, n, id)])
              /\ IF AtRoot THEN exprs' = Append(exprs, id) /\ UNCHANGED <<code, blocks>>
                 ELSE code' = Append(code, Visit("struct", id)) /\ blocks' = Started /\ UNCHANGED exprs
              /\ UNCHANGED <<phase, meaning, function, pending, size, ctx, found>>
           \/ ~(~IsTypeDefined(n) /\ ~IsVariableDefined(n) /\ IsType(t)) /\ Refuse

Unique(list) == \A i, j \in DOMAIN list : list[i][1] = list[j][1] => i = j
ArgumentsOf(list) == [i \in DOMAIN list |-> [name |-> list[i][1], type |-> TypeNamed(list[i][2])]]

HasSamePrototype(args) ==
    Len(args) = Len(function.args) /\ \A i \in DOMAIN args : args[i].type = function.args[i].type

AcceptsHead(list) ==
    /\ Unique(list) /\ \A i \in DOMAIN list : IsType(list[i][2])
    /\ function.declared => HasSamePrototype(ArgumentsOf(list))

\* A second declaration adds nothing; the arguments keep their first names.
DeclaredAs(list) ==
    IF function.declared THEN function ELSE [function EXCEPT !.declared = TRUE, !.args = ArgumentsOf(list)]
WithFunction == IF function.declared THEN exprs ELSE Append(exprs, NoDef)

FunctionDecl(list) ==
    /\ AtRoot
    /\ \/ /\ AcceptsHead(list)
          /\ function' = DeclaredAs(list) /\ exprs' = WithFunction
          /\ UNCHANGED <<phase, defs, domains, meaning, blocks, pending, size, code, ctx, found>>
       \/ ~AcceptsHead(list) /\ Refuse

\* The arguments' definitions are entered in the function's own domain, the body is
\* a domain below it.  `renamed' says that the names of this head are lost.
BeginBody(list) ==
    LET f == DeclaredAs(list)
        ids == [i \in DOMAIN list |-> Len(defs) + i]
        Named(n, args) == {i \in DOMAIN args : args[i].name = n}
        ByName(args) == [n \in Names |-> IF Named(n, args) = {} THEN NoDef
                                         ELSE ids[CHOOSE i \in Named(n, args) : TRUE]]
    IN  /\ AtRoot /\ Len(defs) + Len(list) <= MaxDefs
        /\ \/ /\ AcceptsHead(list) /\ ~function.hasBody
              /\ function' = [f EXCEPT !.hasBody = TRUE, !.renamed = (f.args # ArgumentsOf(list))]
              /\ exprs' = WithFunction
              /\ defs' = defs \o [i \in DOMAIN list |-> Def("argument", f.args[i].name, f.args[i].type, FALSE)]
              /\ domains' = domains \o <<[Domain EXCEPT !.vars = ByName(f.args)], Domain>>
              /\ meaning' = meaning \o <<ByName(ArgumentsOf(list)), NoName>>
              /\ blocks' = <<Block("body")>>
              /\ UNCHANGED <<phase, pending, size, code, ctx, found>>
           \/ ~(AcceptsHead(list) /\ ~function.hasBody) /\ Refuse

EndBody ==
    /\ InBody /\ blocks = <<Block("body")>>
    /\ domains' = <<domains[1]>> /\ meaning' = <<meaning[1]>> /\ blocks' = <<>>
    /\ UNCHANGED <<phase, defs, function, exprs, pending, size, code, ctx, found>>

-----------------------------------------------------------------------------
(* Statements of the body                                                   *)

Use(n) == [Visit("use", Nearest(VarMaps, n)) EXCEPT !.name = n, !.meant = Nearest(meaning, n)]

\* Exp_VariableRef in an expression of its own.
Reference(n) ==
    /\ InBlock /\ size < MaxSize
    /\ \/ /\ IsVariableDefined(n)
          /\ code' = Append(code, Use(n)) /\ size' = size + 1
          /\ blocks' = Started
          /\ UNCHANGED <<phase, defs, domains, meaning, function, exprs, pending, ctx, found>>
       \/ ~IsVariableDefined(n) /\ Refuse

OpenScope ==
    /\ domains' = Append(domains, Domain) /\ meaning' = Append(meaning, NoName)
    /\ code' = Append(code, Visit("open", NoDef))

\* A branch of an if: one scope.  A for: one for start, condition and step, and in it
\* one for the body.
BeginIf ==
    /\ InBlock /\ size < MaxSize /\ size' = size + 1
    /\ OpenScope /\ blocks' = Append(Started, Block("if"))
    /\ UNCHANGED <<phase, defs, function, exprs, pending, ctx, found>>

BeginFor ==
    /\ InBlock /\ size < MaxSize /\ size' = size + 1
    /\ OpenScope /\ blocks' = Append(Started, Block("start"))
    /\ UNCHANGED <<phase, defs, function, exprs, pending, ctx, found>>

\* The start is over (an expression without names leaves it as it was); the condition
\* compares n, which only a built-in type allows.  It is generated behind the body, so "for" keeps the reference.
Compares(n) == IsVariableDefined(n) /\ defs[Nearest(VarMaps, n)].type = BuiltIn

BeginForBody(n) ==
    /\ InBody /\ Last(blocks).kind \in {"start", "started"} /\ size < MaxSize
    /\ \/ /\ Compares(n)
          /\ blocks' = ReplaceLast(blocks, [kind |-> "for", use |-> Use(n)]) /\ size' = size + 1
          /\ OpenScope
          /\ UNCHANGED <<phase, defs, function, exprs, pending, ctx, found>>
       \/ ~Compares(n) /\ Refuse

Shut(n) == /\ domains' = SubSeq(domains, 1, Len(domains) - n)
           /\ meaning' = SubSeq(meaning, 1, Len(meaning) - n)

EndBlock ==
    /\ InBody /\ Last(blocks).kind \in {"if", "for"}
    /\ blocks' = Front(blocks)
    /\ IF Last(blocks).kind = "if"
       THEN Shut(1) /\ code' = Append(code, Visit("close", NoDef))
       ELSE Shut(2) /\ code' = code \o <<Visit("close", NoDef), Last(blocks).use, Visit("close", NoDef)>>
    /\ UNCHANGED <<phase, defs, function, exprs, pending, size, ctx, found>>

\* Exp_VarDef::Parse: a type, and declarators.  Nothing is entered in the domain before
\* the end of the definition.
BeginVarDef(t) ==
    /\ InBlock
    /\ \/ /\ IsType(t)
          /\ pending' = [open |-> TRUE, type |-> TypeNamed(t), ids |-> <<>>]
          /\ UNCHANGED <<phase, defs, domains, meaning, function, exprs, blocks, size, code, ctx, found>>
       \/ ~IsType(t) /\ Refuse

AcceptsDeclarator(n) == ~IsTypeDefined(n) /\ Last(domains).vars[n] = NoDef

\* No structure is initialised, and built-in types stand for compatible ones.
AcceptsInit(init) ==
    /\ pending.type \in {BuiltIn, External} /\ IsVariableDefined(init)
    /\ defs[Nearest(VarMaps, init)].type = pending.type

\* One declarator; its initial value refers to `init', if that is a name.
Declarator(n, init) ==
    LET id == Len(defs) + 1
        accepted == AcceptsDeclarator(n) /\ (init \in Names => AcceptsInit(init))
    IN  /\ phase = "parse" /\ pending.open /\ id <= MaxDefs /\ Len(pending.ids) < 2
        /\ init \in Names => size < MaxSize
        /\ \/ /\ accepted
              /\ defs' = Append(defs, Def("variable", n, pending.type,
                                          \E i \in ToSet(pending.ids) : defs[i].name = n))
              /\ pending' = [pending EXCEPT !.ids = Append(@, id)]
              /\ meaning' = ReplaceLast(meaning, Enter(Last(meaning), n, id))
              /\ size' = size + (IF init \in Names THEN 1 ELSE 0)
              /\ code' = code \o <<Visit("var", id)>> \o
                         (IF init \in Names
                          THEN <<[Use(init) EXCEPT !.meant = Nearest(meaning', init),
                                                   !.own = (Nearest(meaning', init) \in ToSet(pending'.ids))]>> ELSE <<>>)
              /\ UNCHANGED <<phase, domains, function, exprs, blocks, ctx, found>>
           \/ ~accepted /\ Refuse

\* ParseSingleExpression enters the definitions; the start of a for may have but one.
EntersAll_Type(map) ==
    [n \in Names |-> IF \E i \in ToSet(pending.ids) : defs[i].name = n THEN pending.type ELSE map[n]]
EntersAll(map) == [n \in Names |->
    LET mine == {i \in ToSet(pending.ids) : defs[i].name = n}
    IN  IF mine = {} THEN map[n] ELSE Max(mine)]

EndVarDef ==
    /\ phase = "parse" /\ pending.ids # <<>>
    /\ phase' = IF InStart /\ Len(pending.ids) > 1 THEN "stopped" ELSE phase
    /\ domains' = ReplaceLast(domains, [Last(domains) EXCEPT !.vars = EntersAll(@)])
    /\ pending' = NothingPending /\ blocks' = Started
    /\ UNCHANGED <<defs, meaning, function, exprs, size, code, ctx, found>>

-----------------------------------------------------------------------------
(* Generation                                                               *)

Context == [vars |-> NoName, structs |-> {}]

\* RootDomain::CompileToIR up to the function: the structures before it have their LLVM
\* types.  Exp_FunctionDecl::GenerateCode: a context for the arguments, the body's below it.
\* Structures behind the function come too late for its body.
ReadyBefore == {exprs[i] : i \in {j \in DOMAIN exprs : \E k \in DOMAIN exprs : exprs[k] = NoDef /\ j < k}}
ArgumentIds == {i \in DOMAIN defs : defs[i].kind = "argument"}

BeginGenerate ==
    /\ AtRoot /\ function.hasBody
    /\ phase' = "generate"
    /\ ctx' = <<[Context EXCEPT !.structs = ReadyBefore],
                [Context EXCEPT !.vars = [n \in Names |->
                    LET mine == {i \in ArgumentIds : defs[i].name = n}
                    IN  IF mine = {} THEN NoDef ELSE Max(mine)]],
                Context>>
    /\ UNCHANGED <<defs, parsing, code, found>>

\* CG_Context::GetVariablePtr, GetStructType, NewVariable.
GetVariablePtr_Own(n) == Last(ctx).vars[n]
GetVariablePtr(n) == Nearest([i \in DOMAIN ctx |-> ctx[i].vars], n)
HasStructType_File(type) == type > 0 => type \in ctx[1].structs
HasStructType(type) == type > 0 => \E i \in DOMAIN ctx : type \in ctx[i].structs

\* No storage for a name the context has already, nor for a structure without LLVM type.
NewVariable(id) ==
    IF Last(ctx).vars[defs[id].name] = NoDef /\ HasStructType(defs[id].type) THEN id ELSE NoDef

CloseContext_Never == ctx
CloseContext == Front(ctx)

Found(v, storage, typed) == found' = [visit |-> v, storage |-> storage, typed |-> typed]

\* NewStructType asserts that its members' types are there.
Generate ==
    LET v == Head(code)
        typed == v.op \in {"var", "struct"} => HasStructType(defs[v.id].type)
    IN  /\ phase = "generate" /\ code # <<>>
        /\ code' = Tail(code)
        /\ phase' = IF v.op = "struct" /\ ~typed THEN "stopped" ELSE phase
        /\ \/ v.op = "open" /\ ctx' = Append(ctx, Context) /\ UNCHANGED found
           \/ v.op = "close" /\ ctx' = CloseContext /\ UNCHANGED found
           \/ /\ v.op = "struct" /\ Found(v, NoDef, typed)
              /\ ctx' = ReplaceLast(ctx, [Last(ctx) EXCEPT !.structs = @ \cup {v.id}])
           \/ /\ v.op = "var" /\ Found(v, NewVariable(v.id), typed)
              /\ ctx' = IF NewVariable(v.id) = NoDef THEN ctx
                        ELSE ReplaceLast(ctx, [Last(ctx) EXCEPT !.vars = Enter(@, defs[v.id].name, v.id)])
           \/ v.op = "use" /\ Found(v, GetVariablePtr(v.name), typed) /\ UNCHANGED ctx
        /\ UNCHANGED <<defs, parsing>>

EndGenerate ==
    /\ phase = "generate" /\ code = <<>>
    /\ phase' = "done"
    /\ UNCHANGED <<defs, parsing, code, ctx, found>>

FileLevel ==
    \/ \E list \in Lists : FunctionDecl(list) \/ BeginBody(list)
    \/ BeginGenerate
Body ==
    \/ EndBody \/ BeginIf \/ BeginFor \/ EndBlock \/ EndVarDef
    \/ \E n \in Names : Reference(n) \/ BeginForBody(n)
    \/ \E t \in Types : BeginVarDef(t)
    \/ \E n \in Names, init \in Names \cup {"none"} : Declarator(n, init)
Next ==
    \/ FileLevel \/ Body
    \/ \E n \in Names : ExternType(n)
    \/ \E n \in Names, t \in Types : StructDef(n, t)
    \/ Generate \/ EndGenerate

Spec == Init /\ [][Next]_vars

-----------------------------------------------------------------------------
DefIds == 0..MaxDefs
Scopes == [Names -> DefIds]

\* The state variables hold values of their types.
TypeOK ==
    /\ phase \in {"parse", "generate", "done", "refused", "stopped"}
    /\ Len(defs) <= MaxDefs /\ size \in 0..MaxSize
    /\ \A i \in DOMAIN domains : domains[i] \in [vars : Scopes, structs : Scopes, externs : SUBSET Names]
    /\ \A i \in DOMAIN meaning : meaning[i] \in Scopes
    /\ Len(domains) = Len(meaning)
    /\ \A i \in DOMAIN ctx : ctx[i] \in [vars : Scopes, structs : SUBSET DefIds]
    /\ ToSet(exprs) \subseteq DefIds /\ found.storage \in DefIds

Behind(type) == type \in ToSet(exprs) \ ReadyBefore   \* of the file, behind the function

\* The generator gives a definition no storage of its own if it is the second of its name
\* in one definition, which the parser lets pass, or of a structure without LLVM type.
Lost(id) == id # NoDef /\ (defs[id].repeated \/ Behind(defs[id].type))

\* A reference reads the storage of the definition it has by C's rules, although the
\* generator looks the name up anew.  When the function's definition does not repeat the
\* argument names of its first declaration, C's rules are about names the parser dropped.
NamesMeanTheSame ==
    LET v == found.visit
    IN  v.op = "use" /\ ~Lost(v.meant) /\ ~function.renamed => found.storage = v.meant

\* It is the definition whose type the parser checked the reference against, but for an
\* initial value that names a variable of its own definition.
CheckedAsGenerated ==
    LET v == found.visit
    IN  v.op = "use" /\ ~Lost(v.id) /\ ~v.own => found.storage = v.id

\* The types a body names have LLVM types when its code is generated, but for structures
\* of the file that are defined behind the function's first declaration.
TypesKnown ==
    LET v == found.visit
    IN  v.op \in {"var", "struct"} => found.typed \/ Behind(defs[v.id].type)
=============================================================================
