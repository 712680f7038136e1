# A verification project for KSC

KSC compiles a small C-like language to native code through LLVM. A C++ program
hands it source text through the C interface of `src/SC_API.h`, and gets back
modules, structure descriptions and function pointers. This directory holds TLA+
models of KSC, the configurations under which TLC checks them, and proofs that
the TLA+ proof system checks. Paths below are relative to the repository's
inner `src/` directory (`src/src/...` from the root that `PROJECT.json` uses).

## 1. The system

### Components

| Component | Source | State | Operations |
|---|---|---|---|
| API session | `SC_API.cpp` | `s_predefineDomain`, `s_predefineCtx`, `s_modules`, `s_lastErrMsg`, the execution engine, the external symbols | `KSC_Initialize`, `KSC_Compile`, `KSC_AddExternalFunction`, `KSC_GetFunctionPtr`, `KSC_Destory`, the struct accessors |
| Scanner and token buffer | `parser_AST_Gen.cpp` 190-525 | `mCurParsingPtr`, `mCurParsingLOC`, `mBufferedToken`, `mErrorMessages` | `ScanForToken`, `PeekNextToken`, `GetNextToken` |
| Expression parser | `parser_AST_Gen.cpp` 1481-1700 | the token stream | `ParseSimpleExpression`, `ParseComplexExpression` |
| Statement parser | `parser_AST_Gen.cpp` | the token stream, the current domain | `ParseCodeDomain`, `ParseSingleExpression`, `Exp_If::Parse`, `Exp_For::Parse`, `Exp_VarDef::Parse` |
| Declarations and scopes | `parser_AST_Gen.cpp`, `IR_Gen_Context.cpp` 370-456 | the maps and `mExpressions` of each `CodeDomain`, the maps of each `CG_Context` | `Exp_FunctionDecl::Parse`, `Exp_StructDef::Parse`, `Exp_VarDef::Parse`, lookups through `mpParentDomain` and `mpParent` |
| Semantic checks | `parser_AST_Gen.cpp` 1705-2490, `parser_defines.cpp` | `mCachedTypeInfo` of each expression | `CheckSemantic`, `IsAssignable`, `IsTypeCompatible` |
| Control flow lowering | `LLVM_IR_Gen.cpp` | the builder's insert block, the blocks and PHI nodes | `GenerateCode` of functions, domains, return, if, for |
| Value lowering | `LLVM_IR_Gen.cpp`, `IR_Gen_Context.cpp` | none of its own | `CastValueType`, `CreateBinaryExpression`, `GetValuePtr`, `GenerateAssignCode`, swizzles, indexers |
| Packed-argument wrapper | `IR_Gen_Context.cpp` 150-365 | the wrapper's copies | `CreateFunctionWithPackedArguments`, `ConvertValueTo/FromPacked` |
| Structure descriptors | `LLVM_IR_Gen.cpp` 595-660, `SC_API.cpp` | `KSC_StructDesc` | `ConvertToDescription`, `KSC_SetStructMemberData`, `KSC_GetStructMemberPtr` |
| LLVM | external | the module, the JIT | as KSC uses it |

How they interact: the client calls the API on its own thread. The session owns
one *shared* domain (code given to `KSC_Initialize`) and makes a child domain per
`KSC_Compile`. The statement and expression parsers call each other and pull
tokens through the buffer, which pulls from the scanner. Code generation walks the
expressions of a domain in order of declaration, sharing one `llvm::Module` and
one `IRBuilder` between all sources. The JIT runs only inside
`KSC_GetFunctionPtr`. There are no threads and nothing is persisted.

### What is hard here

* **Sequences of calls.** Global state (`TheModule`, the shared domain, the symbol
  table, the last message) outlives each call; a refused source, a second
  initialisation or a destroyed session must leave it usable.
* **Failure half way.** A parse function may fail with a message, without one, or
  by an assertion; callers treat the three differently, and a silent failure in a
  block means "end of the block".
* **Stale look-ahead.** `IsEOF` reads the scanner's position although tokens may
  be buffered; a peeked token is compared after the parser has moved on.
* **The moving insert block.** Nested statements move the builder; PHI nodes must
  name the block that branches, not the block that was created.
* **Everything is decided twice.** The parser checks types and resolves names; the
  generator, later, in another order and from other structures, picks casts by the
  cached types, looks names up again by their spelling, and looks for the place of
  an assignment that `IsAssignable` only promised. Nothing but the agreement of the
  two case distinctions keeps the generator out of its assertions, and LLVM from
  getting instructions it does not take.
* **Two layouts.** Packed C++ data and LLVM's layout meet in the wrapper and in the
  structure descriptors.

### Properties that make each component correct

* Session: modules stay apart; handles are complete and own; a refused source
  leaves no code; pointers reach only emitted code; the shared domain is frozen
  after initialisation; each call returns; the assertions fire for known reasons.
* Scanner and buffer: look-ahead changes nothing; lines are right; comments are
  hidden.
* Parsers: exactly the grammar is accepted; trees hold every token once, in order;
  refusals carry messages.
* Lowering: every block ends once, PHI nodes match, no unwritten result.
* Checks and value lowering: the code of an accepted expression computes a value of
  the LLVM type its checked type stands for; targets have places; calls are made as
  often as the source makes them.
* Declarations: a name means the same to C, to the parser and to the generator.
* Wrapper and descriptors: pointer semantics; each side sees its own layout;
  writes stay inside the structure and keep members apart.

## 2. Modules and how they correspond to the code

`PROJECT.json` ("map") names, for each definition, the lines it stands for.

**`KscSession`** - the session. A text is a sequence of top-level *items* (a
prototype, a definition, a definition cut off by the end of the text, and text
refused with or without a message). `decls` and `order` are
`mDefinedFunctions` and `mExpressions` of the shared and the module domain,
`ctx` is `mFuncDecls` of both contexts, `code` the `llvm::Function`s with bodies,
`mapped` those given an address by `addGlobalMapping`, `binds` the call
instructions. A function is identified by the call that generated it and its name.
`Initialize`, `Compile`, `GetFunctionPtr`, `Destory` and `AddExternalFunction`
begin calls (`AddExternalFunction` is a whole call); the other actions are the
parse loop of `CompilingContext::Parse`, one item a step, code generation, one
expression a step, the ends of both, and the JIT, one function a step. An
assertion that fails moves to phase `Aborted`. `MCKscSession` gives the texts.

**`TokenStream`** - `ScanForToken` as a function from a position to the next
token, and `PeekNextToken`/`GetNextToken` as the actions `Peek(i)` and `Get`, with
`buffered` for `mBufferedToken`. Texts are sequences of character classes.
**`TokenQueue`** is the abstract specification: a queue of tokens from which `Get`
takes the head and on which `Peek` changes nothing. The refinement maps the queue
to the buffer followed by what scanning from `ptr` would give (`Remaining`).

**`ExprParser`** - the two mutually recursive parse functions as one recursive function
`Parsed` of the call and its position. A call is a simple expression, the suffixes behind
one, an expression up to one of some separators, or what is left of the arguments of a call
or of the elements of an initializer; each loop and function of the code is an operator
(`ParseSimple`, `Suffixes`, `ParseComplex`, `Arguments`, `Initializer`) on the results of
the calls it makes. A result is what the C++ functions return: success, position, tree,
whether a message was added (`said`), whether an assertion failed on the way (`stop`).
Suffixes are kept as a list, in the order in which `Exp_DotOp` and `Exp_Indexer` nest.
The reference is `Trees`: for each piece of the text, from one place to another, the trees it
may have as a chain of operators, a list of expressions or a list of suffixes. It says
at the same time which texts are expressions and which trees they have.

**`StmtParser`** - the same for function bodies. Whole statements, and pieces that
fail with a message ("junk") or without ("cut"), are tokens. `wrong` records that
a token was eaten as a closing brace that is none. The parse functions are one recursive function `Parsed` here too; each function of the
code is an operator (`Single`, `IfParse`, `ForParse`, `Statements`, `Domain`) on the results
of the calls it makes. The reference is C's compound statement, not what the parser makes of
it: in `Grammar`, a recursive function of the length, a block is a statement like others.
Where the parser refuses such a body the property says so (`ForHasBlock`, `BlockAmong`). There
is a reference for the trees as well, `Trees`: which trees a piece of the text may have, from
one place to another. As in the grammar of C that gives each `else` to the nearest `if`, its
statements are closed or open: an `else` behind a closed one would not be its own, and what
stands between an `if` and its `else` is closed.

**`IRGen`** - one function body. The statements are chosen while they are
generated (`GenExpression`, `GenReturn`, `BeginDomain` ... `EndFor`), with one
action before, between and after the nested domains of `Exp_If::GenerateCode` and
`Exp_For::GenerateCode`, so every nesting occurs. `insert` is the builder's insert
block, `frames` the C++ stack. `returns`/`thenReturns` compute
`HasReturnExpForAllPaths` along the way. A complete function is then executed
with arbitrary conditions.

**`PackedCall`** - one call through the wrapper: `ConvertArgument` for each
argument, `Call`, the compiled function's assignments, `Return`, `ConvertBack` for
each argument. `needJITPacked` is set by the parser for `&` and `%` arguments only
and arbitrary for the others; the caller passes any variables, one for several arguments too,
each in the layout `isKSCLayout` asks for (a scalar has either). **`PointerCall`** is the
abstract specification: by-reference arguments are pointers, external ones are handed on. It
allows two deviations, through the set `copied`: references to a variable that another
reference leads to as well may be the function's own copies, the last of which replaces the
variable at the return, and an external pointer may be to a copy. With no variable passed
twice and the flags of external arguments clear, `copied` is empty. The refinement mapping
reads a caller's variable from the wrapper's copy as long as the copy is in use.

**`StructLayout`** - the loop of `ConvertToDescription` (`reached` is the member it has
come to) with LLVM's data layout beside it, then `KSC_SetStructMemberData` in any order.

**`VarTypes`** - the functions of `parser_defines.cpp` on types, the LLVM types, the
typing rules of the LLVM instructions KSC uses (external), and `CastValueType` and
`CreateBinaryExpression` on top of them. An LLVM value is known by its type: what it
is made of, its lanes, whether it is an array. What does not exist is a fault: "ill"
(LLVM's rules forbid the instruction), "null", "assert".

**`ValueExp`** - an expression from `CheckSemantic` to `GenerateCode`. Expressions are
built bottom up on a stack; each constructor of the parser is an action that takes
its operands from the stack, decides the check, and computes the node: its
`TypeInfo`, `IsAssignable(true)` and `(false)` (`settable`, `referable`), the value
of `GenerateCode`, the place of `GetValuePtr`, and how many function calls the source,
the code and the place contain. Arguments and elements are given one by one
(`PassArgument`, `GiveElement`). `ExpressionStatement`, `Return`, `DefineVariable` and
`Condition` finish a statement. With `checked = FALSE` the expression is the step of a
`for`, for which no check runs and every cached type stays `kInvalid`. The checks and
the code disagree about many expressions (section 5); `plain` marks those of the *plain
language*, about which they are to agree: the `Plain...` operators define it, in terms
of the source only.

**`Declarations`** - one source with a function. `domains` are the parser's scopes,
`exprs` and `code` what it hands to the generator, in the order of the generator's
visits, `ctx` the generator's scopes. `meaning` is C's view of the scopes, kept beside
them, and each reference records which definition it `meant` and which one (`id`) the
parser bound it to; `Generate` visits the references again and records the `storage`
that the lookup by spelling finds. `pending` is the definition `Exp_VarDef::Parse`
is reading, whose variables are entered all at once by `EndVarDef`. The start of a `for`
takes one expression of any kind and is `Started` then; two variables or an external type
there stop the program at an assertion.

**`KscSessionProofs`, `TokenStreamProofs`, `ExprParserProofs`, `StmtParserProofs`,
`DeclarationsProofs`, `IRGenProofs`, `ValueExpProofs`, `LayoutProofs`** - the proofs; the
last is about the wrapper and the descriptors, the two places where layouts meet. The `MC`
modules only give constants values that a `.cfg` cannot express.

## 3. Runs

| Run | Shows |
|---|---|
| `KscSession` | For any four calls of any client, over eleven module texts and three shared texts: `CallsStayInModule`, `HandlesOfOwnDefinitions`, `NoCodeOfRefusedSources`, `PointersComplete`, `SharedDomainFrozen`, `StopsExplained` and, under fairness, `CallsReturn`. |
| `IRGen` | Blocks, terminators and PHI nodes of every body of up to four statements nested two deep; no accepted function returns an unwritten result. |
| `PackedCall` | For any flags and any aliasing the wrapper implements `PointerCall`, and neither side ever sees the other's layout. |
| `StructLayout` | Writes through a descriptor stay inside and apart, for every structure of up to three members. |
| `ExprParser` | The expressions of the grammar are accepted and nothing else is (`AcceptsExactly`), an accepted one gets a tree the grammar gives its tokens (`TreesHoldExpressions`), and refusals carry messages (`RefusalsHaveMessages`): all short sequences and all, whole and damaged, expressions of up to seven tokens. |
| `StmtParser` | Function bodies: those of C are accepted and nothing else is, with two exceptions on one side and three on the other (`AcceptsExactly`, section 5), the trees are what stands there with each `else` at the nearest `if` (`TreesHoldBodies`), and refusals carry messages. |
| `TokenStream` | Buffer and scanner implement a queue; line numbers; comments. |
| `ValueExp` | Every expression of up to five nodes, checked and not, and every statement of one: `PlainLowered`, `TargetsHavePlaces`, `EvaluatedOnce`. |
| `Declarations` | Every source of up to three definitions: `NamesMeanTheSame` (C and the generator), `CheckedAsGenerated` (the parser and the generator), `TypesKnown`. |
| `IRGenFor` | *Violated*: a `for` runs its body before testing its condition (`LLVM_IR_Gen.cpp:524`). |
| `ExprParserLevels` | *Violated*: a stronger operator takes a weaker one for its operand, `v-v*v-v` becomes `v-(v*(v-v))` (`parser_AST_Gen.cpp:1662`). |
| `StructLayoutOffsets` | *Violated*: described offsets are not where compiled code has the members (`LLVM_IR_Gen.cpp:616`). |

### Bounds, and why they are enough

* `KscSession`, `MaxCalls = 4`: a failed initialisation, a good one, and two
  modules or a module and a pointer; a session, its end, a second session and a
  module. Each text was chosen for one path of the parser or generator:
  recursion, calls of shared and external functions, prototypes before, after and
  different from definitions, both kinds of refusal, a broken last body, a body
  for a shared function. One intrinsic stands for all: the code treats them alike.
* `IRGen`, eight blocks, four statements, depth two: an `if` with `else` takes
  three blocks and a `for` two, so one fits inside the other and beside
  it; a nested statement that moves the insert block out of its parent's first
  block needs depth two. The proofs drop the bounds.
* `PackedCall`, three arguments, two variables, two contents: two references to one
  variable, packed or not, beside another argument. A million states.
* `StructLayout`, three members of four types, arrays up to two: padding in front
  of, between and behind members, vectors and nested structures; proved for all.
* `ExprParser`, sequences up to four tokens, expressions up to seven: calls with two
  arguments and none, nesting of each construct in each other one, two operators
  (three in `ExprParserLevels`, where the difference first shows).
* `StmtParser`, sequences up to five tokens, bodies up to eight: `if` inside `if`
  with one `else`, a `for` inside either.
* `TokenStream`, texts up to three characters of eleven classes and up to six of
  those that make comments, look-ahead two (what the parser uses): `/*\n*/` with a
  token behind it takes six.

* `ValueExp`, five nodes, three operands waiting: a function of two arguments whose
  first is the element of a structure's array, an assignment to a swizzle of such an
  element, an initializer of four elements. The variables are of one, three and eight
  elements, floats and integers, a boolean, an external value, a structure, arrays of
  structures and of booleans; the functions take and return all of these, by value and by
  reference. Every operator of the language acts as one of the six of `Operators`.
  1.5 million states. The proofs drop the bounds and the choice of declarations.
* `Declarations`, two names, three definitions, three references or nested blocks: a
  name of a structure, an argument and a variable in turn, shadowing in a block and in a
  `for`, two variables of one definition, the second initialised with the first; four
  argument lists, one being another with its names exchanged. Two names are enough
  for any confusion of two; three definitions put one name in file, function and block.
  1.2 million states; with four references (9 million, not a run) nothing changes.

`CHECK_DEADLOCK FALSE` stands where the model ends: calls are bounded, a parse, a
function or a call is complete, a source or a statement is refused, or the program has aborted.

### Fairness

`KscSession` assumes `WF_vars(Work)`: within a call KSC runs on the client's
thread and never waits, so a step it can take it takes. The client's own calls have
no fairness: it may stop calling. `PackedCall` assumes it of the wrapper's steps,
which are straight-line code, and of nothing else: the compiled function may loop.
No other module has a liveness property.

## 4. Theorems

All for every value of the constants, from the named assumptions of the modules
(types and signs of the bounds; `Intrinsics` is not empty, as in `SC_API.cpp`).

* **`KscSessionProofs`**: `TypeCorrect` and `ModulesIsolated` (`CallsStayInModule`).
  The property is not inductive: a call instruction is bound through the contexts,
  so one must know whose functions these hold. `IInv` adds `Linkage`:
  `ListedDeclared` (expressions belong to declarations), `ScopesDisjoint` (a module
  never redeclares a shared name: it finds and reuses the shared declaration),
  `ModuleFunctions` (a module's context holds functions of the current call only),
  `FirstDeclared` and `SharedFunctions` (a shared context that is not empty holds
  the first intrinsic, so that a second initialisation stops at it before it could
  replace a function older call instructions lead to).
  On top of that invariant, what calls leave behind.
  `RefusedLeaveNoCode` and `PointersReachCode` need `Numbered` (whatever was handed out
  belongs to earlier calls than one that is still parsing or generating) and `Reached`
  (a call instruction of an emitted function leads to an emitted or a pending one, and
  a function emitted earlier never gets new call instructions). `SharedStaysFrozen` needs
  `TextOfSource`: what is left to parse is part of the text, so a text that defines no
  shared function cannot do so half way either. `StopsKnown` needs the order of both
  domains against their maps (`OrderDistinct`, `AllListed`), what `Exp_FunctionCall`'s
  lookup guaranteed (`CallsKnown`), how far generation has come in that order
  (`GenSoFar`) and the leak check's baseline (`Counted`).
  The last part is `HandlesAreOwn` (`HandlesOfOwnDefinitions`), which keeps three
  things in step: what is left of the text (`Consumed`), the bodies in the module's domain
  (`BodiesParsed`: a function has one exactly if a parsed item gave it one), and the
  descriptor (`Described`: the functions with a body among the expressions generated). It is
  the one proof that needs `CutAssumption`: only the end of a text cuts a definition off.
* **`IRGenProofs`**: `TypeCorrect`, `AppendsToOpenBlocks`, `FunctionsTerminated`,
  `PhisCorrect`. The invariant says which linked blocks are open (`BlocksOpen`: the
  insert block only), which blocks are created and not linked and by which open
  `if` they are held (`HeldBlocks`, `FrameKinds`), and that the PHI nodes so far
  agree with the branches so far (`PhisSoFar`).
  The second part is `ReturnsValue` (`ResultWritten`). `HasReturnExpForAllPaths`
  looks at the syntax, the value is written on paths through basic blocks, and `return`
  does not branch. The invariant `RInv` says that there is a set of blocks that are only ever
  entered with the value written (`Closed`), that this set covers what the predicate has
  promised of the statements so far, for every open `if` and `for` (`Promised`), and,
  during execution, that the value is written wherever the set says so (`Kept`).
* **`LayoutProofs`**, the wrapper: `TypeCorrect`, `OnlyKscLayoutInside`, `OnlyOwnLayoutOutside`,
  from `CallerLayout` (the caller's variables keep their layout at every moment), `SameSort`
  (a copy is a scalar if its variable is), `Externals` (the byte of an external object never
  changes) and `Converted` (the copies are unpacked up to `idx`); and `ImplementsPointerCall`:
  the wrapper implements `PointerCall`, one lemma per action, where the conversion steps are
  stutters. No flag and no aliasing is excluded. At most one copy is what the caller sees of
  a variable (`OneInFlight`); when the function returns it is the last of them (`LastPack`,
  `ReturnRefines`).
  The descriptors: `LayoutTypeCorrect`, `WritesStayInside`, from `OffsetBelow`
  (the running offset never overtakes LLVM's) and `MembersInside`; `MembersKeptApart`
  (`MembersSeparate`) from the order of the described members: each ends before the
  next begins.
* **`ValueExpProofs`**: `TypeCorrect`, `PlainSound` (`PlainLowered`), `TargetsSound`
  (`TargetsHavePlaces`), `CallsCounted` (`EvaluatedOnce`), for expressions of any size over
  any structures, variables and functions that `DeclarationsAssumption` admits.
  None of the properties is inductive, because they speak of finished expressions with
  sound code only, while an operand's history matters. `IInv` asks of every node on
  the stack that it be `Good`: `Counts` (calls are counted also for places, and a
  place makes a call again only in an index), `Lowered` (the value of a plain node, and
  of an unfinished call or initializer as far as it has got), `Placed` (a plain target
  is one in the source's sense, has a place of its type, and that place lies in a vector
  only behind a dot), `Begun` (what is filled in of an unfinished call or
  initializer). Each action builds one node from good ones, so there is one lemma per
  action (`...Kept`) and two on the stack (`Made`, `Finished`); lemmas such as `CastPlain`
  and `OperationPlain` hold the case distinctions over types.

* **`TokenStreamProofs`**: `TypeCorrect`, `LinesCounted` (`LineNumbers`), `CommentsStayHidden`
  (`PlainCommentsHidden`), and `QueueImplemented`: the scanner behind its buffer implements
  `TokenQueue`, whatever the parser peeks at. Skipping, the tokens left of a text and the
  scans of a look-ahead are recursive functions of a position. `Recursion` and
  `MeasureInduction`, proved from the well-foundedness of the numbers with a function and
  a set in place of the operator and the predicate, unfold these functions and carry facts
  along the text (`SkipDone`, `TokensUnfolded`, `FillingDone`). However many scans fill the
  buffer, the tokens in it and those of the rest of the text stay the same (`Filling`);
  `TokenInv` adds that the scanner's line and each token's are right. For the comments,
  `HiddenInv` says that the tokens so far cover exactly the code in front of the position.
* **`ExprParserProofs`**: `TypeCorrect`, `MessagesForRefusals` (`RefusalsHaveMessages`),
  `TreesSound` (`TreesHoldExpressions`), `GrammarDecided` (`AcceptsExactly`), for texts of any
  length, any functions, initializers and operators. Both `Parsed` and `Trees` are recursive
  functions on infinite sets, so what they are has to be proved first.
  A call is made behind a token that has been read or is of a lower `Rank`, and calls at the
  same place beyond the end of the text fail; so `Cost` decreases, and `ParsedUnfolded` shows
  that the parser ends. Along with it goes what the argument needs of the results
  (`Fine`): a simple expression or an expression has at least one token, and an
  expression ends at one of its separators. `TreesUnfolded` does the same for the
  pieces of the text by their `Size`.
  Soundness is induction over the calls (`ReadsCall`): what stands between the position of a
  call and the one it leaves has the tree that is returned. The tree of a chain of more
  than two operators need not respect their levels, but it is a chain again, whichever
  way `Group` turns the first two (`SecondRead`).
  Completeness is induction over the pieces (`PieceEnds`): a piece that has a tree is read to
  its end if what stands there may end it (`Bare`: no suffix; a separator for an
  expression). The grammar splits a chain at any operator, the parser only at the first;
  `Leading` turns one into the other. Closing parentheses and commas are the
  exceptions' place: `ListEnds` says of a list which calls of `arguments` and
  `elements` end behind the token at its end.
* **`StmtParserProofs`**: `TypeCorrect`, `MessagesForRefusals` (`RefusalsHaveMessages`),
  `GrammarDecided` (`AcceptsExactly`), `TreesFaithful` (`TreesHoldBodies`), for texts of any length. The argument is
  induction over the calls by `Cost`: a parse function calls others only behind a
  token it has read, or a lower one at the same token. `ParsedUnfolded` shows from this that
  the definition of `Parsed` has a solution, which is to say that the parser ends, and
  that a statement it reads has at least one token (`Fine`). `Audible` says where a call
  may fail in silence: a block only at the end of the text, with nothing but `{` in
  front, and a list never. `Faithful` says that the piece of text between the
  position of a call and the one it leaves is a statement, a list or a block of the grammar.
  `GrammarUnfolded` and `SentencesKept` turn the grammar's definition by length into its
  productions (`IfAlone`, `IfWithElse`, `ForAlone`, `BlockOf`, `ListBehind`), one of which makes
  a block a statement (`BlockIsStmt`). For the other
  direction the productions are read backwards, and of a piece of the text (`StmtAt`, `BlockAt`,
  `ListAt`). The grammar is ambiguous, since an `if` in a branch may take the `else` or leave
  it; so `StmtRead` does not say where the parser stops, only that it stops in a set `K` of
  places that holds one end of the statement and, for each `else` in front of which a
  statement may end, an end of its branch (`Ends`). In `IfComplete` the place in front of
  the `else` is added to the set for the first branch; behind a statement of a list there
  is no `else` (`ListStarts`), and the set has one place. That a block stands alone in its
  braces, unless one of the exceptions is met, comes from what stands in front of it and
  behind it (`LastToken`, `AroundBlock`, `InsideBlock`).
  `TreesFaithful` (`TreesHoldBodies`) follows the calls again: `Draws` says of each what kind of
  tree stands where it has read. The one thing a statement has to promise beyond that
  is that the next token is no `else` if it is an open one (`StmtTree`); the branch
  in front of an `else` is then closed (`IfDraws`). `TreesUnfolded` shows that the definition
  of `Trees` has a solution, by the width of the spans, and `Stands` reads it as productions.
* **`DeclarationsProofs`**: `TypeCorrect`, `ReadsTheDefinitionMeant` (`NamesMeanTheSame`),
  `ReadsTheDefinitionChecked` (`CheckedAsGenerated`), `TypesAreGenerated` (`TypesKnown`). The
  properties are about generation, and what makes them true happened while parsing, so
  the invariant `DeclInv` looks ahead: there is a trace of the generator's open contexts
  along the visits in `code`, from the contexts in which generation begins, and every visit
  of it finds what the parser and C have in mind (`Leads`, `Good`). The last contexts of the
  trace agree with the open scopes of the parser and of C level by level (`Matches`), but
  for the definition that `Exp_VarDef::Parse` is reading and the arguments of a renamed head,
  and will agree again at the end of each open block (`Nested`). Each parser action adds visits
  to the end of the trace; definitions, and structures behind the function, change nothing in
  front of them (`LeadsGrows`). `BeginGenerate` enters the trace and `Generate` walks along
  it. The start of a `for` opens one context whether it has its expression or not
  (`DepthsStarted`).

Only model-checked: `CallsReturn` (liveness is out of the prover's reach).

## 5. What the code does that a reader may not expect

Met while modelling. Three have runs of their own (above). The others are part of the
models, and the passing properties name them as their conditions or exceptions:

* `IRGen`: a `return` makes no branch (`LLVM_IR_Gen.cpp:240`), so the statements behind it
  run and a later `return` overwrites its value; the modelled execution shows it.
* `ValueExp`, all outside the plain language unless said otherwise:
  a cast from boolean to boolean makes an `i32` of a bit (`IR_Gen_Context.cpp:513`), so
  checked `&&`, `||` and `==` on booleans combine an `i1` with an `i32`, though the
  comment at `IR_Gen_Context.cpp:625` says "boolean values are treated as i1 integer",
  and `b = ...` selects on an `i32` (`LLVM_IR_Gen.cpp:88`); the same expressions are
  sound in the unchecked step of a `for`.
  Booleans returned by functions, read from members or elements stay `i32`.
  `return` stores its value as it is (`LLVM_IR_Gen.cpp:240`), although the check lets
  compatible types pass and only warns of "Implicit float to int conversion."
  (`parser_AST_Gen.cpp:2298`).
  A vector cast to a scalar becomes a vector of one lane (`IR_Gen_Context.cpp:558`).
  `MakeType(..., 8)` is `kVoid` or `kInt3` (`parser_defines.cpp:139`), so `float8` and
  `int8` do not convert into each other.
  `-` is an integer operation on floats (`LLVM_IR_Gen.cpp:74`).
  `=` on structures and external values does not ask `IsAssignable`
  (`parser_AST_Gen.cpp:1862`), so `f(s) = s` passes the check and asserts.
  An array that is not a variable or its member passes the check of an index and asserts
  (`LLVM_IR_Gen.cpp:406`); `(-v).x = 1.0` likewise, since a unary operator
  hands its operand's `assignable` on (`parser_AST_Gen.cpp:1834`).
  The step of a `for` is never checked (`parser_AST_Gen.cpp:2648`).
  Within the plain language, and therefore an exception of `EvaluatedOnce`: in
  `a[f(i)] = x` and `a[f(i)].xy` the function is called twice
  (`LLVM_IR_Gen.cpp:103`, `LLVM_IR_Gen.cpp:317`).
* `Declarations`: a definition behind a declaration keeps the declaration's argument names
  (`parser_AST_Gen.cpp:2207`): `f(int a, int b); f(int b, int a) {...}` compiles with
  the names exchanged. `int x = x` is checked against an outer `x` and reads the new
  one (`parser_AST_Gen.cpp:906`). `int a, a;` is accepted, the message at
  `parser_AST_Gen.cpp:869` notwithstanding, and the second has no storage. A structure
  of the file behind a function's first declaration has no LLVM type in the body, so a
  variable of it has no storage (`IR_Gen_Context.cpp:396`) and a structure with such a
  member asserts (`IR_Gen_Context.cpp:449`). The start of a `for` with two variables,
  or with an external type, asserts (`parser_AST_Gen.cpp:2633`). `NamesMeanTheSame`, `CheckedAsGenerated` and
  `TypesKnown` except the first four by name; "stopped" is the phase of the assertions.
* `KscSession`: a second `KSC_Initialize` in a process, with or without a
  `KSC_Destory` before it, fails `assert` at `IR_Gen_Context.cpp:460`, because `mFuncDecls` of the shared context is never
  cleared; a second `KSC_Destory` deletes descriptors twice (`SC_API.cpp:62-70`).
  A function that is declared, called and then defined is generated at its first
  declaration, and its callee may not exist yet (`LLVM_IR_Gen.cpp:425`). A module
  that defines a function the shared text declares writes its body into the shared
  declaration (`parser_AST_Gen.cpp:2201`), and the leak check of
  `SC_API.cpp:111` fires. `StopsExplained` says that these are the only reasons;
  `SharedDomainFrozen` excepts the last. An external function gets its address
  only while a declaration is generated (`LLVM_IR_Gen.cpp:163`), so registering it
  later leaves the JIT with an unresolved symbol. `KSC_GetFunctionPtr`
  returns NULL without setting a message (`SC_API.cpp:119`), also when `verifyFunction`
  rejects the wrapper (`SC_API.cpp:143-146`): the model lets that happen to any function.
* `ExprParser`: only the first two operators of what is left of a chain are compared
  (`parser_AST_Gen.cpp:1662`); besides the stronger operator above a weaker one of
  `ExprParserLevels`, four operands of one level come out in pairs, `a-b-c-d` as
  `(a-b)-(c-d)`.
  `g(` is a call of a function without arguments and `g()` is not
  (`parser_AST_Gen.cpp:1541`); an initializer with all its elements may end with a
  comma, and gives up its elements without a message, on which an assertion relies
  (`parser_AST_Gen.cpp:1511`). `Trees` (in `Primaries`) and `RefusalsHaveMessages` say so.
* `StmtParser`, bodies of C that are refused, although `SC_API.h:16` calls the language a
  "superset of C language": a `for` with a block, because the token compared was peeked before
  the step (`parser_AST_Gen.cpp:2658`), and a block among statements, because
  `ParseSingleExpression` knows none (`parser_AST_Gen.cpp:1021`) and `ParseCodeDomain`
  takes one at its start for all there is (`parser_AST_Gen.cpp:1182`). `AcceptsGrammar`
  excepts them by name. Texts that are accepted and are no body: behind the block of an `if`
  any token is eaten as its brace (`parser_AST_Gen.cpp:2562`); a definition without its
  semicolon fails without a message and ends the block (`parser_AST_Gen.cpp:965`); a text
  that breaks off behind `{` may pass for complete (`parser_AST_Gen.cpp:970`).
  `AcceptsOnlyGrammar` excepts these three.
* `PackedCall`: `needJITPacked` is uninitialised for by-value and external arguments
  (`parser_AST_Gen.cpp:2171`). If it reads true for an external one, the wrapper
  passes a pointer to its own copy of the object's first byte. Two packed references to one
  variable are copied apart and back one after the other (`IR_Gen_Context.cpp:341`), so they do
  not act as the C++ pointers of `SC_API.h:19`: what is written through one is not seen through
  the other, and the last copy replaces the variable. `PointerCall` names both.
* `TokenStream`: a block comment ends at the first `/` behind any asterisk
  (`parser_AST_Gen.cpp:227`). `PlainComments` excepts such comments.
* Not in a model: the array of four elements indexed up to eight
  (`parser_AST_Gen.cpp:1505`), the dangling `typeString` (`LLVM_IR_Gen.cpp:613`),
  `mArgTypeStrings.back()` taken for each argument (`LLVM_IR_Gen.cpp:643`), `&&` and `||`
  evaluated on both sides.

## 6. Not modelled, and why

* What values an expression computes: `ValueExp` has types and counts of calls. Constant
  folding by LLVM's builder, which may repair or hide an ill-typed instruction.
* Initializers of `float8` and `int8` and of more than four expressions: the array they
  overrun (`parser_AST_Gen.cpp:1505`) makes their behaviour undefined.
* Structures with several members in `Declarations` (the checks of their names are those of
  variables), prototypes with references, several functions (they are in `KscSession`).
* A `KSC_Initialize` for which LLVM gives no engine, after one that had it (the first is
  `InitializeWithoutEngine`), and calls on modules of a session that a second
  `KSC_Initialize` failed to replace.
* String literals (no rule of the parser takes one), literals' values, names
  character by character, wording of messages: no property is about them.
* `KSC_AllocMemForType`/`KSC_FreeMem` (allocation only), LLVM's passes, the test
  drivers, the build files.

## 7. Plan

Done: session, lowering of control flow and of values, semantic checks, declarations and
scopes, wrapper, descriptors, the parsers, the scanner; proofs of every invariant of the
session, of the blocks, PHI nodes and return values of a function, of the wrapper
and its refinement of pointers, of the bounds and the separation of a structure's members,
of the soundness of plain expressions, of the scanner, its line numbers and its look-ahead
buffer, of both parsers (they decide their grammars, and the trees they build are those of
the text), and of declarations and scopes.

Left, in this order:

1. `PackedCall` with the members of a structure copied one at a time, together with
   the layout of each member from `StructLayout`.
2. `Declarations` composed with `KscSession`, for structures of the shared text.
