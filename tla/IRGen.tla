------------------------------- MODULE IRGen --------------------------------
(***************************************************************************)
(* The lowering of one function body to basic blocks (LLVM_IR_Gen.cpp) and *)
(* the execution of what was lowered.  The statements of the body are      *)
(* chosen as generation proceeds: an expression, a return, a nested block, *)
(* an if or a for may come next in any domain, as CodeDomain, Exp_If and   *)
(* Exp_For allow it; today's parser builds fewer trees (StmtParser).       *)
(* Along the way the module computes HasReturnExpForAllPaths, on which the *)
(* parser accepts or refuses a function that returns a value.  When the    *)
(* function is complete it is executed with arbitrary conditions.          *)
(***************************************************************************)
EXTENDS Naturals, Sequences

CONSTANTS MaxBlocks,  \* bound: basic blocks of the function
          MaxStmts,   \* bound: statements of the body
          MaxDepth    \* bound: nesting of statements

ASSUME BoundsAssumption == MaxBlocks \in Nat /\ MaxBlocks >= 2 /\ MaxStmts \in Nat /\ MaxDepth \in Nat

Levels == 1..(MaxDepth + 1)

Blocks == 1..MaxBlocks
EntryBB == 1                    \* <function>_entry
RetBB_None == 0
RetBB == 2                      \* <function>_exit, linked last

NoBlock == 0

\* A statement whose code is being generated.  `thenReturns' and `returns' say of
\* its first and of its current domain whether HasReturnExpForAllPaths holds.
Frames == [kind : {"body", "domain", "then", "else", "for"},
           else : Blocks \cup {NoBlock}, merge : Blocks \cup {NoBlock},
           thenEnd : Blocks \cup {NoBlock}, loop : Blocks \cup {NoBlock},
           thenReturns : BOOLEAN, returns : BOOLEAN]

\* What a block computes, in order.  "enter" and "test" are the start expression
\* and the condition of the for whose loop block is `loop'; `within' holds the loop
\* blocks of the for statements around the instruction.
Instructions == [op : {"exp", "ret", "enter", "test"}, loop : Blocks \cup {NoBlock},
                 within : SUBSET Blocks]

VARIABLES
    phase,      \* "gen", "run", "done", or "refused" by the parser
    returnsVoid, \* mReturnType == VarType::kVoid
    created,    \* number of basic blocks created
    linked,     \* blocks in the function's basic block list
    insert,     \* sBuilder's insert block
    term,       \* the terminators appended to each block, as sets of targets
    phi,        \* incoming blocks of the block's PHI node
    hasPhi,     \* blocks that start with a PHI node
    code,       \* the other instructions of each block
    frames,     \* the statements around the insertion point, outermost first
    depth,      \* how many of them there are
    stmts,      \* statements generated
    at,         \* execution: block and number of the next instruction
    returned,   \* execution: was a return expression evaluated?
    tested,     \* execution: for statements whose condition held when last tested
    last        \* execution: the instruction just executed

gen == <<created, linked, insert, term, phi, hasPhi, code, frames, depth, stmts>>
run == <<at, returned, tested, last>>
vars == <<phase, returnsVoid, gen, run>>

Nothing == [op |-> "exp", loop |-> NoBlock, within |-> {}]
Frame(k) == [kind |-> k, else |-> NoBlock, merge |-> NoBlock, thenEnd |-> NoBlock,
             loop |-> NoBlock, thenReturns |-> FALSE, returns |-> FALSE]

\* Exp_FunctionDecl::GenerateCode up to the body: the entry block is the insert
\* block, the exit block exists but is not in the function yet.
Init ==
    /\ phase = "gen" /\ returnsVoid \in BOOLEAN
    /\ created = 2 /\ linked = {EntryBB} /\ insert = EntryBB
    /\ term = [b \in Blocks |-> <<>>]
    /\ phi = [b \in Blocks |-> {}] /\ hasPhi = {}
    /\ code = [b \in Blocks |-> <<>>]
    /\ frames = [i \in Levels |-> Frame("body")] /\ depth = 1 /\ stmts = 0
    /\ at = <<EntryBB, 1>> /\ returned = FALSE /\ tested = {} /\ last = Nothing

-----------------------------------------------------------------------------
Top == frames[depth]
Generating == phase = "gen"
WithinLoops == {frames[i].loop : i \in {j \in 1..depth : frames[j].kind = "for"}}

Inst(op, loop) == [op |-> op, loop |-> loop, within |-> WithinLoops \ {loop}]

\* sBuilder appends to the insert block.
Emit(op, loop) == code' = [code EXCEPT ![insert] = Append(@, Inst(op, loop))]
Branch(targets) == term' = [term EXCEPT ![insert] = Append(@, targets)]

Outer == frames[depth - 1]

SetTop(f) == frames' = [frames EXCEPT ![depth] = f] /\ UNCHANGED depth
Open(f) == frames' = [frames EXCEPT ![depth + 1] = f] /\ depth' = depth + 1
Close(outer) ==         \* the statement on top ends, the one around it becomes `outer'
    /\ frames' = [frames EXCEPT ![depth] = Frame("body"), ![depth - 1] = outer]
    /\ depth' = depth - 1

RoomFor(n) == created + n <= MaxBlocks
MayStart(n) ==
    /\ Generating /\ stmts < MaxStmts /\ RoomFor(n)
    /\ stmts' = stmts + 1
MayNest == depth <= MaxDepth

\* A value expression, a variable definition: no control flow of its own ("&&" and
\* "||" evaluate both operands).
GenExpression ==
    /\ MayStart(0)
    /\ Emit("exp", NoBlock)
    /\ UNCHANGED <<phase, returnsVoid, created, linked, insert, term, phi, hasPhi, frames, depth, run>>

\* Exp_FuncRet: the value is stored to the return slot; no branch is made.
GenReturn_ToExit ==
    /\ MayStart(0)
    /\ Emit("ret", NoBlock) /\ Branch({RetBB})
    /\ SetTop([Top EXCEPT !.returns = TRUE])
    /\ UNCHANGED <<phase, returnsVoid, created, linked, insert, phi, hasPhi, run>>
GenReturn ==
    /\ MayStart(0)
    /\ Emit("ret", NoBlock)
    /\ SetTop([Top EXCEPT !.returns = TRUE])
    /\ UNCHANGED <<phase, returnsVoid, created, linked, insert, term, phi, hasPhi, run>>

\* CodeDomain::GenerateCode of a nested block.
BeginDomain ==
    /\ MayStart(0) /\ MayNest
    /\ Open(Frame("domain"))
    /\ UNCHANGED <<phase, returnsVoid, created, linked, insert, term, phi, hasPhi, code, run>>

EndDomain ==
    /\ Generating /\ Top.kind = "domain"
    /\ Close([Outer EXCEPT !.returns = @ \/ Top.returns])
    /\ UNCHANGED <<phase, returnsVoid, created, linked, insert, term, phi, hasPhi, code, stmts, run>>

\* Exp_If::GenerateCode up to the then domain: "then" is in the function at once,
\* "else" and "ifcont" are linked when they are reached.
BeginIf ==
    LET then == created + 1
        f == [Frame("then") EXCEPT !.else = created + 2, !.merge = created + 3]
    IN  /\ MayStart(3) /\ MayNest
        /\ Emit("exp", NoBlock) /\ Branch({then, f.else})
        /\ created' = created + 3 /\ linked' = linked \cup {then} /\ insert' = then
        /\ Open(f)
        /\ UNCHANGED <<phase, returnsVoid, phi, hasPhi, run>>

\* The end of the then domain: the block that branches to "ifcont" is the current
\* one, which nested statements may have changed.
ThenEnd_Block == Top.else - 1
ThenEnd == insert

BeginElse ==
    /\ Generating /\ Top.kind = "then"
    /\ Branch({Top.merge})
    /\ linked' = linked \cup {Top.else} /\ insert' = Top.else
    /\ SetTop([Top EXCEPT !.kind = "else", !.thenEnd = ThenEnd,
                          !.thenReturns = Top.returns, !.returns = FALSE])
    /\ UNCHANGED <<phase, returnsVoid, created, phi, hasPhi, code, stmts, run>>

\* The branch of CodeDomain::HasReturnExpForAllPaths on an if.
IfReturns_Either == Top.thenReturns \/ Top.returns
IfReturns == Top.thenReturns /\ Top.returns

EndIf ==
    /\ Generating /\ Top.kind = "else"
    /\ Branch({Top.merge})
    /\ linked' = linked \cup {Top.merge} /\ insert' = Top.merge
    /\ phi' = [phi EXCEPT ![Top.merge] = {Top.thenEnd, insert}]
    /\ hasPhi' = hasPhi \cup {Top.merge}
    /\ Close([Outer EXCEPT !.returns = @ \/ IfReturns])
    /\ UNCHANGED <<phase, returnsVoid, created, code, stmts, run>>

\* Exp_For::GenerateCode up to the body.
BeginFor ==
    LET loop == created + 1
    IN  /\ MayStart(2) /\ MayNest
        /\ Emit("enter", loop) /\ Branch({loop})
        /\ created' = loop /\ linked' = linked \cup {loop} /\ insert' = loop
        /\ phi' = [phi EXCEPT ![loop] = {insert}] /\ hasPhi' = hasPhi \cup {loop}
        /\ Open([Frame("for") EXCEPT !.loop = loop])
        /\ UNCHANGED <<phase, returnsVoid, run>>

\* The step, the condition, and the "afterloop" block.
EndFor ==
    LET after == created + 1
    IN  /\ Generating /\ Top.kind = "for" /\ RoomFor(1)
        /\ Emit("test", Top.loop) /\ Branch({Top.loop, after})
        /\ created' = after /\ linked' = linked \cup {after} /\ insert' = after
        /\ phi' = [phi EXCEPT ![Top.loop] = @ \cup {insert}]
        /\ Close(Outer)
        /\ UNCHANGED <<phase, returnsVoid, hasPhi, stmts, run>>

\* Exp_FunctionDecl: the parser refuses a body that may end without a value;
\* otherwise the exit block is linked, branched to, and returns.
AcceptedBody == returnsVoid \/ Top.returns

EndFunction ==
    /\ Generating /\ Top.kind = "body" /\ AcceptedBody
    /\ phase' = "run"
    /\ term' = [term EXCEPT ![insert] = Append(@, {RetBB}), ![RetBB] = Append(@, {})]
    /\ linked' = linked \cup {RetBB} /\ insert' = RetBB
    /\ UNCHANGED <<returnsVoid, created, phi, hasPhi, code, frames, depth, stmts, run>>

RefuseFunction ==
    /\ Generating /\ Top.kind = "body" /\ ~AcceptedBody
    /\ phase' = "refused"
    /\ UNCHANGED <<returnsVoid, gen, run>>

-----------------------------------------------------------------------------
(* Execution of the generated function (by LLVM's JIT, external).          *)

ExecInstruction ==
    LET i == code[at[1]][at[2]]
    IN  /\ phase = "run" /\ at[2] <= Len(code[at[1]])
        /\ last' = i /\ returned' = (returned \/ i.op = "ret")
        /\ at' = <<at[1], at[2] + 1>>
        /\ tested' = IF i.op = "enter" THEN tested \ {i.loop} ELSE tested
        /\ UNCHANGED <<phase, returnsVoid, gen>>

\* The terminator; a loop whose branch is taken back to its start had a condition
\* that held.
ExecBranch ==
    /\ phase = "run" /\ at[2] > Len(code[at[1]])
    /\ \E b \in term[at[1]][1] :
          /\ at' = <<b, 1>>
          /\ tested' = IF last.op # "test" THEN tested
                       ELSE IF b = last.loop THEN tested \cup {b} ELSE tested \ {last.loop}
    /\ UNCHANGED <<phase, returnsVoid, gen, returned, last>>

ExecRet ==
    /\ phase = "run" /\ at[1] = RetBB
    /\ phase' = "done"
    /\ UNCHANGED <<returnsVoid, gen, run>>

Generate ==
    \/ GenExpression \/ GenReturn \/ BeginDomain \/ EndDomain
    \/ BeginIf \/ BeginElse \/ EndIf \/ BeginFor \/ EndFor
    \/ EndFunction \/ RefuseFunction
Execute == ExecInstruction \/ ExecBranch \/ ExecRet
Next == Generate \/ Execute

Spec == Init /\ [][Next]_vars

-----------------------------------------------------------------------------
PredsIn(t, b) == {a \in Blocks : \E i \in DOMAIN t[a] : b \in t[a][i]}
Preds(b) == PredsIn(term, b)

\* The state variables hold values of their types.
TypeOK ==
    /\ phase \in {"gen", "run", "done", "refused"} /\ returnsVoid \in BOOLEAN
    /\ created \in Blocks /\ linked \subseteq Blocks /\ insert \in Blocks
    /\ term \in [Blocks -> Seq(SUBSET Blocks)]
    /\ phi \in [Blocks -> SUBSET Blocks] /\ hasPhi \subseteq Blocks
    /\ code \in [Blocks -> Seq(Instructions)]
    /\ frames \in [Levels -> Frames] /\ depth \in Levels /\ stmts \in 0..MaxStmts
    /\ at \in Blocks \X (Nat \ {0}) /\ returned \in BOOLEAN
    /\ tested \subseteq Blocks /\ last \in Instructions

\* Code is only ever appended to an open block of the function.
InsertBlockOpen == phase = "gen" => insert \in linked /\ term[insert] = <<>>

\* A complete function is well formed: every block created is in the function and
\* ends in exactly one terminator.
BlocksTerminated ==
    phase = "run" =>
        /\ linked = 1..created
        /\ \A b \in linked : Len(term[b]) = 1 /\ term[b][1] \subseteq linked

\* The PHI nodes of a complete function name exactly the predecessors of their block.
PhisMatchPredecessors ==
    phase = "run" => \A b \in hasPhi : phi[b] = Preds(b)

\* A function that returns a value never reaches its exit with the return slot
\* unwritten: what HasReturnExpForAllPaths accepts, the generated code honours.
ResultWritten == phase = "done" /\ ~returnsVoid => returned

\* As in C, the body of a for runs only when the condition was found to hold.
ForTestsFirst == last.within \subseteq tested
=============================================================================
