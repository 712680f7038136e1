------------------------------ MODULE ValueExp ------------------------------
(***************************************************************************)
(* A value expression from its semantic check (CheckSemantic, IsAssignable) *)
(* to its code (GenerateCode, GenerateAssignCode, GetValuePtr) and the      *)
(* statement made of it.  An expression is built bottom up, in the order    *)
(* the parser makes its nodes: operands are on a stack, an action replaces  *)
(* them with the node above them.  A node is known by what its check        *)
(* computes, by the LLVM type of the code generated for it, or the fault    *)
(* of that code, and by how often its code calls the functions it names.    *)
(* With `checked' FALSE the expression is the step of a for, which          *)
(* Exp_For::Parse never checks: its cached types stay kInvalid.             *)
(* LLVM's folding of constants is left out.                                 *)
(***************************************************************************)
EXTENDS VarTypes, Sequences

CONSTANTS Structs,     \* structure definitions
          MembersOf,   \* structure -> set of Infos, its members
          Variables,   \* set of Infos, the variables in scope
          Functions,   \* functions in scope
          ReturnOf,    \* function -> Infos
          ArgumentsOf, \* function -> sequence of [info : Infos, ref : BOOLEAN]
          MaxStack,    \* bound: operands waiting
          MaxNodes     \* bound: nodes built

NoStruct == "none"
Infos == [type : VarType, struct : Structs \cup {NoStruct}, array : BOOLEAN]

\* What a declaration may name; a call without arguments does not parse.
Declared(info) ==
    /\ info \in Infos /\ info.type \notin {kVoid, kInvalid}
    /\ (info.type = kStructure) = (info.struct # NoStruct)
ASSUME DeclarationsAssumption ==
    /\ Structs \cap {NoStruct, "ill", "null", "assert", "i1", "i32", "float", "ptr", "void"} = {}
    /\ \A s \in Structs : \A m \in MembersOf[s] : Declared(m)
    /\ \A v \in Variables : Declared(v)
    /\ \A f \in Functions :
          /\ ReturnOf[f].type = kVoid \/ Declared(ReturnOf[f])
          /\ ReturnOf[f] \in Infos /\ ~ReturnOf[f].array
          /\ ArgumentsOf[f] \in Seq([info : Infos, ref : BOOLEAN]) /\ ArgumentsOf[f] # <<>>
          /\ \A i \in 1..Len(ArgumentsOf[f]) :
                Declared(ArgumentsOf[f][i].info) /\ ~ArgumentsOf[f][i].info.array
ASSUME BoundsAssumption == MaxStack \in Nat /\ MaxNodes \in Nat

Levels == 1..MaxStack
NoFunction == "none"

VARIABLES
    checked,   \* is CheckSemantic called for the expression?
    stack,     \* the expressions built, the latest on top
    depth,     \* how many there are
    size,      \* nodes built so far
    status,    \* "building", "refused" by the parser, or code "sound" or "faulty"
    plainStmt  \* is the finished statement one of the plain ones?

vars == <<checked, stack, depth, size, status, plainStmt>>

Info(type) == [type |-> type, struct |-> NoStruct, array |-> FALSE]
Unknown == Info(kInvalid)

\* How a value of a type lies in memory and is passed, and how code computes it:
\* a boolean is an i32 in memory and one bit in a register.
Memory(info) ==
    [(IF info.type = kStructure THEN Value(info.struct, 0) ELSE ConvertToLLVMType(info.type))
        EXCEPT !.array = info.array]
Register(info) == IF info.type = kBoolean THEN Bit ELSE Memory(info)

Node(kind, info, val) ==
    [node |-> kind,
     info |-> info, assignable |-> FALSE,         \* TypeInfo, as CheckSemantic computes it
     settable |-> FALSE, referable |-> FALSE,     \* IsAssignable(true), IsAssignable(false)
     val |-> val,                                 \* GenerateCode
     place |-> Null, inVector |-> FALSE,          \* GetValuePtr
     src |-> 0, evals |-> 0, placeEvals |-> 0,    \* calls in the source, emitted by
                                                  \* GenerateCode, by GetValuePtr
     indexed |-> FALSE,                           \* is one of the calls in an index?
     lvalue |-> FALSE, plain |-> TRUE,            \* see the plain language below
     callee |-> NoFunction, given |-> 0]          \* of an unfinished call or initializer
Nothing == [Node("value", Unknown, Null) EXCEPT !.plain = FALSE]

Init ==
    /\ checked \in BOOLEAN
    /\ stack = [i \in Levels |-> Nothing] /\ depth = 0 /\ size = 0
    /\ status = "building" /\ plainStmt = TRUE

-----------------------------------------------------------------------------
Top == stack[depth]
Below == stack[depth - 1]
Complete(e) == e.node \notin {"call", "init"}
Operand == status = "building" /\ depth >= 1 /\ Complete(Top)
Operands == Operand /\ depth >= 2 /\ Complete(Below)

\* The TypeInfo code generation reads.
Cached(e) == IF checked THEN e.info ELSE Unknown
CachedType(e) == Cached(e).type

\* The n topmost expressions become one, if the check accepts it or is not made.
Replace(n, e, accepted) ==
    /\ depth - n + 1 \in Levels
    /\ \/ /\ accepted \/ ~checked
          /\ depth' = depth - n + 1
          /\ stack' = [i \in Levels |-> IF i < depth' THEN stack[i]
                                        ELSE IF i = depth' THEN e ELSE Nothing]
          /\ UNCHANGED status
       \/ /\ checked /\ ~accepted
          /\ status' = "refused"
          /\ stack' = [i \in Levels |-> Nothing] /\ depth' = 0
    /\ UNCHANGED <<checked, plainStmt>>

MakeNode(n, e, accepted) == size < MaxNodes /\ size' = size + 1 /\ Replace(n, e, accepted)
FillNode(n, e, accepted) == UNCHANGED size /\ Replace(n, e, accepted)

\* CheckSemantic leaves no type where it fails.
Typed(accepted, info) == IF accepted THEN info ELSE Unknown

-----------------------------------------------------------------------------
(* The plain language: the expressions that are lowered soundly although    *)
(* checks and code generation disagree about others.                        *)

PlainCast(to, from) ==
    \/ to = from
    \/ from = kBoolean /\ to = kFloat
    \/ /\ to \in FloatTypes \cup IntegerTypes /\ from \in FloatTypes \cup IntegerTypes
       /\ TypeElementCnt(to) <= TypeElementCnt(from)
       /\ TypeElementCnt(to) = 1 => TypeElementCnt(from) = 1
       /\ TypeElementCnt(to) = 8 => IsFloatType(to) = IsFloatType(from)

\* Without cached types a value is passed on as it is.
PlainPass(info, e) ==
    /\ ~e.info.array
    /\ IF checked THEN PlainCast(info.type, e.info.type)
       ELSE info = e.info /\ TypeElementCnt(info.type) = 0

PlainOperation(op, l, r) ==
    LET lt == l.info.type
        rt == r.info.type
    IN  IF checked THEN
            /\ op # "&&"
            /\ op = "==" => lt # kBoolean /\ TypeElementCnt(lt) = 1
            /\ PlainCast(lt, rt)
        ELSE \/ /\ lt = rt /\ IsIntegerType(lt)
                /\ op = "==" => TypeElementCnt(lt) = 1
             \/ lt = kBoolean /\ op \in {"==", "&&"}

PlainAssignment(l, r) ==
    /\ l.lvalue /\ l.info.type # kBoolean /\ ~l.info.array
    /\ IF checked THEN PlainCast(l.info.type, r.info.type)
       ELSE l.info = r.info /\ l.node \in {"variable", "index"}

-----------------------------------------------------------------------------
(* Leaves                                                                   *)

\* Exp_Constant, Exp_TrueOrFalse
Constant(type) ==
    /\ status = "building"
    /\ MakeNode(0, Node("value", Info(type), Register(Info(type))), TRUE)

\* Exp_VariableRef: a boolean is read as "is not zero".
VariableValue(v) ==
    IF v.type # kBoolean THEN Memory(v) ELSE IF v.array THEN Ill ELSE Bit

VariableRef(v) ==
    /\ status = "building"
    /\ MakeNode(0, [Node("variable", v, VariableValue(v)) EXCEPT
                      !.assignable = TRUE, !.settable = ~v.array, !.referable = ~v.array,
                      !.place = Memory(v), !.lvalue = TRUE], TRUE)

-----------------------------------------------------------------------------
(* Operators                                                                *)

CheckUnary(op, e) == ~e.info.array /\ (op = "!" => e.info.type = kBoolean)

\* Exp_UnaryOp: "-" is LLVM's subtraction of integers for every type, and the
\* result keeps the operand's `assignable'.
UnaryOp(op) ==
    LET e == Top
        accepted == CheckUnary(op, e)
    IN  /\ Operand
        /\ MakeNode(1, [Node("value", Typed(accepted, e.info), IF IsInts(e.val) THEN e.val ELSE Ill)
                          EXCEPT !.assignable = e.assignable,
                                 !.src = e.src, !.evals = e.evals, !.indexed = e.indexed,
                                 !.plain = /\ accepted /\ e.plain
                                           /\ IsIntegerType(e.info.type) \/ e.info.type = kBoolean],
                   accepted)

CheckBinary(op, l, r) ==
    LET lt == l.info.type
        rt == r.info.type
        fewer == TypeElementCnt(lt) <= TypeElementCnt(rt)
    IN  /\ ~l.info.array /\ ~r.info.array
        /\ IsValueType(lt) /\ IsValueType(rt)
        /\ CASE op = "==" -> lt = rt
             [] op = "<" -> /\ lt # kBoolean /\ rt # kBoolean
                            /\ TypeElementCnt(lt) = 1 /\ TypeElementCnt(rt) = 1
             [] op = "+" -> lt # kBoolean /\ rt # kBoolean /\ fewer
             [] op = "&" -> IsIntegerType(lt) /\ IsIntegerType(rt) /\ fewer
             [] op = "&&" -> lt = kBoolean /\ rt = kBoolean

ResultOf(op, l) == IF op \in {"==", "<", "&&"} THEN Info(kBoolean) ELSE Info(l.info.type)

\* Exp_BinaryOp, but for "=": the code of the right operand comes first.
BinaryOp(op) ==
    LET l == Below
        r == Top
        accepted == CheckBinary(op, l, r)
        val == IF r.val = Null THEN Null
               ELSE CreateBinaryExpression(op, l.val, r.val, CachedType(l), CachedType(r))
    IN  /\ Operands
        /\ MakeNode(2, [Node("value", Typed(accepted, ResultOf(op, l)), val) EXCEPT
                          !.src = l.src + r.src, !.evals = l.evals + r.evals,
                          !.indexed = l.indexed \/ r.indexed,
                          !.plain = accepted /\ l.plain /\ r.plain /\ PlainOperation(op, l, r)],
                   accepted)

\* Structures and external types are assigned without asking IsAssignable.
CheckAssign(l, r) ==
    /\ ~l.info.array /\ ~r.info.array
    /\ \/ l.info.type = kStructure /\ l.info = r.info
       \/ l.info.type = kExternType /\ l.info = r.info
       \/ /\ IsValueType(l.info.type) /\ IsValueType(r.info.type)
          /\ TypeElementCnt(l.info.type) <= TypeElementCnt(r.info.type)
          /\ l.settable

\* The result of assigning external values has no type.
AssignResult(l) == IF l.info.type = kExternType THEN Unknown ELSE [l.info EXCEPT !.array = FALSE]

Store(v, place) == IF place \in Faults THEN place ELSE IF v = place THEN place ELSE Ill

\* GenerateAssignCode of the left operand.  The value of a boolean variable or member
\* is made an i32 once more; that of an array's element is not.
AssignCode(l, v) ==
    CASE l.node = "variable" ->
             Store(IF l.info.type = kBoolean THEN Select(v, SC_INT_TYPE) ELSE v, l.place)
      [] l.node = "index" -> Store(v, l.place)
      [] l.node = "dot" /\ l.place # Null ->
             IF l.inVector THEN InsertElement(l.place, v)
             ELSE Store(IF CachedType(l) = kBoolean THEN Select(v, SC_INT_TYPE) ELSE v, l.place)
      [] OTHER -> Asserts

\* Exp_BinaryOp "=": the left operand's place is computed for the store, then the left
\* operand is evaluated for the result.
AssignEvals_Again(l, r) == r.evals + l.placeEvals + r.evals
AssignEvals(l, r) == r.evals + l.placeEvals + l.evals

Assign ==
    LET l == Below
        r == Top
        accepted == CheckAssign(l, r)
        stored == IF r.val = Null THEN Null
                  ELSE AssignCode(l, CastValueType(r.val, CachedType(r), CachedType(l)))
    IN  /\ Operands
        /\ MakeNode(2, [Node("value", Typed(accepted, AssignResult(l)),
                            IF stored \in Faults THEN stored ELSE l.val) EXCEPT
                          !.src = l.src + r.src, !.evals = AssignEvals(l, r),
                          !.indexed = l.indexed \/ r.indexed,
                          !.plain = accepted /\ l.plain /\ r.plain /\ PlainAssignment(l, r)],
                   accepted)

-----------------------------------------------------------------------------
(* Exp_DotOp: a member, or a swizzle of `cnt' elements none behind `last'    *)

\* GetValuePtr looks the name up in the structure of the cached type; with none it
\* takes it for a swizzle, of one element if the cached type says so.
MemberPlace(p, m) ==
    CASE p.place = Null \/ p.inVector \/ ~checked -> Null
      [] p.place \in Faults -> p.place
      [] OTHER -> Memory(m)
SwizzlePlace(p, cnt) ==
    IF p.place = Null \/ p.inVector \/ ~checked \/ cnt # 1 THEN Null ELSE p.place

Element(place) == IF place \in Faults THEN place ELSE ExtractElement(place)

\* GetValuePtr has generated the parent's place even when there is none to return.
DotEvals(p, place) == IF place # Null THEN p.placeEvals ELSE p.placeEvals + p.evals

Dot(p, info, place, val, accepted) ==
    [Node("dot", Typed(accepted, info), val) EXCEPT
        !.place = place,
        !.src = p.src, !.evals = DotEvals(p, place), !.placeEvals = p.placeEvals,
        !.indexed = p.indexed, !.lvalue = p.lvalue]

Member(s, m) ==
    LET p == Top
        accepted == p.info = [Info(kStructure) EXCEPT !.struct = s]
        place == MemberPlace(p, m)
    IN  /\ Operand
        /\ MakeNode(1, [Dot(p, m, place, IF place = Null THEN Ill ELSE place, accepted) EXCEPT
                          !.assignable = p.assignable,
                          !.settable = p.assignable, !.referable = p.assignable,
                          !.plain = /\ accepted /\ checked /\ p.plain /\ p.lvalue
                                    /\ m.type = kBoolean => m.array],
                   accepted)

CheckSwizzle(p, last) ==
    ~p.info.array /\ p.info.type # kStructure /\ last < TypeElementCnt(p.info.type)

SwizzleAssignable_Any(p, cnt) == p.assignable
SwizzleAssignable(p, cnt) == p.assignable /\ cnt = 1

Swizzle(cnt, last) ==
    LET p == Top
        accepted == CheckSwizzle(p, last)
        place == SwizzlePlace(p, cnt)
        assignable == SwizzleAssignable(p, cnt)
    IN  /\ Operand
        /\ MakeNode(1, [Dot(p, Info(MakeType(IsIntegerType(p.info.type), cnt)), place,
                           IF place = Null THEN ShuffleVector(p.val, cnt) ELSE Element(place), accepted)
                          EXCEPT !.inVector = (place # Null),
                                 !.lvalue = p.lvalue /\ cnt = 1,
                                 !.assignable = assignable, !.settable = assignable,
                                 !.plain = /\ accepted /\ p.plain /\ TypeElementCnt(p.info.type) > 1
                                           /\ cnt > 1 \/ (checked /\ p.lvalue)],
                   accepted)

-----------------------------------------------------------------------------
(* Exp_Indexer: the index is evaluated whenever the place is computed       *)

CheckIndex(p, i) == i.info.type = kInt /\ p.info.array

IndexPlace(p, i) ==
    CASE p.place = Null \/ p.inVector -> Asserts
      [] p.place \in Faults -> p.place
      [] OTHER -> GEP(p.place, i.val)

Index ==
    LET p == Below
        i == Top
        accepted == CheckIndex(p, i)
        place == IndexPlace(p, i)
    IN  /\ Operands
        /\ MakeNode(2, [Node("index", Typed(accepted, [p.info EXCEPT !.array = FALSE]), place) EXCEPT
                          !.assignable = TRUE, !.settable = TRUE, !.referable = TRUE,
                          !.place = place,
                          !.src = p.src + i.src,
                          !.evals = i.evals + p.placeEvals, !.placeEvals = i.evals + p.placeEvals,
                          !.indexed = p.indexed \/ i.src > 0,
                          !.lvalue = p.lvalue,
                          !.plain = /\ accepted /\ p.plain /\ i.plain /\ p.lvalue
                                    /\ ~i.info.array /\ p.info.type # kBoolean],
                   accepted)

-----------------------------------------------------------------------------
(* Exp_FunctionCall: the arguments are checked and generated one by one     *)

BeginCall(f) ==
    /\ status = "building"
    /\ MakeNode(0, [Node("call", ReturnOf[f], Memory(ReturnOf[f])) EXCEPT
                      !.callee = f, !.src = 1, !.evals = 1,
                      !.plain = (ReturnOf[f].type # kBoolean)], TRUE)

\* TypeInfo::IsTypeCompatible
CompatibleInfo(dest, from) ==
    /\ ~dest.array /\ ~from.array
    /\ IF dest.type = kStructure THEN dest.struct = from.struct
       ELSE IsTypeCompatible(dest.type, from.type)

CheckArgument(p, e) ==
    IF p.ref THEN e.referable /\ e.info = p.info ELSE CompatibleInfo(p.info, e.info)

\* What is passed must have the type of LLVM's parameter.
PassesSoundly(p, e) ==
    IF p.ref THEN e.place = Memory(p.info) /\ ~e.inVector
    ELSE CastValueType(e.val, CachedType(e), p.info.type) = Memory(p.info)

PlainArgument(p, e) == IF p.ref THEN e.lvalue /\ e.info = p.info ELSE PlainPass(p.info, e)

ArgumentEvals(p, e) == IF p.ref THEN e.placeEvals ELSE e.evals

PassArgument ==
    LET c == Below
        e == Top
        p == ArgumentsOf[c.callee][c.given + 1]
        accepted == CheckArgument(p, e)
    IN  /\ Operand /\ depth >= 2 /\ c.node = "call" /\ c.given < Len(ArgumentsOf[c.callee])
        /\ FillNode(2, [c EXCEPT !.given = @ + 1,
                                !.val = IF PassesSoundly(p, e) THEN @ ELSE Ill,
                                !.src = @ + e.src, !.evals = @ + ArgumentEvals(p, e),
                                !.indexed = @ \/ e.indexed,
                                !.plain = @ /\ accepted /\ e.plain /\ PlainArgument(p, e)],
                   accepted)

EndCall ==
    /\ status = "building" /\ depth >= 1
    /\ Top.node = "call" /\ Top.given = Len(ArgumentsOf[Top.callee])
    /\ FillNode(1, [Top EXCEPT !.node = "value", !.callee = NoFunction, !.given = 0], TRUE)

-----------------------------------------------------------------------------
(* Exp_BuiltInInitializer, for up to four elements: of eight the parser      *)
(* keeps more expressions than its array holds.                              *)

Initializable == {t \in FloatTypes \cup IntegerTypes : TypeElementCnt(t) <= 4}

BeginInitializer(t) ==
    /\ status = "building"
    /\ MakeNode(0, Node("init", Info(t), ConvertToLLVMType(t)), TRUE)

\* `given' counts elements.
CheckElement(c, e) ==
    /\ e.info.type \in FloatTypes \cup IntegerTypes
    /\ c.given + TypeElementCnt(e.info.type) <= TypeElementCnt(c.info.type)

\* The vector, or the scalar, with the elements of `e' in it.
WithElement(c, e) ==
    LET to == MakeType(IsIntegerType(c.info.type), 1)
        from == MakeType(IsIntegerType(CachedType(e)), 1)
    IN  IF TypeElementCnt(c.info.type) = 1 THEN CastValueType(e.val, CachedType(e), c.info.type)
        ELSE IF TypeElementCnt(CachedType(e)) > 1
             THEN InsertElement(c.val, CastValueType(ExtractElement(e.val), from, to))
             ELSE InsertElement(c.val, CastValueType(e.val, CachedType(e), to))

GiveElement ==
    LET c == Below
        e == Top
        accepted == CheckElement(c, e)
    IN  /\ Operand /\ depth >= 2 /\ c.node = "init" /\ c.given < TypeElementCnt(c.info.type)
        /\ FillNode(2, [c EXCEPT !.given = @ + TypeElementCnt(e.info.type),
                                !.val = WithElement(c, e),
                                !.src = @ + e.src, !.evals = @ + e.evals,
                                !.indexed = @ \/ e.indexed,
                                !.plain = @ /\ accepted /\ checked /\ e.plain /\ ~e.info.array],
                   accepted)

EndInitializer ==
    LET accepted == Top.given = TypeElementCnt(Top.info.type)
    IN  /\ status = "building" /\ depth >= 1 /\ Top.node = "init" /\ Top.given > 0
        /\ FillNode(1, [Top EXCEPT !.node = "value", !.given = 0, !.plain = @ /\ accepted], accepted)

-----------------------------------------------------------------------------
(* Statements                                                               *)

\* The whole expression becomes a statement, whose code LLVM takes or not.
Finish(accepted, sound, plain) ==
    /\ Operand /\ depth = 1
    /\ status' = IF checked /\ ~accepted THEN "refused" ELSE IF sound THEN "sound" ELSE "faulty"
    /\ plainStmt' = plain
    /\ stack' = [i \in Levels |-> Nothing] /\ depth' = 0
    /\ UNCHANGED <<checked, size>>

\* An expression on its own, or the step of a for.
ExpressionStatement == Finish(TRUE, Top.val \notin Faults, Top.plain /\ ~Top.info.array)

\* Exp_FuncRet: the value is stored as it is, whatever type it was compatible with.
Return(info) ==
    LET e == Top
    IN  /\ checked
        /\ Finish(CompatibleInfo(info, e.info),
                  Store(e.val, Memory(info)) \notin Faults,
                  e.plain /\ e.info = info /\ info.type # kBoolean)

\* Exp_VarDef with an initial value: no structure, but arrays are not looked at.
DefineVariable(v) ==
    LET e == Top
    IN  /\ checked /\ v.type # kStructure
        /\ Finish(IsTypeCompatible(v.type, e.info.type),
                  Store(CastValueType(e.val, CachedType(e), v.type), Memory(v)) \notin Faults,
                  e.plain /\ ~v.array /\ PlainPass(v, e))

\* The condition of an if or a for: a branch needs one bit.
Condition ==
    /\ checked
    /\ Finish(Top.info.type = kBoolean, Top.val = Bit, Top.plain /\ ~Top.info.array)

Leaf == \/ \E t \in {kFloat, kInt, kBoolean} : Constant(t)
        \/ \E v \in Variables : VariableRef(v)
Operator == \/ \E op \in {"-", "!"} : UnaryOp(op)
            \/ \E op \in Operators \ {"="} : BinaryOp(op)
            \/ Assign
Access == \/ \E s \in Structs : \E m \in MembersOf[s] : Member(s, m)
          \/ \E cnt \in 1..4, last \in {0, 3} : Swizzle(cnt, last)  \* x and w stand for all
          \/ Index
Call == \/ \E f \in Functions : BeginCall(f)
        \/ PassArgument \/ EndCall
Initializer == \/ \E t \in Initializable : BeginInitializer(t)
               \/ GiveElement \/ EndInitializer
Statement == \/ ExpressionStatement
             \/ \E f \in Functions : ReturnOf[f].type # kVoid /\ Return(ReturnOf[f])
             \/ \E v \in Variables : DefineVariable(v)
             \/ Condition

Next == Leaf \/ Operator \/ Access \/ Call \/ Initializer \/ Statement

Spec == Init /\ [][Next]_vars

-----------------------------------------------------------------------------
LLVMValues ==
    Faults \cup [of : {"i1", "i32", "float", "ptr", "void"} \cup Structs, lanes : 0..8, array : BOOLEAN]
Nodes ==
    [node : {"value", "variable", "dot", "index", "call", "init"},
     info : Infos, assignable : BOOLEAN, settable : BOOLEAN, referable : BOOLEAN,
     val : LLVMValues, place : LLVMValues, inVector : BOOLEAN,
     src : Nat, evals : Nat, placeEvals : Nat, indexed : BOOLEAN,
     lvalue : BOOLEAN, plain : BOOLEAN, callee : Functions \cup {NoFunction}, given : Nat]

\* The state variables hold values of their types.
TypeOK ==
    /\ checked \in BOOLEAN /\ plainStmt \in BOOLEAN
    /\ stack \in [Levels -> Nodes] /\ depth \in 0..MaxStack /\ size \in 0..MaxNodes
    /\ status \in {"building", "refused", "sound", "faulty"}

Built == {stack[i] : i \in {j \in 1..depth : Complete(stack[j])}}

\* What CheckSemantic promises of an expression of the plain language, its code
\* computes: a value of the LLVM type that stands for the checked type.  And no plain
\* statement the parser accepts is lowered to code LLVM does not take.
PlainLowered ==
    /\ \A e \in Built :
          e.plain /\ ~e.info.array =>
              IF e.info.type = kInvalid THEN e.val \notin Faults ELSE e.val = Register(e.info)
    /\ plainStmt => status # "faulty"

\* Where IsAssignable lets the parser accept an assignment or a reference, GetValuePtr
\* finds a place of the checked type, and never a vector's element for a reference:
\* GenerateAssignCode and Exp_FunctionCall only assert it.
TargetsHavePlaces ==
    \A e \in Built :
        /\ e.plain /\ e.settable => (IF e.inVector THEN Scalar(e.place) ELSE e.place) = Memory(e.info)
        /\ e.plain /\ e.referable => e.place = Memory(e.info) /\ ~e.inVector

\* Code that LLVM takes calls a function as often as the source does; only in an index
\* it may do so more often.
EvaluatedOnce ==
    \A e \in Built :
        e.val \notin Faults => e.evals >= e.src /\ (~e.indexed => e.evals = e.src)
=============================================================================
