------------------------------ MODULE VarTypes ------------------------------
(***************************************************************************)
(* KSC's types (SC_API.h, parser_defines.cpp), the LLVM types that stand   *)
(* for them, and the conversions between values of them                    *)
(* (CG_Context::CastValueType, CreateBinaryExpression).  A conversion is   *)
(* given by the LLVM type of its result; a result that does not exist is a *)
(* fault: "ill" for an instruction LLVM's typing rules forbid, "null" for a *)
(* NULL value, "assert" for a failed assertion of KSC.                     *)
(***************************************************************************)
EXTENDS Integers

\* enum VarType; MakeType computes with the positions of its members.
kFloat == 0
kFloat2 == 1
kFloat3 == 2
kFloat4 == 3
kFloat8 == 4
kInt == 5
kInt2 == 6
kInt3 == 7
kInt4 == 8
kInt8 == 9
kBoolean == 10
kStructure == 11
kVoid == 12
kExternType == 13
kInvalid == 14

VarType == kFloat..kInvalid

FloatTypes == {kFloat, kFloat2, kFloat3, kFloat4, kFloat8}
IntegerTypes == {kInt, kInt2, kInt3, kInt4, kInt8}
IsFloatType(t) == t \in FloatTypes
IsIntegerType(t) == t \in IntegerTypes
IsValueType(t) == t \in FloatTypes \cup IntegerTypes \cup {kBoolean}

TypeElementCnt(t) ==
    CASE t \in {kFloat, kInt, kBoolean} -> 1
      [] t \in {kFloat2, kInt2} -> 2
      [] t \in {kFloat3, kInt3} -> 3
      [] t \in {kFloat4, kInt4} -> 4
      [] t \in {kFloat8, kInt8} -> 8
      [] OTHER -> 0

\* kFloat8 and kInt8 are the fifth members: for eight elements this is another type.
MakeType(isInt, elemCnt) == (IF isInt THEN kInt ELSE kFloat) + elemCnt - 1

\* What an implicit conversion may do: drop elements, exchange float and int.
IsTypeCompatible(dest, from) ==
    \/ dest = from /\ dest \in {kBoolean, kExternType}
    \/ /\ IsFloatType(dest) \/ IsIntegerType(dest)
       /\ TypeElementCnt(dest) <= TypeElementCnt(from)

-----------------------------------------------------------------------------
(* LLVM's types and the rules of its instructions (external).  lanes is 0   *)
(* for what is not a vector; `of' may also be the name of a structure.      *)

Value(of, lanes) == [of |-> of, lanes |-> lanes, array |-> FALSE]
Ill == Value("ill", 0)
Null == Value("null", 0)
Asserts == Value("assert", 0)
Faults == {Ill, Null, Asserts}

Bit == Value("i1", 0)
SC_INT_TYPE == Value("i32", 0)
SC_FLOAT_TYPE == Value("float", 0)

Scalar(v) == [v EXCEPT !.lanes = 0]
IsInts(v) == v.of \in {"i1", "i32"} /\ ~v.array
IsFloats(v) == v.of = "float" /\ ~v.array
IsPointers(v) == v.of = "ptr" /\ ~v.array

ShuffleVector_Both(v, n) == IF v.lanes > 0 /\ n > 0 THEN [v EXCEPT !.lanes = @ + n] ELSE Ill
ShuffleVector(v, n) == IF v.lanes > 0 /\ n > 0 THEN [v EXCEPT !.lanes = n] ELSE Ill
ExtractElement(v) == IF v.lanes > 0 THEN Scalar(v) ELSE Ill
InsertElement(v, elem) == IF v.lanes > 0 /\ elem = Scalar(v) THEN v ELSE Ill
FPToSI(v, t) == IF IsFloats(v) /\ IsInts(t) /\ v.lanes = t.lanes THEN t ELSE Ill
SIToFP(v, t) == IF IsInts(v) /\ IsFloats(t) /\ v.lanes = t.lanes THEN t ELSE Ill
Select(cond, t) == IF cond = Bit THEN t ELSE Ill
Combine(l, r, wanted) == IF l = r /\ wanted THEN l ELSE Ill
Compare(l, r, wanted) == IF l = r /\ wanted THEN [l EXCEPT !.of = "i1"] ELSE Ill
GEP(place, index) ==
    IF place.array /\ IsInts(index) /\ index.lanes = 0 THEN [place EXCEPT !.array = FALSE] ELSE Ill

-----------------------------------------------------------------------------
Vector(of, n) == Value(of, IF n = 1 THEN 0 ELSE n)

ConvertToLLVMType(t) ==
    CASE IsFloatType(t) -> Vector("float", TypeElementCnt(t))
      [] IsIntegerType(t) -> Vector("i32", TypeElementCnt(t))
      [] t = kBoolean -> SC_INT_TYPE      \* in memory and in signatures
      [] t = kExternType -> Value("ptr", 0)
      [] t = kVoid -> Value("void", 0)
      [] OTHER -> Null

\* Between float and int; both sides are told apart by IsFloatType alone.
ConvertKind(v, src, dest) ==
    LET target == ConvertToLLVMType(MakeType(~IsFloatType(dest), TypeElementCnt(dest)))
    IN  CASE IsFloatType(src) /\ ~IsFloatType(dest) -> FPToSI(v, target)
          [] ~IsFloatType(src) /\ IsFloatType(dest) -> SIToFP(v, target)
          [] OTHER -> v

CastValueType(v, src, dest) ==
    LET n == TypeElementCnt(src)
        m == TypeElementCnt(dest)
    IN  CASE n < m -> Null
          [] n > m -> ConvertKind(ShuffleVector(v, m), src, dest)
          [] src = kBoolean /\ dest = kBoolean -> Select(v, SC_INT_TYPE)
          [] OTHER -> ConvertKind(v, src, dest)

\* One operator of each class: "+" for "-", "*", "/" too, "<" for the other orders,
\* "&" for "|", "&&" for "||".
Operators == {"+", "<", "==", "&", "&&", "="}

CreateBinaryExpression_NoCast(op, l, r, ltype, rtype) ==
    LET wanted == IF IsFloatType(ltype) THEN IsFloats(l) ELSE IsInts(l)
    IN  CASE op = "+" -> Combine(l, r, wanted)
          [] op \in {"<", "=="} -> Compare(l, r, wanted)
          [] op \in {"&", "&&"} -> Combine(l, r, wanted)
CreateBinaryExpression(op, l, r, ltype, rtype) ==
    LET rcast == CastValueType(r, rtype, ltype)
        wanted == IF IsFloatType(ltype) THEN IsFloats(l) ELSE IsInts(l)
    IN  CASE rcast = Null -> Asserts
          [] op = "+" -> Combine(l, rcast, wanted)
          [] op \in {"<", "=="} -> Compare(l, rcast, wanted \/ (~IsFloatType(ltype) /\ IsPointers(l)))
          [] op \in {"&", "&&"} /\ ~IsFloatType(ltype) -> Combine(l, rcast, wanted)
          [] OTHER -> Null
=============================================================================
