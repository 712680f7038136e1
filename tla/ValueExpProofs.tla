--------------------------- MODULE ValueExpProofs ---------------------------
(***************************************************************************)
(* For every set of structures, variables and functions: the nodes of an    *)
(* expression are of their types, code LLVM takes calls what the source     *)
(* calls, targets have places, and plain expressions are lowered soundly.   *)
(* Each fact is carried by every node on the stack; an action makes one new *)
(* node from nodes that have it (Kept).                                     *)
(***************************************************************************)
EXTENDS ValueExp, TLAPS

\* Code LLVM takes made every call at least once, in an index possibly more often.
\* An initializer without elements so far counts as such code whatever its value.
Counts(e) ==
    /\ e.val \notin Faults \/ (checked /\ e.node = "init" /\ e.given = 0) => e.evals >= e.src
    /\ e.place \notin Faults => e.placeEvals >= e.src
    /\ e.indexed => e.src > 0
    /\ ~e.indexed => e.evals <= e.src /\ e.placeEvals = 0

\* The value of a plain expression.
Lowered(e) ==
    e.plain /\ ~e.info.array =>
        e.val \notin Faults /\ (e.info.type # kInvalid => e.val = Register(e.info))

\* The place of a plain expression that has one: part of a vector only behind a dot.
Placed(e) ==
    /\ e.inVector => e.node = "dot" /\ ~e.referable /\ e.info.type \in FloatTypes \cup IntegerTypes
                     /\ TypeElementCnt(e.info.type) = 1 /\ ~e.info.array
    /\ e.plain /\ (e.settable \/ e.referable) => e.lvalue
    /\ e.lvalue => e.node \in {"variable", "index", "dot"}
    /\ e.plain /\ e.lvalue => /\ Memory(e.info) \notin Faults
                              /\ e.info.type \notin {kVoid, kInvalid}
                              /\ e.place \notin Faults
                              /\ (IF e.inVector THEN Scalar(e.place) ELSE e.place) = Memory(e.info)
                              /\ e.inVector => e.place.lanes > 0

\* What is filled in of a call or an initializer.
Begun(e) ==
    /\ e.node \in {"call", "init"} => e.place = Null
    /\ e.node = "call" => e.callee \in Functions /\ e.info = ReturnOf[e.callee]
    /\ e.node = "init" => e.info.type \in Initializable /\ e.info = Info(e.info.type)

Good(e) == e \in Nodes /\ Counts(e) /\ Lowered(e) /\ Placed(e) /\ Begun(e)

IInv ==
    /\ TypeOK
    /\ \A i \in Levels : Good(stack[i])
    /\ plainStmt => status # "faulty"

-----------------------------------------------------------------------------
(* Types and their LLVM types                                               *)

USE DEF kFloat, kFloat2, kFloat3, kFloat4, kFloat8, kInt, kInt2, kInt3, kInt4, kInt8,
        kBoolean, kStructure, kVoid, kExternType, kInvalid

LEMMA Counted ==
    ASSUME NEW t \in Int
    PROVE  /\ TypeElementCnt(t) \in {0, 1, 2, 3, 4, 8}
           /\ t \in FloatTypes \cup IntegerTypes \cup {kBoolean} <=> TypeElementCnt(t) # 0
BY DEF TypeElementCnt, FloatTypes, IntegerTypes

LEMMA ConvertedTyped ==
    ASSUME NEW t \in Int
    PROVE  /\ ConvertToLLVMType(t) \in LLVMValues
           /\ ~ConvertToLLVMType(t).array
           /\ t \in VarType \ {kStructure, kInvalid} => ConvertToLLVMType(t) \notin Faults
BY DEF ConvertToLLVMType, LLVMValues, Faults, Ill, Null, Asserts, Value, Vector, VarType,
       SC_INT_TYPE, TypeElementCnt, IsFloatType, IsIntegerType, FloatTypes, IntegerTypes

\* A type a declaration may name has an LLVM type, in memory and in a register.
LEMMA MemoryTyped ==
    ASSUME NEW info \in Infos, Declared(info) \/ (info.type = kVoid /\ ~info.array)
    PROVE  /\ Memory(info) \in LLVMValues \ Faults
           /\ Register(info) \in LLVMValues \ Faults
           /\ Memory(info).array = info.array
<1>1. /\ info.type \in VarType \ {kInvalid} /\ info.array \in BOOLEAN
      /\ info.type = kStructure => info.struct \in Structs
  BY DEF Declared, Infos, VarType
<1>2. Memory(info) \in LLVMValues \ Faults /\ Memory(info).array = info.array
  <2>1. CASE info.type = kStructure
    BY <1>1, <2>1, DeclarationsAssumption
       DEF Memory, LLVMValues, Faults, Ill, Null, Asserts, Value, NoStruct
  <2>2. CASE info.type # kStructure
    BY <1>1, <2>2 DEF Memory, LLVMValues, Faults, Ill, Null, Asserts, Value, VarType, Vector,
         ConvertToLLVMType, SC_INT_TYPE, TypeElementCnt, IsFloatType, IsIntegerType,
         FloatTypes, IntegerTypes
  <2> QED BY <2>1, <2>2
<1> QED BY <1>2 DEF Register, Bit, Value, LLVMValues, Faults, Ill, Null, Asserts

-----------------------------------------------------------------------------
(* Instructions: of their types, and faulty for faulty operands             *)

LEMMA FaultsTyped == Faults \subseteq LLVMValues /\ Ill \in Faults /\ Null \in Faults /\ Asserts \in Faults
BY DEF LLVMValues, Faults

LEMMA ValueFields ==
    ASSUME NEW v \in LLVMValues
    PROVE  v \in [of : {"ill", "null", "assert", "i1", "i32", "float", "ptr", "void"} \cup Structs,
                  lanes : 0..8, array : BOOLEAN]
<1>1. \A of \in {"ill", "null", "assert"} :
         Value(of, 0) \in [of : {"ill", "null", "assert"}, lanes : 0..8, array : BOOLEAN]
  BY DEF Value
<1>2. CASE v \in Faults
  BY <1>1, <1>2 DEF Faults, Ill, Null, Asserts
<1>3. CASE v \notin Faults
  BY <1>3 DEF LLVMValues
<1> QED BY <1>2, <1>3

LEMMA ValuesEqual ==
    ASSUME NEW v \in LLVMValues, NEW w \in LLVMValues, v.of = w.of, v.lanes = w.lanes, v.array = w.array
    PROVE  v = w
BY ValueFields

LEMMA NotArray ==
    ASSUME NEW v \in LLVMValues, ~v.array
    PROVE  [v EXCEPT !.array = FALSE] = v
BY ValueFields

LEMMA VectorsSound ==
    ASSUME NEW v \in LLVMValues, v.lanes > 0 \/ v.array \/ IsInts(v) \/ IsFloats(v) \/ IsPointers(v)
    PROVE  v \notin Faults
BY DEF LLVMValues, Faults, Ill, Null, Asserts, Value, IsInts, IsFloats, IsPointers

LEMMA Reshaped ==
    ASSUME NEW of \in {"float", "i32"}, NEW n \in 1..8, NEW m \in 1..8
    PROVE  ShuffleVector(Value(of, n), m) = Value(of, m)
<1> DEFINE v == Value(of, n)
           w == Value(of, m)
<1>1. v \in LLVMValues /\ w \in LLVMValues
  BY DEF Value, LLVMValues
<1>2. v.of = of /\ v.lanes = n /\ ~v.array /\ w.of = of /\ w.lanes = m /\ ~w.array
  BY DEF Value
<1> HIDE DEF v, w
<1>3. v \in [of : {"float", "i32"}, lanes : 0..8, array : BOOLEAN] /\ v \notin Faults
  BY <1>1, <1>2, ValueFields, VectorsSound DEF IsInts, IsFloats
<1>4. [v EXCEPT !.lanes = m] \in LLVMValues
  BY <1>3 DEF LLVMValues
<1>5. [v EXCEPT !.lanes = m] = w
  <2>1. /\ [v EXCEPT !.lanes = m].of = v.of
        /\ [v EXCEPT !.lanes = m].lanes = m
        /\ [v EXCEPT !.lanes = m].array = v.array
    BY <1>3
  <2>2. v.array = FALSE /\ w.array = FALSE
    BY <1>1, <1>2, ValueFields
  <2> QED BY <1>1, <1>2, <1>4, <2>1, <2>2, ValuesEqual
<1>6. ShuffleVector(v, m) = w
  BY <1>2, <1>5 DEF ShuffleVector
<1> QED BY <1>6 DEF v, w

LEMMA ShuffleTyped ==
    ASSUME NEW v \in LLVMValues, NEW n \in 0..8
    PROVE  /\ ShuffleVector(v, n) \in LLVMValues
           /\ ShuffleVector(v, n) \notin Faults => v \notin Faults
BY DEF ShuffleVector, LLVMValues, Faults, Ill, Null, Asserts, Value

LEMMA ElementTyped ==
    ASSUME NEW v \in LLVMValues
    PROVE  /\ ExtractElement(v) \in LLVMValues
           /\ ExtractElement(v) \notin Faults => v \notin Faults
           /\ Element(v) \in LLVMValues
           /\ Element(v) \notin Faults => v \notin Faults
BY DEF ExtractElement, Element, Scalar, LLVMValues, Faults, Ill, Null, Asserts, Value

LEMMA InsertTyped ==
    ASSUME NEW v \in LLVMValues, NEW elem \in LLVMValues
    PROVE  /\ InsertElement(v, elem) \in LLVMValues
           /\ InsertElement(v, elem) \notin Faults => v \notin Faults /\ elem \notin Faults
<1>1. CASE v.lanes > 0 /\ elem = Scalar(v)
  <2>1. v \in LLVMValues \ Faults
    BY <1>1, VectorsSound
  <2>2. v.of \notin {"ill", "null", "assert"}
    BY <2>1, DeclarationsAssumption DEF LLVMValues
  <2>3. elem.of = v.of
    BY <1>1, <2>1 DEF Scalar, LLVMValues
  <2> QED BY <1>1, <2>1, <2>2, <2>3 DEF InsertElement, Faults, Ill, Null, Asserts, Value
<1>2. CASE ~(v.lanes > 0 /\ elem = Scalar(v))
  BY <1>2, FaultsTyped DEF InsertElement
<1> QED BY <1>1, <1>2

LEMMA ConvertTyped ==
    ASSUME NEW v \in LLVMValues, NEW src \in Int, NEW dest \in Int
    PROVE  /\ ConvertKind(v, src, dest) \in LLVMValues
           /\ ConvertKind(v, src, dest) \notin Faults => v \notin Faults
<1> DEFINE t == MakeType(~IsFloatType(dest), TypeElementCnt(dest))
           target == ConvertToLLVMType(t)
<1>1. t \in Int
  BY Counted DEF MakeType
<1>2. target \in LLVMValues
  BY <1>1, ConvertedTyped
<1>3. FPToSI(v, target) \notin Faults => v \notin Faults
  BY VectorsSound, FaultsTyped DEF FPToSI
<1>4. SIToFP(v, target) \notin Faults => v \notin Faults
  BY VectorsSound, FaultsTyped DEF SIToFP
<1>5. FPToSI(v, target) \in LLVMValues /\ SIToFP(v, target) \in LLVMValues
  BY <1>2, FaultsTyped DEF FPToSI, SIToFP
<1> QED BY <1>3, <1>4, <1>5 DEF ConvertKind

LEMMA CastTyped ==
    ASSUME NEW v \in LLVMValues, NEW src \in Int, NEW dest \in Int
    PROVE  /\ CastValueType(v, src, dest) \in LLVMValues
           /\ CastValueType(v, src, dest) \notin Faults => v \notin Faults
<1>1. TypeElementCnt(src) \in 0..8 /\ TypeElementCnt(dest) \in 0..8
  BY Counted
<1>2. SC_INT_TYPE \in LLVMValues /\ (Select(v, SC_INT_TYPE) \notin Faults => v \notin Faults)
  BY DEF SC_INT_TYPE, Select, Bit, LLVMValues, Faults, Ill, Null, Asserts, Value
<1>3. Select(v, SC_INT_TYPE) \in LLVMValues
  BY <1>2, FaultsTyped DEF Select
<1>4. \A w \in LLVMValues : ConvertKind(w, src, dest) \in LLVMValues
                            /\ (ConvertKind(w, src, dest) \notin Faults => w \notin Faults)
  BY ConvertTyped
<1> QED BY <1>1, <1>2, <1>3, <1>4, ShuffleTyped, FaultsTyped DEF CastValueType

LEMMA OperationTyped ==
    ASSUME NEW op \in Operators \ {"="}, NEW l \in LLVMValues, NEW r \in LLVMValues,
           NEW lt \in Int, NEW rt \in Int
    PROVE  /\ CreateBinaryExpression(op, l, r, lt, rt) \in LLVMValues
           /\ CreateBinaryExpression(op, l, r, lt, rt) \notin Faults => l \notin Faults /\ r \notin Faults
<1> DEFINE rcast == CastValueType(r, rt, lt)
           wanted == IF IsFloatType(lt) THEN IsFloats(l) ELSE IsInts(l)
<1>1. rcast \in LLVMValues /\ (rcast \notin Faults => r \notin Faults)
  BY CastTyped
<1>2. wanted => l \notin Faults
  BY VectorsSound
<1>3. IsPointers(l) => l \notin Faults
  BY VectorsSound
<1>4. [l EXCEPT !.of = "i1"] \in LLVMValues
  BY ValueFields DEF LLVMValues
<1> HIDE DEF rcast, wanted
<1>5. Combine(l, rcast, wanted) \in LLVMValues
      /\ (Combine(l, rcast, wanted) \notin Faults => l \notin Faults /\ rcast \notin Faults)
  BY <1>1, <1>2, FaultsTyped DEF Combine
<1>6. ASSUME NEW w, w => l \notin Faults
      PROVE  Compare(l, rcast, w) \in LLVMValues
             /\ (Compare(l, rcast, w) \notin Faults => l \notin Faults /\ rcast \notin Faults)
  BY <1>1, <1>4, <1>6, FaultsTyped DEF Compare
<1>7. Compare(l, rcast, wanted \/ (~IsFloatType(lt) /\ IsPointers(l))) \in LLVMValues
      /\ (Compare(l, rcast, wanted \/ (~IsFloatType(lt) /\ IsPointers(l))) \notin Faults
            => l \notin Faults /\ rcast \notin Faults)
  BY <1>2, <1>3, <1>6
<1> QED BY <1>1, <1>5, <1>7, FaultsTyped DEF CreateBinaryExpression, Operators, rcast, wanted

LEMMA PlacesTyped ==
    ASSUME NEW p \in LLVMValues, NEW i \in LLVMValues
    PROVE  /\ GEP(p, i) \in LLVMValues
           /\ GEP(p, i) \notin Faults => p \notin Faults /\ i \notin Faults
           /\ Store(i, p) \in LLVMValues
           /\ Store(i, p) \notin Faults => p \notin Faults /\ i \notin Faults
<1>1. p.array => [p EXCEPT !.array = FALSE] \in LLVMValues
  <2> SUFFICES ASSUME p.array PROVE [p EXCEPT !.array = FALSE] \in LLVMValues
    OBVIOUS
  <2>1. p \notin Faults
    BY VectorsSound
  <2> QED BY <2>1 DEF LLVMValues
<1>2. GEP(p, i) \in LLVMValues
  BY <1>1, FaultsTyped DEF GEP
<1>3. GEP(p, i) \notin Faults => p \notin Faults /\ i \notin Faults
  BY VectorsSound, FaultsTyped DEF GEP
<1> QED BY <1>2, <1>3, FaultsTyped DEF Store

-----------------------------------------------------------------------------
(* Values of the plain language                                             *)

\* What is no array lies in memory and in a register as its type says.
LEMMA PlainMemory ==
    ASSUME NEW info \in Infos, ~info.array, info.type # kStructure
    PROVE  /\ Memory(info) = ConvertToLLVMType(info.type)
           /\ Register(info) = IF info.type = kBoolean THEN Bit ELSE ConvertToLLVMType(info.type)
<1>1. info.type \in VarType
  BY DEF Infos
<1>2. [ConvertToLLVMType(info.type) EXCEPT !.array = FALSE] = ConvertToLLVMType(info.type)
  <2> DEFINE c == ConvertToLLVMType(info.type)
  <2>1. c \in LLVMValues /\ ~c.array
    BY <1>1, ConvertedTyped DEF VarType
  <2> HIDE DEF c
  <2>2. [c EXCEPT !.array = FALSE] = c
    BY <2>1, NotArray
  <2> QED BY <2>2 DEF c
<1> QED BY <1>2 DEF Memory, Register, Infos

LEMMA CastPlain ==
    ASSUME NEW src \in VarType, NEW dest \in VarType, PlainCast(dest, src),
           NEW v \in LLVMValues,
           v = IF src = kBoolean THEN Bit ELSE ConvertToLLVMType(src)
    PROVE  CastValueType(v, src, dest) = ConvertToLLVMType(dest)
<1>1. CASE src = dest
  <2>1. ConvertToLLVMType(kBoolean) = SC_INT_TYPE
    BY DEF ConvertToLLVMType, IsFloatType, IsIntegerType, FloatTypes, IntegerTypes
  <2>2. TypeElementCnt(src) \in Int
    BY Counted DEF VarType
  <2> QED BY <1>1, <2>1, <2>2 DEF CastValueType, ConvertKind, Select
<1>2. CASE src = kBoolean /\ dest = kFloat
  BY <1>2 DEF CastValueType, ConvertKind, TypeElementCnt, SIToFP, IsInts, IsFloats, Bit, Value, Vector,
       MakeType, ConvertToLLVMType, IsFloatType, FloatTypes, IsIntegerType, IntegerTypes
<1>3. CASE /\ dest \in FloatTypes \cup IntegerTypes /\ src \in FloatTypes \cup IntegerTypes /\ src # dest
           /\ TypeElementCnt(dest) <= TypeElementCnt(src)
           /\ TypeElementCnt(dest) = 1 => TypeElementCnt(src) = 1
           /\ TypeElementCnt(dest) = 8 => IsFloatType(dest) = IsFloatType(src)
  <2> DEFINE n == TypeElementCnt(src)
             m == TypeElementCnt(dest)
             of == IF IsFloatType(src) THEN "float" ELSE "i32"
             w == Vector(of, m)
  <2>1. n \in {1, 2, 3, 4, 8} /\ m \in {1, 2, 3, 4, 8} /\ m <= n
    BY <1>3, Counted DEF FloatTypes, IntegerTypes
  <2>2. v = Vector(of, n)
    BY <1>3 DEF ConvertToLLVMType, IsFloatType, IsIntegerType, FloatTypes, IntegerTypes
  <2>3. n > m => ShuffleVector(v, m) = w
    <3>1. n > m => n \in 2..8 /\ m \in 2..8
      BY <1>3, <2>1
    <3>2. n > m => v = Value(of, n) /\ w = Value(of, m)
      BY <2>2, <3>1 DEF Vector
    <3> QED BY <3>1, <3>2, Reshaped
  <2>4. ConvertKind(w, src, dest) = ConvertToLLVMType(dest)
    <3>1. CASE IsFloatType(src) = IsFloatType(dest)
      BY <1>3, <3>1 DEF ConvertKind, ConvertToLLVMType, IsFloatType, IsIntegerType, FloatTypes, IntegerTypes
    <3>2. CASE IsFloatType(src) # IsFloatType(dest)
      <4>1. m \in {1, 2, 3, 4}
        BY <1>3, <2>1, <3>2
      <4>2. MakeType(~IsFloatType(dest), m) = dest
        BY <1>3, <4>1 DEF MakeType, IsFloatType, FloatTypes, IntegerTypes, TypeElementCnt
      <4>3. ConvertToLLVMType(dest) = Vector(IF IsFloatType(dest) THEN "float" ELSE "i32", m)
        BY <1>3 DEF ConvertToLLVMType, IsFloatType, IsIntegerType, FloatTypes, IntegerTypes
      <4>4. w.lanes = Vector("float", m).lanes /\ w.lanes = Vector("i32", m).lanes /\ ~w.array
            /\ w.of = of
        BY DEF Vector, Value
      <4>5. ~Vector("float", m).array /\ ~Vector("i32", m).array
            /\ Vector("float", m).of = "float" /\ Vector("i32", m).of = "i32"
        BY DEF Vector, Value
      <4> HIDE DEF m, w
      <4>6. CASE IsFloatType(src) /\ ~IsFloatType(dest)
        <5>1. ConvertKind(w, src, dest) = FPToSI(w, ConvertToLLVMType(dest))
          BY <4>2, <4>6 DEF ConvertKind, m
        <5> QED BY <4>3, <4>4, <4>5, <4>6, <5>1 DEF FPToSI, IsInts, IsFloats
      <4>7. CASE ~IsFloatType(src) /\ IsFloatType(dest)
        <5>1. ConvertKind(w, src, dest) = SIToFP(w, ConvertToLLVMType(dest))
          BY <4>2, <4>7 DEF ConvertKind, m
        <5> QED BY <4>3, <4>4, <4>5, <4>7, <5>1 DEF SIToFP, IsInts, IsFloats
      <4> QED BY <3>2, <4>6, <4>7 DEF IsFloatType
    <3> QED BY <3>1, <3>2
  <2>5. ~(src = kBoolean /\ dest = kBoolean)
    BY <1>3 DEF FloatTypes, IntegerTypes
  <2>6. n = m => v = w
    BY <2>2
  <2> HIDE DEF w, of
  <2> QED BY <2>1, <2>3, <2>4, <2>5, <2>6 DEF CastValueType
<1> QED BY <1>1, <1>2, <1>3 DEF PlainCast

\* Without types nothing is converted.
LEMMA CastUnchecked ==
    ASSUME NEW v, NEW t \in VarType, TypeElementCnt(t) = 0
    PROVE  CastValueType(v, kInvalid, t) = v
<1>1. ~IsFloatType(t) /\ ~IsFloatType(kInvalid) /\ TypeElementCnt(kInvalid) = 0
  BY DEF TypeElementCnt, IsFloatType, FloatTypes, VarType
<1>2. t # kBoolean
  BY DEF TypeElementCnt
<1> QED BY <1>1, <1>2 DEF CastValueType, ConvertKind

-----------------------------------------------------------------------------
(* The stack                                                                *)

LEMMA NewNode ==
    ASSUME NEW kind \in {"value", "variable", "dot", "index", "call", "init"},
           NEW info \in Infos, NEW val \in LLVMValues
    PROVE  Node(kind, info, val) \in Nodes
BY FaultsTyped DEF Node, Nodes

LEMMA InfoTyped ==
    /\ \A t \in VarType : Info(t) \in Infos
    /\ Unknown \in Infos
BY DEF Info, Unknown, Infos, VarType

LEMMA NothingGood == Good(Nothing)
<1>1. Nothing \in Nodes
  <2>1. Node("value", Unknown, Null) \in Nodes
    BY NewNode, InfoTyped, FaultsTyped
  <2>2. \A u \in Nodes : [u EXCEPT !.plain = FALSE] \in Nodes
    BY DEF Nodes
  <2> QED BY <2>1, <2>2 DEF Nothing
<1> QED BY <1>1, FaultsTyped DEF Nothing, Node, Good, Counts, Lowered, Placed, Begun

\* An action that makes a good node keeps the invariant, whether the check accepts
\* the node or not.
LEMMA Kept ==
    ASSUME IInv, NEW n \in 0..2, NEW accepted, NEW e,
           Replace(n, e, accepted), size' \in 0..MaxNodes,
           accepted \/ ~checked => Good(e)
    PROVE  IInv'
<1>1. checked' = checked /\ plainStmt' = plainStmt
  BY DEF Replace
<1>2. ASSUME NEW x, Good(x) PROVE Good(x)'
  BY <1>1, <1>2 DEF Good, Counts, Lowered, Placed, Begun
<1>3. Good(Nothing)
  BY NothingGood
<1>4. CASE (accepted \/ ~checked) /\ depth' = depth - n + 1 /\ UNCHANGED status
           /\ stack' = [i \in Levels |-> IF i < depth' THEN stack[i] ELSE IF i = depth' THEN e ELSE Nothing]
  <2>1. \A i \in Levels : Good(stack'[i])
    BY <1>3, <1>4 DEF IInv
  <2>2. \A i \in Levels : Good(stack[i])'
    BY <1>2, <2>1
  <2>3. stack' \in [Levels -> Nodes]
    BY <1>4, <2>1 DEF Good
  <2>4. depth' \in 0..MaxStack
    BY <1>4, BoundsAssumption DEF Replace, Levels
  <2> QED BY <1>1, <1>4, <2>2, <2>3, <2>4 DEF IInv, TypeOK
<1>5. CASE status' = "refused" /\ stack' = [i \in Levels |-> Nothing] /\ depth' = 0
  <2>1. \A i \in Levels : Good(stack'[i])
    BY <1>3, <1>5
  <2>2. \A i \in Levels : Good(stack[i])'
    BY <1>2, <2>1
  <2>3. stack' \in [Levels -> Nodes]
    BY <1>5, <2>1 DEF Good
  <2> QED BY <1>1, <1>5, <2>2, <2>3, BoundsAssumption DEF IInv, TypeOK
<1> QED BY <1>4, <1>5 DEF Replace

LEMMA Made ==
    ASSUME IInv, NEW n \in 0..2, NEW accepted \in BOOLEAN, NEW e,
           MakeNode(n, e, accepted) \/ FillNode(n, e, accepted),
           accepted \/ ~checked => Good(e)
    PROVE  IInv'
<1>1. Replace(n, e, accepted)
  BY DEF MakeNode, FillNode
<1>2. size' \in 0..MaxNodes
  BY BoundsAssumption DEF MakeNode, FillNode, IInv, TypeOK
<1> QED BY <1>1, <1>2, Kept

LEMMA Built1 ==
    ASSUME IInv, Operand
    PROVE  Good(Top) /\ depth \in Levels
BY DEF IInv, TypeOK, Operand, Top, Levels

LEMMA BuiltGood ==
    ASSUME IInv, NEW e \in Built
    PROVE  Good(e)
<1>1. PICK j \in 1..depth : e = stack[j]
  BY DEF Built
<1>2. j \in Levels
  BY <1>1, BoundsAssumption DEF IInv, TypeOK, Levels
<1> QED BY <1>1, <1>2 DEF IInv

LEMMA Built2 ==
    ASSUME IInv, depth >= 2
    PROVE  Good(Below) /\ Good(Top) /\ depth \in Levels
BY BoundsAssumption DEF IInv, TypeOK, Top, Below, Levels

-----------------------------------------------------------------------------
(* Leaves                                                                   *)

LEMMA ConstantKept ==
    ASSUME IInv, NEW t \in {kFloat, kInt, kBoolean}, Constant(t)
    PROVE  IInv'
<1> DEFINE e == Node("value", Info(t), Register(Info(t)))
<1>1. Info(t) \in Infos /\ Declared(Info(t)) /\ Info(t).type = t
  <2>1. Info(t) \in Infos
    BY InfoTyped DEF VarType
  <2>2. Info(t).type = t /\ Info(t).struct = NoStruct
    BY DEF Info
  <2> QED BY <2>1, <2>2 DEF Declared
<1>2. Register(Info(t)) \in LLVMValues \ Faults
  BY <1>1, MemoryTyped
<1>3. e \in Nodes
  BY <1>1, <1>2, NewNode
<1>4. Good(e)
  BY <1>1, <1>2, <1>3, FaultsTyped DEF Node, Good, Counts, Lowered, Placed, Begun
<1> DEFINE accepted == TRUE
<1>5. MakeNode(0, e, accepted) /\ accepted \in BOOLEAN
  BY DEF Constant
<1> HIDE DEF e, accepted
<1> QED BY <1>4, <1>5, Made

LEMMA VariableKept ==
    ASSUME IInv, NEW v \in Variables, VariableRef(v)
    PROVE  IInv'
<1> DEFINE b == Node("variable", v, VariableValue(v))
           e == [b EXCEPT !.assignable = TRUE, !.settable = ~v.array, !.referable = ~v.array,
                          !.place = Memory(v), !.lvalue = TRUE]
<1>1. v \in Infos /\ Declared(v)
  BY DeclarationsAssumption DEF Declared
<1>2. Memory(v) \in LLVMValues \ Faults /\ VariableValue(v) \in LLVMValues
      /\ (~v.array => VariableValue(v) = Register(v) /\ VariableValue(v) \notin Faults)
  BY <1>1, MemoryTyped, FaultsTyped DEF VariableValue, Register
<1>3. b \in Nodes
  BY <1>1, <1>2, NewNode
<1>4. e \in Nodes
  BY <1>1, <1>2, <1>3 DEF Nodes, Infos
<1>5. Good(e)
  BY <1>1, <1>2, <1>4, FaultsTyped DEF Node, Good, Counts, Lowered, Placed, Begun, Declared
<1> DEFINE accepted == TRUE
<1>6. MakeNode(0, e, accepted) /\ accepted \in BOOLEAN
  BY DEF VariableRef
<1> HIDE DEF e, accepted
<1> QED BY <1>5, <1>6, Made

-----------------------------------------------------------------------------
(* Operators                                                                *)

\* A value without a place is good if its calls and its type are right.
LEMMA ValueGood ==
    ASSUME NEW e \in Nodes, e.node = "value", e.place = Null, ~e.inVector, ~e.settable, ~e.referable,
           ~e.lvalue, e.placeEvals = 0,
           e.val \notin Faults => e.evals >= e.src,
           e.indexed => e.src > 0, ~e.indexed => e.evals <= e.src,
           Lowered(e)
    PROVE  Good(e)
BY FaultsTyped DEF Good, Counts, Placed, Begun

\* The LLVM type of a number or a truth value.
LEMMA RegisterKinds ==
    ASSUME NEW info \in Infos, ~info.array
    PROVE  /\ IsIntegerType(info.type) \/ info.type = kBoolean => IsInts(Register(info))
           /\ IsFloatType(info.type) => IsFloats(Register(info))
           /\ TypeElementCnt(info.type) = 1 => Register(info).lanes = 0
           /\ info.type = kBoolean => Register(info) = Bit
<1>1. info.type \in VarType
  BY DEF Infos
<1>2. CASE info.type = kStructure
  BY <1>2 DEF IsIntegerType, IsFloatType, IntegerTypes, FloatTypes, TypeElementCnt
<1>3. CASE info.type # kStructure
  BY <1>1, <1>3, PlainMemory DEF IsIntegerType, IsFloatType, IntegerTypes, FloatTypes, TypeElementCnt,
     ConvertToLLVMType, IsInts, IsFloats, Vector, Value, Bit, Null, SC_INT_TYPE, VarType
<1> QED BY <1>2, <1>3

LEMMA UnaryKept ==
    ASSUME IInv, NEW op, UnaryOp(op)
    PROVE  IInv'
<1> DEFINE p == Top
           accepted == CheckUnary(op, p)
           val == IF IsInts(p.val) THEN p.val ELSE Ill
           plain == /\ accepted /\ p.plain
                    /\ IsIntegerType(p.info.type) \/ p.info.type = kBoolean
           b == Node("value", Typed(accepted, p.info), val)
           e == [b EXCEPT !.assignable = p.assignable, !.src = p.src, !.evals = p.evals,
                          !.indexed = p.indexed, !.plain = plain]
<1>1. Good(p) /\ p \in Nodes
  BY Built1 DEF UnaryOp, Good
<1>2. MakeNode(1, e, accepted)
  BY DEF UnaryOp
<1>3. accepted \in BOOLEAN /\ plain \in BOOLEAN
  BY DEF CheckUnary
<1> HIDE DEF p, accepted, plain
<1>4. val \in LLVMValues /\ (val \notin Faults => p.val \notin Faults) /\ p.info \in Infos
  BY <1>1, FaultsTyped DEF Nodes
<1>5. Typed(accepted, p.info) \in Infos
  BY <1>4, InfoTyped DEF Typed
<1> HIDE DEF val
<1>6. b \in Nodes
  BY <1>4, <1>5, NewNode
<1>7. e \in Nodes
  BY <1>1, <1>3, <1>6 DEF Nodes
<1>8. /\ e.node = "value" /\ e.place = Null /\ ~e.inVector /\ ~e.settable /\ ~e.referable /\ ~e.lvalue
      /\ e.placeEvals = 0 /\ e.val = val /\ e.src = p.src /\ e.evals = p.evals /\ e.indexed = p.indexed
      /\ e.plain = plain /\ e.info = Typed(accepted, p.info)
  BY <1>6, <1>3 DEF Node
<1> HIDE DEF e
<1>9. Lowered(e)
  <2>1. plain => accepted /\ p.plain /\ ~p.info.array /\ (IsIntegerType(p.info.type) \/ p.info.type = kBoolean)
    BY DEF plain, accepted, CheckUnary
  <2>2. plain => p.val = Register(p.info) /\ p.val \notin Faults
    BY <1>1, <2>1 DEF Good, Lowered, IsIntegerType, IntegerTypes
  <2>3. plain => val = p.val
    BY <1>4, <2>1, <2>2, RegisterKinds DEF val
  <2> QED BY <1>8, <2>1, <2>2, <2>3 DEF Lowered, Typed
<1>10. Good(e)
  BY <1>1, <1>4, <1>7, <1>8, <1>9, ValueGood DEF Good, Counts
<1> QED BY <1>2, <1>3, <1>10, Made

\* What the check of an operator tells, operator by operator.
LEMMA BinaryChecks ==
    ASSUME NEW op \in Operators \ {"="}, NEW l, NEW r, CheckBinary(op, l, r)
    PROVE  /\ ~l.info.array /\ ~r.info.array
           /\ IsValueType(l.info.type) /\ IsValueType(r.info.type)
           /\ op \in {"+", "<", "&"} => l.info.type # kBoolean /\ r.info.type # kBoolean
           /\ op = "&" => IsIntegerType(l.info.type) /\ IsIntegerType(r.info.type)
           /\ op = "<" => TypeElementCnt(l.info.type) = 1
           /\ op = "==" => l.info.type = r.info.type
           /\ op = "&&" => l.info.type = kBoolean /\ r.info.type = kBoolean
<1>1. CASE op = "+"
  BY <1>1 DEF CheckBinary
<1>2. CASE op = "<"
  BY <1>2 DEF CheckBinary
<1>3. CASE op = "=="
  BY <1>3 DEF CheckBinary
<1>4. CASE op = "&"
  <2>1. IsIntegerType(l.info.type) /\ IsIntegerType(r.info.type)
    BY <1>4 DEF CheckBinary
  <2> QED BY <1>4, <2>1 DEF CheckBinary, IsIntegerType, IntegerTypes
<1>5. CASE op = "&&"
  BY <1>5 DEF CheckBinary
<1> QED BY <1>1, <1>2, <1>3, <1>4, <1>5 DEF Operators

LEMMA OperationPlain ==
    ASSUME NEW op \in Operators \ {"="}, NEW l \in Nodes, NEW r \in Nodes, checked \in BOOLEAN,
           CheckBinary(op, l, r), PlainOperation(op, l, r),
           l.val = Register(l.info), r.val = Register(r.info), r.val \notin Faults, l.val \notin Faults
    PROVE  /\ CreateBinaryExpression(op, l.val, r.val, CachedType(l), CachedType(r)) = Register(ResultOf(op, l))
           /\ Register(ResultOf(op, l)) \notin Faults
<1> DEFINE lt == l.info.type
           rt == r.info.type
           rcast == CastValueType(r.val, CachedType(r), CachedType(l))
           wanted == IF IsFloatType(CachedType(l)) THEN IsFloats(l.val) ELSE IsInts(l.val)
           bit == op \in {"<", "==", "&&"}
<1>1. /\ l.info \in Infos /\ r.info \in Infos /\ l.val \in LLVMValues /\ r.val \in LLVMValues
      /\ ~l.info.array /\ ~r.info.array /\ lt \in VarType /\ rt \in VarType
  BY BinaryChecks DEF Nodes, Infos
<1>2. /\ IsValueType(lt) /\ IsValueType(rt)
      /\ lt # kStructure /\ rt # kStructure
  BY BinaryChecks DEF IsValueType, FloatTypes, IntegerTypes
<1>3. /\ l.val = IF lt = kBoolean THEN Bit ELSE ConvertToLLVMType(lt)
      /\ r.val = IF rt = kBoolean THEN Bit ELSE ConvertToLLVMType(rt)
  BY <1>1, <1>2, PlainMemory
<1>4. /\ Register(ResultOf(op, l)) = IF bit THEN Bit ELSE ConvertToLLVMType(lt)
      /\ ~bit => lt # kBoolean
  <2>1. ~bit => lt # kBoolean
    BY BinaryChecks DEF Operators
  <2>2. Info(lt) \in Infos /\ Info(lt).type = lt /\ ~Info(lt).array
    BY <1>1, InfoTyped DEF Info
  <2>3. Register(Info(kBoolean)) = Bit
    BY DEF Register, Info
  <2>4. lt # kBoolean => Register(Info(lt)) = ConvertToLLVMType(lt)
    BY <1>2, <2>2, PlainMemory
  <2> HIDE DEF lt
  <2> QED BY <2>1, <2>3, <2>4 DEF ResultOf, lt
<1>5. /\ bit => TypeElementCnt(lt) = 1
      /\ IsInts(l.val) \/ IsFloats(l.val)
      /\ bit => l.val.lanes = 0 /\ ~l.val.array
      /\ wanted
  <2>1. bit => TypeElementCnt(lt) = 1
    <3>1. CASE op = "=="
      BY <3>1 DEF PlainOperation, TypeElementCnt
    <3>2. CASE op # "=="
      BY <3>2, BinaryChecks DEF TypeElementCnt
    <3> QED BY <3>1, <3>2
  <2>2. /\ IsIntegerType(lt) \/ lt = kBoolean => IsInts(l.val)
        /\ IsFloatType(lt) => IsFloats(l.val)
        /\ TypeElementCnt(lt) = 1 => l.val.lanes = 0
    BY <1>1, RegisterKinds
  <2>3. IsFloatType(CachedType(l)) <=> IsFloatType(lt) /\ checked
    BY DEF CachedType, Cached, Unknown, Info, IsFloatType, FloatTypes
  <2>4. ~checked => IsIntegerType(lt) \/ lt = kBoolean
    BY DEF PlainOperation
  <2>5. IsIntegerType(lt) \/ lt = kBoolean \/ IsFloatType(lt)
    BY <1>2 DEF IsValueType, IsIntegerType, IsFloatType
  <2>6. IsFloatType(lt) => ~IsIntegerType(lt) /\ lt # kBoolean
    BY DEF IsIntegerType, IsFloatType, FloatTypes, IntegerTypes
  <2> QED BY <2>1, <2>2, <2>3, <2>4, <2>5, <2>6 DEF IsInts, IsFloats
<1>6. rcast = l.val
  <2>1. CASE checked
    <3>1. PlainCast(lt, rt) /\ lt # kBoolean
      BY <2>1, BinaryChecks DEF PlainOperation, Operators
    <3>2. CastValueType(r.val, rt, lt) = ConvertToLLVMType(lt)
      BY <1>1, <1>3, <3>1, CastPlain
    <3> QED BY <1>3, <2>1, <3>1, <3>2 DEF CachedType, Cached
  <2>2. CASE ~checked
    <3>1. CachedType(l) = kInvalid /\ CachedType(r) = kInvalid
      BY <2>2 DEF CachedType, Cached, Unknown, Info
    <3>2. TypeElementCnt(kInvalid) = 0 /\ kInvalid \in VarType
      BY DEF TypeElementCnt, VarType
    <3>3. rcast = r.val
      BY <3>1, <3>2, CastUnchecked
    <3>4. lt = rt
      BY <2>2, BinaryChecks DEF PlainOperation
    <3> QED BY <1>3, <3>3, <3>4
  <2> QED BY <2>1, <2>2
<1>7. bit => [l.val EXCEPT !.of = "i1"] = Bit
  <2> SUFFICES ASSUME bit PROVE [l.val EXCEPT !.of = "i1"] = Bit
    OBVIOUS
  <2>1. Bit \in LLVMValues /\ Bit.of = "i1" /\ Bit.lanes = 0 /\ Bit.array = FALSE
    BY DEF Bit, Value, LLVMValues
  <2>2. l.val.array = FALSE /\ l.val \in [of : {"i1", "i32", "float", "ptr", "void"} \cup Structs,
                                           lanes : 0..8, array : BOOLEAN]
    BY <1>1, <1>5 DEF LLVMValues
  <2>3. [l.val EXCEPT !.of = "i1"] \in LLVMValues
    BY <2>2 DEF LLVMValues
  <2>4. /\ [l.val EXCEPT !.of = "i1"].of = "i1"
        /\ [l.val EXCEPT !.of = "i1"].lanes = l.val.lanes
        /\ [l.val EXCEPT !.of = "i1"].array = l.val.array
    BY <2>2
  <2> QED BY <1>5, <2>1, <2>2, <2>3, <2>4, ValuesEqual
<1>8. op \in {"&", "&&"} => ~IsFloatType(CachedType(l))
  BY BinaryChecks DEF CachedType, Cached, Unknown, Info, IsFloatType, FloatTypes, IsIntegerType, IntegerTypes
<1>9. op \in {"&", "&&"} => (checked => op = "&")
  BY DEF PlainOperation
<1>10. op = "&&" => l.val = Bit
  BY <1>3, BinaryChecks
<1>11. Bit \notin Faults
  BY DEF Bit, Value, Faults, Ill, Null, Asserts
<1>12. rcast # Null
  BY <1>6, FaultsTyped
<1> HIDE DEF lt, rcast, wanted
<1>13. CASE op = "+" \/ op = "&" \/ op = "&&"
  <2>1. Combine(l.val, rcast, wanted) = l.val
    BY <1>5, <1>6 DEF Combine
  <2>2. CreateBinaryExpression(op, l.val, r.val, CachedType(l), CachedType(r)) = l.val
    BY <1>8, <1>12, <1>13, <2>1 DEF CreateBinaryExpression, rcast, wanted
  <2> QED BY <1>3, <1>4, <1>10, <1>11, <1>13, <2>2
<1>14. CASE op \in {"<", "=="}
  <2>1. \A w : w => Compare(l.val, rcast, w) = Bit
    BY <1>6, <1>7, <1>14 DEF Compare
  <2>2. CreateBinaryExpression(op, l.val, r.val, CachedType(l), CachedType(r)) = Bit
    BY <1>5, <1>12, <1>14, <2>1 DEF CreateBinaryExpression, rcast, wanted
  <2> QED BY <1>4, <1>11, <1>14, <2>2
<1> QED BY <1>13, <1>14 DEF Operators

LEMMA BinaryKept ==
    ASSUME IInv, NEW op \in Operators \ {"="}, BinaryOp(op)
    PROVE  IInv'
<1> DEFINE l == Below
           r == Top
           accepted == CheckBinary(op, l, r)
           made == CreateBinaryExpression(op, l.val, r.val, CachedType(l), CachedType(r))
           val == IF r.val = Null THEN Null ELSE made
           plain == accepted /\ l.plain /\ r.plain /\ PlainOperation(op, l, r)
           b == Node("value", Typed(accepted, ResultOf(op, l)), val)
           e == [b EXCEPT !.src = l.src + r.src, !.evals = l.evals + r.evals,
                          !.indexed = l.indexed \/ r.indexed, !.plain = plain]
<1>1. Good(l) /\ Good(r) /\ l \in Nodes /\ r \in Nodes /\ checked \in BOOLEAN
  BY Built2 DEF BinaryOp, Operands, Good, IInv, TypeOK
<1>2. MakeNode(2, e, accepted)
  BY DEF BinaryOp
<1>3. plain \in BOOLEAN
  BY DEF plain
<1>4. accepted \in BOOLEAN
  BY DEF CheckBinary
<1> HIDE DEF l, r, accepted, plain, made
<1>5. /\ l.info \in Infos /\ l.info.type \in VarType
      /\ l.val \in LLVMValues /\ r.val \in LLVMValues
      /\ l.src \in Nat /\ r.src \in Nat /\ l.evals \in Nat /\ r.evals \in Nat
      /\ l.indexed \in BOOLEAN /\ r.indexed \in BOOLEAN
  BY <1>1 DEF Nodes, Infos
<1>6. CachedType(l) \in Int /\ CachedType(r) \in Int
  BY <1>1 DEF CachedType, Cached, Unknown, Info, Nodes, Infos, VarType
<1>7. val \in LLVMValues /\ (val \notin Faults => l.val \notin Faults /\ r.val \notin Faults)
  BY <1>5, <1>6, OperationTyped, FaultsTyped DEF made
<1>8. Typed(accepted, ResultOf(op, l)) \in Infos
  BY <1>5, InfoTyped DEF Typed, ResultOf, VarType
<1> HIDE DEF val
<1>9. b \in Nodes
  BY <1>7, <1>8, NewNode
<1>10. e \in Nodes
  <2>1. l.src + r.src \in Nat /\ l.evals + r.evals \in Nat /\ (l.indexed \/ r.indexed) \in BOOLEAN
    BY <1>5
  <2> QED BY <1>3, <1>9, <2>1 DEF Nodes
<1>11. /\ e.node = "value" /\ e.place = Null /\ ~e.inVector /\ ~e.settable /\ ~e.referable /\ ~e.lvalue
       /\ e.placeEvals = 0 /\ e.val = val /\ e.src = l.src + r.src /\ e.evals = l.evals + r.evals
       /\ e.indexed = (l.indexed \/ r.indexed)
       /\ e.plain = plain /\ e.info = Typed(accepted, ResultOf(op, l))
  BY <1>9, <1>3 DEF Node
<1> HIDE DEF e
<1>12. Lowered(e)
  <2> SUFFICES ASSUME plain
               PROVE  val \notin Faults /\ val = Register(ResultOf(op, l)) /\ accepted
    BY <1>11 DEF Lowered, Typed
  <2>1. accepted /\ l.plain /\ r.plain /\ PlainOperation(op, l, r)
    BY DEF plain
  <2>2. /\ ~l.info.array /\ ~r.info.array
        /\ l.info.type # kInvalid /\ r.info.type # kInvalid
    BY <2>1, BinaryChecks DEF accepted, IsValueType, FloatTypes, IntegerTypes
  <2>3. /\ l.val = Register(l.info) /\ l.val \notin Faults
        /\ r.val = Register(r.info) /\ r.val \notin Faults
    BY <1>1, <2>1, <2>2 DEF Good, Lowered
  <2>4. made = Register(ResultOf(op, l)) /\ made \notin Faults
    BY <1>1, <2>1, <2>3, OperationPlain DEF made, accepted
  <2> QED BY <2>1, <2>3, <2>4, FaultsTyped DEF val
<1>13. Good(e)
  BY <1>1, <1>5, <1>7, <1>10, <1>11, <1>12, ValueGood DEF Good, Counts
<1> QED BY <1>2, <1>4, <1>13, Made

LEMMA AssignCodeTyped ==
    ASSUME NEW l \in Nodes, NEW v \in LLVMValues
    PROVE  /\ AssignCode(l, v) \in LLVMValues
           /\ AssignCode(l, v) \notin Faults => v \notin Faults /\ l.place \notin Faults
<1>1. l.place \in LLVMValues
  BY DEF Nodes
<1>2. Select(v, SC_INT_TYPE) \in LLVMValues /\ (Select(v, SC_INT_TYPE) \notin Faults => v \notin Faults)
  <2>1. SC_INT_TYPE \in LLVMValues /\ Bit \notin Faults
    BY DEF SC_INT_TYPE, Bit, LLVMValues, Faults, Ill, Null, Asserts, Value
  <2> QED BY <2>1, FaultsTyped DEF Select
<1>3. \A w \in LLVMValues : /\ Store(w, l.place) \in LLVMValues
                            /\ Store(w, l.place) \notin Faults => w \notin Faults /\ l.place \notin Faults
  BY <1>1, PlacesTyped
<1>4. InsertElement(l.place, v) \in LLVMValues
      /\ (InsertElement(l.place, v) \notin Faults => v \notin Faults /\ l.place \notin Faults)
  BY <1>1, InsertTyped
<1>5. CASE l.node = "variable"
  BY <1>2, <1>3, <1>5 DEF AssignCode
<1>6. CASE l.node = "index"
  BY <1>3, <1>6 DEF AssignCode
<1>7. CASE l.node = "dot" /\ l.place # Null
  BY <1>2, <1>3, <1>4, <1>7 DEF AssignCode
<1>8. CASE l.node \notin {"variable", "index"} /\ ~(l.node = "dot" /\ l.place # Null)
  BY <1>8, FaultsTyped DEF AssignCode
<1> QED BY <1>5, <1>6, <1>7, <1>8

\* A plain assignment stores a value of the place's type.
LEMMA AssignmentPlain ==
    ASSUME NEW l, NEW r, Good(l), Good(r), checked \in BOOLEAN, l.plain, r.plain,
           CheckAssign(l, r), PlainAssignment(l, r)
    PROVE  AssignCode(l, CastValueType(r.val, CachedType(r), CachedType(l))) = l.place
<1> DEFINE lt == l.info.type
           rt == r.info.type
           v == CastValueType(r.val, CachedType(r), CachedType(l))
<1>1. /\ l \in Nodes /\ r \in Nodes
      /\ l.info \in Infos /\ r.info \in Infos /\ lt \in VarType /\ rt \in VarType
      /\ l.place \in LLVMValues /\ r.val \in LLVMValues
      /\ l.lvalue /\ lt # kBoolean /\ ~l.info.array /\ ~r.info.array
  BY DEF Good, PlainAssignment, CheckAssign, Nodes, Infos
<1>2. /\ Memory(l.info) \notin Faults /\ lt \notin {kVoid, kInvalid} /\ l.place \notin Faults
      /\ (IF l.inVector THEN Scalar(l.place) ELSE l.place) = Memory(l.info)
      /\ l.inVector => l.place.lanes > 0 /\ l.node = "dot"
      /\ l.node \in {"variable", "index", "dot"}
  BY <1>1 DEF Good, Placed
<1>3. r.val \notin Faults /\ (rt # kInvalid => r.val = Register(r.info))
  BY <1>1 DEF Good, Lowered
<1>4. Register(l.info) = Memory(l.info)
  BY <1>1 DEF Register
<1>5. v = Memory(l.info)
  <2>1. CASE checked /\ l.info = r.info
    <3>1. CachedType(l) = lt /\ CachedType(r) = lt
      BY <2>1 DEF CachedType, Cached
    <3>2. CastValueType(r.val, lt, lt) = r.val
      <4>1. TypeElementCnt(lt) \in Int
        BY <1>1, Counted DEF VarType
      <4> QED BY <1>1, <4>1 DEF CastValueType, ConvertKind
    <3> QED BY <1>2, <1>3, <1>4, <2>1, <3>1, <3>2
  <2>2. CASE checked /\ l.info # r.info
    <3>1. IsValueType(lt) /\ IsValueType(rt) /\ PlainCast(lt, rt)
      BY <2>2 DEF CheckAssign, PlainAssignment
    <3>2. lt \notin {kStructure, kInvalid} /\ rt \notin {kStructure, kInvalid}
      BY <3>1 DEF IsValueType, FloatTypes, IntegerTypes
    <3>3. r.val = IF rt = kBoolean THEN Bit ELSE ConvertToLLVMType(rt)
      BY <1>1, <1>3, <3>2, PlainMemory
    <3>4. CastValueType(r.val, rt, lt) = ConvertToLLVMType(lt)
      BY <1>1, <3>1, <3>3, CastPlain
    <3> QED BY <1>1, <2>2, <3>2, <3>4, PlainMemory DEF CachedType, Cached
  <2>3. CASE ~checked
    <3>1. CachedType(l) = kInvalid /\ CachedType(r) = kInvalid /\ l.info = r.info
      BY <2>3 DEF CachedType, Cached, Unknown, Info, PlainAssignment
    <3>2. v = r.val
      <4>1. TypeElementCnt(kInvalid) = 0 /\ kInvalid \in VarType
        BY DEF TypeElementCnt, VarType
      <4> QED BY <3>1, <4>1, CastUnchecked
    <3> QED BY <1>2, <1>3, <1>4, <3>1, <3>2
  <2> QED BY <2>1, <2>2, <2>3
<1>6. l.node = "dot" => CachedType(l) # kBoolean
  BY <1>1 DEF PlainAssignment, CachedType, Cached, Unknown, Info
<1> HIDE DEF v, lt
<1>7. CASE l.inVector
  <2>1. InsertElement(l.place, v) = l.place
    BY <1>2, <1>5, <1>7 DEF InsertElement
  <2> QED BY <1>2, <1>7, <2>1, FaultsTyped DEF AssignCode, v
<1>8. CASE ~l.inVector
  <2>1. Store(v, l.place) = l.place
    BY <1>2, <1>5, <1>8 DEF Store
  <2> QED BY <1>1, <1>2, <1>6, <1>8, <2>1, FaultsTyped DEF AssignCode, v, lt
<1> QED BY <1>7, <1>8

LEMMA AssignKept ==
    ASSUME IInv, Assign
    PROVE  IInv'
<1> DEFINE l == Below
           r == Top
           accepted == CheckAssign(l, r)
           v == CastValueType(r.val, CachedType(r), CachedType(l))
           stored == IF r.val = Null THEN Null ELSE AssignCode(l, v)
           val == IF stored \in Faults THEN stored ELSE l.val
           plain == accepted /\ l.plain /\ r.plain /\ PlainAssignment(l, r)
           b == Node("value", Typed(accepted, AssignResult(l)), val)
           e == [b EXCEPT !.src = l.src + r.src, !.evals = AssignEvals(l, r),
                          !.indexed = l.indexed \/ r.indexed, !.plain = plain]
<1>1. Good(l) /\ Good(r) /\ l \in Nodes /\ r \in Nodes /\ checked \in BOOLEAN
  BY Built2 DEF Assign, Operands, Good, IInv, TypeOK
<1>2. MakeNode(2, e, accepted)
  BY DEF Assign
<1>3. plain \in BOOLEAN
  BY DEF plain
<1>4. accepted \in BOOLEAN
  BY DEF CheckAssign
<1> HIDE DEF l, r, accepted, plain, v
<1>5. /\ l.info \in Infos /\ l.val \in LLVMValues /\ r.val \in LLVMValues
      /\ l.src \in Nat /\ r.src \in Nat /\ l.evals \in Nat /\ r.evals \in Nat /\ l.placeEvals \in Nat
      /\ l.indexed \in BOOLEAN /\ r.indexed \in BOOLEAN
  BY <1>1 DEF Nodes, Infos
<1>6. CachedType(l) \in Int /\ CachedType(r) \in Int
  BY <1>1 DEF CachedType, Cached, Unknown, Info, Nodes, Infos, VarType
<1>7. /\ val \in LLVMValues
      /\ val \notin Faults => l.val \notin Faults /\ r.val \notin Faults /\ l.place \notin Faults
  <2>1. v \in LLVMValues /\ (v \notin Faults => r.val \notin Faults)
    BY <1>5, <1>6, CastTyped DEF v
  <2>2. stored \in LLVMValues
        /\ (stored \notin Faults => v \notin Faults /\ l.place \notin Faults)
    BY <1>1, <2>1, AssignCodeTyped, FaultsTyped
  <2> QED BY <1>5, <2>1, <2>2
<1>8. Typed(accepted, AssignResult(l)) \in Infos
  BY <1>5, InfoTyped DEF Typed, AssignResult, Infos
<1> HIDE DEF val
<1>9. b \in Nodes
  BY <1>7, <1>8, NewNode
<1>10. e \in Nodes
  <2>1. l.src + r.src \in Nat /\ AssignEvals(l, r) \in Nat /\ (l.indexed \/ r.indexed) \in BOOLEAN
    BY <1>5 DEF AssignEvals
  <2> QED BY <1>3, <1>9, <2>1 DEF Nodes
<1>11. /\ e.node = "value" /\ e.place = Null /\ ~e.inVector /\ ~e.settable /\ ~e.referable /\ ~e.lvalue
       /\ e.placeEvals = 0 /\ e.val = val /\ e.src = l.src + r.src
       /\ e.evals = r.evals + l.placeEvals + l.evals
       /\ e.indexed = (l.indexed \/ r.indexed)
       /\ e.plain = plain /\ e.info = Typed(accepted, AssignResult(l))
  BY <1>9, <1>3 DEF Node, AssignEvals
<1> HIDE DEF e
<1>12. Lowered(e)
  <2> SUFFICES ASSUME plain
               PROVE  /\ e.val \notin Faults
                      /\ e.info.type # kInvalid => e.val = Register(e.info)
    BY <1>11 DEF Lowered
  <2>1. accepted /\ l.plain /\ r.plain /\ PlainAssignment(l, r) /\ CheckAssign(l, r)
    BY DEF plain, accepted
  <2>2. /\ l.lvalue /\ ~l.info.array /\ ~r.info.array
    BY <2>1 DEF PlainAssignment, CheckAssign
  <2>3. l.place \notin Faults /\ l.info.type # kInvalid
    BY <1>1, <2>1, <2>2 DEF Good, Placed
  <2>4. l.val = Register(l.info) /\ l.val \notin Faults /\ r.val \notin Faults
    BY <1>1, <2>1, <2>2, <2>3 DEF Good, Lowered
  <2>5. AssignCode(l, v) = l.place
    BY <1>1, <2>1, AssignmentPlain DEF v
  <2>6. val = l.val
    BY <2>3, <2>4, <2>5, FaultsTyped DEF val
  <2>7. l.info.type # kExternType => AssignResult(l) = l.info
    BY <1>5, <2>2 DEF AssignResult, Infos
  <2>8. e.info = AssignResult(l)
    BY <1>11, <2>1 DEF Typed
  <2>9. Unknown.type = kInvalid
    BY DEF Unknown, Info
  <2> QED BY <1>11, <2>4, <2>6, <2>7, <2>8, <2>9 DEF AssignResult
<1>13. Good(e)
  BY <1>1, <1>5, <1>7, <1>10, <1>11, <1>12, ValueGood DEF Good, Counts
<1> QED BY <1>2, <1>4, <1>13, Made

-----------------------------------------------------------------------------
(* Members, swizzles, elements                                              *)

\* The fields of a node behind a dot.
LEMMA DotNode ==
    ASSUME NEW p \in Nodes, NEW info \in Infos, NEW place \in LLVMValues, NEW val \in LLVMValues,
           NEW accepted \in BOOLEAN
    PROVE  LET d == Dot(p, info, place, val, accepted)
           IN  /\ d \in Nodes
               /\ d.node = "dot" /\ d.place = place /\ d.val = val /\ d.src = p.src
               /\ d.evals = DotEvals(p, place) /\ d.placeEvals = p.placeEvals
               /\ d.indexed = p.indexed /\ d.lvalue = p.lvalue
               /\ ~d.inVector /\ ~d.settable /\ ~d.referable
               /\ d.info = Typed(accepted, info)
<1> DEFINE b == Node("dot", Typed(accepted, info), val)
<1>1. Typed(accepted, info) \in Infos
  BY InfoTyped DEF Typed
<1>2. b \in Nodes
  BY <1>1, NewNode
<1>3. DotEvals(p, place) \in Nat /\ p.src \in Nat /\ p.placeEvals \in Nat
      /\ p.indexed \in BOOLEAN /\ p.lvalue \in BOOLEAN
  BY DEF DotEvals, Nodes
<1>4. Dot(p, info, place, val, accepted) \in Nodes
  BY <1>2, <1>3 DEF Dot, Nodes
<1> QED BY <1>2, <1>3, <1>4 DEF Dot, Node

\* The calls behind a dot are those of the parent.
LEMMA DotCounts ==
    ASSUME NEW p, Good(p), NEW e \in Nodes, e.node = "dot", e.src = p.src,
           e.evals = DotEvals(p, e.place), e.placeEvals = p.placeEvals, e.indexed = p.indexed,
           e.place \notin Faults => p.place \notin Faults,
           e.val \notin Faults => IF e.place = Null THEN p.val \notin Faults ELSE e.place \notin Faults
    PROVE  Counts(e)
<1>1. p.src \in Nat /\ p.evals \in Nat /\ p.placeEvals \in Nat
  BY DEF Good, Nodes
<1>2. CASE e.place = Null
  BY <1>1, <1>2, FaultsTyped DEF Good, Counts, DotEvals
<1>3. CASE e.place # Null
  BY <1>1, <1>3 DEF Good, Counts, DotEvals
<1> QED BY <1>2, <1>3

LEMMA MemberKept ==
    ASSUME IInv, NEW s \in Structs, NEW m \in MembersOf[s], Member(s, m)
    PROVE  IInv'
<1> DEFINE p == Top
           accepted == p.info = [Info(kStructure) EXCEPT !.struct = s]
           place == MemberPlace(p, m)
           val == IF place = Null THEN Ill ELSE place
           plain == /\ accepted /\ checked /\ p.plain /\ p.lvalue
                    /\ m.type = kBoolean => m.array
           d == Dot(p, m, place, val, accepted)
           e == [d EXCEPT !.assignable = p.assignable,
                          !.settable = p.assignable, !.referable = p.assignable, !.plain = plain]
<1>1. Good(p) /\ p \in Nodes /\ checked \in BOOLEAN
  BY Built1 DEF Member, Good, IInv, TypeOK
<1>2. MakeNode(1, e, accepted)
  BY DEF Member
<1>3. plain \in BOOLEAN /\ accepted \in BOOLEAN /\ p.assignable \in BOOLEAN
  BY <1>1 DEF plain, Nodes
<1>4. Declared(m) /\ m \in Infos /\ Memory(m) \in LLVMValues \ Faults
  BY DeclarationsAssumption, MemoryTyped DEF Declared
<1> HIDE DEF p, plain
<1>5. /\ place \in LLVMValues
      /\ place \notin Faults => p.place \notin Faults
  BY <1>1, <1>4, FaultsTyped DEF MemberPlace, Nodes
<1>6. val \in LLVMValues /\ (val \notin Faults => place # Null /\ place \notin Faults)
  BY <1>5, FaultsTyped
<1>7. /\ e \in Nodes
      /\ e.node = "dot" /\ e.place = place /\ e.val = val /\ e.src = p.src
      /\ e.evals = DotEvals(p, place) /\ e.placeEvals = p.placeEvals
      /\ e.indexed = p.indexed /\ e.lvalue = p.lvalue
      /\ ~e.inVector /\ e.plain = plain /\ e.info = Typed(accepted, m)
  <2> HIDE DEF place, val, accepted
  <2>1. /\ d \in Nodes
        /\ d.node = "dot" /\ d.place = place /\ d.val = val /\ d.src = p.src
        /\ d.evals = DotEvals(p, place) /\ d.placeEvals = p.placeEvals
        /\ d.indexed = p.indexed /\ d.lvalue = p.lvalue
        /\ ~d.inVector /\ d.info = Typed(accepted, m)
    BY <1>1, <1>3, <1>4, <1>5, <1>6, DotNode
  <2> HIDE DEF d
  <2> QED BY <1>3, <2>1 DEF Nodes
<1>8. plain => /\ place = Memory(m) /\ val = place /\ p.lvalue /\ accepted
               /\ m.type = kBoolean => m.array
  <2> SUFFICES ASSUME plain PROVE place = Memory(m) /\ val = place
    BY DEF plain
  <2>1. p.info.type = kStructure
    BY DEF plain, Info
  <2>2. ~p.inVector /\ p.place \notin Faults
    BY <1>1, <2>1 DEF Good, Placed, plain, FloatTypes, IntegerTypes
  <2>3. place = Memory(m)
    BY <2>2, FaultsTyped DEF MemberPlace, plain
  <2> QED BY <1>4, <2>3, FaultsTyped
<1> HIDE DEF e, place, val, accepted
<1>9. Counts(e)
  BY <1>1, <1>5, <1>6, <1>7, DotCounts
<1>10. Lowered(e)
  BY <1>4, <1>7, <1>8 DEF Lowered, Typed, Register
<1>11. Placed(e)
  BY <1>4, <1>7, <1>8 DEF Placed, Typed, Declared
<1>12. Good(e)
  BY <1>7, <1>9, <1>10, <1>11 DEF Good, Begun
<1> QED BY <1>2, <1>3, <1>12, Made

\* The type of one or more elements of a vector.
LEMMA ElementsPlain ==
    ASSUME NEW t \in FloatTypes \cup IntegerTypes, NEW cnt \in 1..4, TypeElementCnt(t) > 1
    PROVE  LET n == TypeElementCnt(t)
               of == IF IsFloatType(t) THEN "float" ELSE "i32"
               u == MakeType(IsIntegerType(t), cnt)
           IN  /\ n \in 2..8 /\ ConvertToLLVMType(t) = Value(of, n)
               /\ u \in FloatTypes \cup IntegerTypes /\ TypeElementCnt(u) = cnt
               /\ ConvertToLLVMType(u) = Vector(of, cnt)
<1>1. /\ TypeElementCnt(t) \in {2, 3, 4, 8}
      /\ IsIntegerType(t) <=> ~IsFloatType(t)
  BY Counted DEF FloatTypes, IntegerTypes, IsFloatType, IsIntegerType
<1>2. ASSUME NEW x \in FloatTypes \cup IntegerTypes
      PROVE  ConvertToLLVMType(x) = Vector(IF IsFloatType(x) THEN "float" ELSE "i32", TypeElementCnt(x))
  <2>1. CASE x \in FloatTypes
    BY <2>1 DEF ConvertToLLVMType, IsFloatType, IsIntegerType, FloatTypes, IntegerTypes
  <2>2. CASE x \in IntegerTypes
    BY <2>2 DEF ConvertToLLVMType, IsFloatType, IsIntegerType, FloatTypes, IntegerTypes
  <2> QED BY <2>1, <2>2
<1>3. /\ MakeType(IsIntegerType(t), cnt) \in FloatTypes \cup IntegerTypes
      /\ TypeElementCnt(MakeType(IsIntegerType(t), cnt)) = cnt
      /\ IsFloatType(MakeType(IsIntegerType(t), cnt)) = IsFloatType(t)
      /\ IsIntegerType(MakeType(IsIntegerType(t), cnt)) = IsIntegerType(t)
  <2>1. CASE IsIntegerType(t)
    <3>1. MakeType(IsIntegerType(t), cnt) \in kInt..kInt4 /\ MakeType(IsIntegerType(t), cnt) = kInt + cnt - 1
      BY <2>1 DEF MakeType
    <3> QED BY <1>1, <2>1, <3>1 DEF IsFloatType, IsIntegerType, FloatTypes, IntegerTypes, TypeElementCnt
  <2>2. CASE ~IsIntegerType(t)
    <3>1. MakeType(IsIntegerType(t), cnt) \in kFloat..kFloat4 /\ MakeType(IsIntegerType(t), cnt) = kFloat + cnt - 1
      BY <2>2 DEF MakeType
    <3> QED BY <1>1, <2>2, <3>1 DEF IsFloatType, IsIntegerType, FloatTypes, IntegerTypes, TypeElementCnt
  <2> QED BY <2>1, <2>2
<1>4. ConvertToLLVMType(MakeType(IsIntegerType(t), cnt)) = Vector(IF IsFloatType(t) THEN "float" ELSE "i32", cnt)
  <2> DEFINE u == MakeType(IsIntegerType(t), cnt)
  <2>1. ConvertToLLVMType(u) = Vector(IF IsFloatType(u) THEN "float" ELSE "i32", TypeElementCnt(u))
    BY <1>1, <1>2, <1>3
  <2>2. (IF IsFloatType(u) THEN "float" ELSE "i32") = IF IsFloatType(t) THEN "float" ELSE "i32"
    BY <1>3
  <2> QED BY <1>3, <2>1, <2>2
<1>5. ConvertToLLVMType(t) = Value(IF IsFloatType(t) THEN "float" ELSE "i32", TypeElementCnt(t))
  BY <1>1, <1>2 DEF Vector
<1> QED BY <1>1, <1>3, <1>4, <1>5

LEMMA ScalarOf ==
    ASSUME NEW of \in {"float", "i32"}, NEW n \in 1..8
    PROVE  /\ Scalar(Value(of, n)) = Value(of, 0)
           /\ ExtractElement(Value(of, n)) = Value(of, 0)
           /\ Value(of, n) \notin Faults /\ Value(of, 0) \notin Faults
<1> DEFINE v == Value(of, n)
           w == Value(of, 0)
<1>1. v \in LLVMValues /\ w \in LLVMValues
  BY DEF Value, LLVMValues
<1>2. v.of = of /\ v.lanes = n /\ ~v.array /\ w.of = of /\ w.lanes = 0 /\ ~w.array
  BY DEF Value
<1> HIDE DEF v, w
<1>3. v \in [of : {"float", "i32"}, lanes : 0..8, array : BOOLEAN] /\ v \notin Faults /\ w \notin Faults
  BY <1>1, <1>2, ValueFields, VectorsSound DEF IsInts, IsFloats
<1>4. Scalar(v) \in LLVMValues
  BY <1>3 DEF LLVMValues, Scalar
<1>5. Scalar(v).of = v.of /\ Scalar(v).lanes = 0 /\ Scalar(v).array = v.array
  BY <1>3 DEF Scalar
<1>6. v.array = FALSE /\ w.array = FALSE
  BY <1>1, <1>2, ValueFields
<1>7. Scalar(v) = w
  BY <1>1, <1>2, <1>4, <1>5, <1>6, ValuesEqual
<1>8. ExtractElement(v) = w
  BY <1>2, <1>7 DEF ExtractElement
<1> QED BY <1>3, <1>7, <1>8 DEF v, w

LEMMA SwizzleKept ==
    ASSUME IInv, NEW cnt \in 1..4, NEW last \in {0, 3}, Swizzle(cnt, last)
    PROVE  IInv'
<1> DEFINE p == Top
           t == p.info.type
           accepted == CheckSwizzle(p, last)
           info == Info(MakeType(IsIntegerType(p.info.type), cnt))
           place == SwizzlePlace(p, cnt)
           val == IF place = Null THEN ShuffleVector(p.val, cnt) ELSE Element(place)
           assignable == SwizzleAssignable(p, cnt)
           plain == /\ accepted /\ p.plain /\ TypeElementCnt(p.info.type) > 1
                    /\ cnt > 1 \/ (checked /\ p.lvalue)
           d == Dot(p, info, place, val, accepted)
           e == [d EXCEPT !.inVector = (place # Null),
                          !.lvalue = p.lvalue /\ cnt = 1,
                          !.assignable = assignable, !.settable = assignable, !.plain = plain]
<1>1. Good(p) /\ p \in Nodes /\ checked \in BOOLEAN
  BY Built1 DEF Swizzle, Good, IInv, TypeOK
<1>2. MakeNode(1, e, accepted)
  BY DEF Swizzle
<1>3. /\ plain \in BOOLEAN /\ accepted \in BOOLEAN /\ assignable \in BOOLEAN
      /\ (p.lvalue /\ cnt = 1) \in BOOLEAN
  BY <1>1 DEF plain, accepted, SwizzleAssignable, CheckSwizzle, Nodes
<1> HIDE DEF p, plain, assignable, accepted
<1>4. info \in Infos
  BY InfoTyped DEF MakeType, VarType
<1>5. /\ place \in LLVMValues
      /\ place # Null => place = p.place /\ cnt = 1 /\ checked /\ ~p.inVector
      /\ place \notin Faults => p.place \notin Faults
  BY <1>1, FaultsTyped DEF SwizzlePlace, Nodes
<1>6. /\ val \in LLVMValues
      /\ val \notin Faults => IF place = Null THEN p.val \notin Faults ELSE place \notin Faults
  BY <1>1, <1>5, ShuffleTyped, ElementTyped DEF Nodes
<1>7. /\ e \in Nodes
      /\ e.node = "dot" /\ e.place = place /\ e.val = val /\ e.src = p.src
      /\ e.evals = DotEvals(p, place) /\ e.placeEvals = p.placeEvals
      /\ e.indexed = p.indexed /\ e.lvalue = (p.lvalue /\ cnt = 1)
      /\ e.inVector = (place # Null) /\ e.plain = plain /\ e.info = Typed(accepted, info)
      /\ ~e.referable /\ e.settable = assignable
  <2> HIDE DEF place, val, info
  <2>1. /\ d \in Nodes
        /\ d.node = "dot" /\ d.place = place /\ d.val = val /\ d.src = p.src
        /\ d.evals = DotEvals(p, place) /\ d.placeEvals = p.placeEvals
        /\ d.indexed = p.indexed /\ ~d.referable /\ d.info = Typed(accepted, info)
    BY <1>1, <1>3, <1>4, <1>5, <1>6, DotNode
  <2> HIDE DEF d
  <2> DEFINE inVector == (place # Null)
             lvalue == (p.lvalue /\ cnt = 1)
  <2>2. inVector \in BOOLEAN /\ lvalue \in BOOLEAN
    BY <1>3
  <2> HIDE DEF inVector, lvalue
  <2>3. e = [d EXCEPT !.inVector = inVector, !.lvalue = lvalue,
                      !.assignable = assignable, !.settable = assignable, !.plain = plain]
    BY DEF inVector, lvalue
  <2> HIDE DEF e
  <2> DEFINE h == [d EXCEPT !.inVector = inVector, !.lvalue = lvalue]
  <2>4. e \in Nodes
    <3>1. h \in Nodes
      BY <2>1, <2>2 DEF Nodes
    <3>2. e = [h EXCEPT !.assignable = assignable, !.settable = assignable, !.plain = plain]
      BY <2>1, <2>3 DEF Nodes
    <3> HIDE DEF h
    <3> QED BY <1>3, <3>1, <3>2 DEF Nodes
  <2>5. /\ e.inVector = inVector /\ e.lvalue = lvalue /\ e.settable = assignable /\ e.plain = plain
        /\ e.node = d.node /\ e.place = d.place /\ e.val = d.val /\ e.src = d.src
        /\ e.evals = d.evals /\ e.placeEvals = d.placeEvals /\ e.indexed = d.indexed
        /\ e.referable = d.referable /\ e.info = d.info
    BY <2>1, <2>3 DEF Nodes
  <2> QED BY <2>1, <2>4, <2>5 DEF inVector, lvalue
<1>8. plain => /\ accepted /\ p.plain /\ t \in FloatTypes \cup IntegerTypes /\ ~p.info.array
               /\ TypeElementCnt(t) > 1 /\ (cnt > 1 \/ (checked /\ p.lvalue))
  <2>1. t \in Int
    BY <1>1 DEF Nodes, Infos, VarType
  <2>2. TypeElementCnt(t) > 1 => t \in FloatTypes \cup IntegerTypes
    BY <2>1, Counted DEF TypeElementCnt
  <2> HIDE DEF t
  <2> QED BY <2>2 DEF plain, accepted, CheckSwizzle, t
<1>9. plain => /\ val \notin Faults /\ val = Memory(info) /\ Register(info) = Memory(info)
               /\ cnt = 1 => /\ place = p.place /\ place \notin Faults /\ place # Null
                             /\ Scalar(place) = Memory(info) /\ place.lanes > 0
  <2> SUFFICES ASSUME plain
               PROVE  /\ val \notin Faults /\ val = Memory(info) /\ Register(info) = Memory(info)
                      /\ cnt = 1 => /\ place = p.place /\ place \notin Faults /\ place # Null
                                    /\ Scalar(place) = Memory(info) /\ place.lanes > 0
    OBVIOUS
  <2> DEFINE n == TypeElementCnt(t)
             of == IF IsFloatType(t) THEN "float" ELSE "i32"
             u == MakeType(IsIntegerType(t), cnt)
  <2>1. /\ n \in 2..8 /\ ConvertToLLVMType(t) = Value(of, n)
        /\ u \in FloatTypes \cup IntegerTypes /\ ConvertToLLVMType(u) = Vector(of, cnt)
    BY <1>8, ElementsPlain
  <2>2. t \notin {kStructure, kBoolean, kInvalid} /\ u \notin {kStructure, kBoolean}
    BY <1>8, <2>1 DEF FloatTypes, IntegerTypes
  <2>3. Memory(p.info) = Value(of, n) /\ Register(p.info) = Value(of, n)
    BY <1>1, <1>8, <2>1, <2>2, PlainMemory DEF Nodes
  <2>4. Memory(info) = Vector(of, cnt) /\ Register(info) = Vector(of, cnt)
    <3>1. info.type = u /\ ~info.array
      BY DEF Info
    <3> QED BY <1>4, <2>1, <2>2, <3>1, PlainMemory
  <2>5. p.val = Value(of, n)
    BY <1>1, <1>8, <2>2, <2>3 DEF Good, Lowered
  <2>6. of \in {"float", "i32"}
    OBVIOUS
  <2>7. Value(of, n).lanes = n
    BY DEF Value
  <2> HIDE DEF n, of, u, t
  <2>8. CASE cnt > 1
    <3>1. place = Null
      BY <2>8 DEF SwizzlePlace
    <3>2. val = Value(of, cnt)
      BY <2>1, <2>5, <2>6, <3>1, Reshaped
    <3>3. Value(of, cnt) \notin Faults
      BY <2>6, ScalarOf
    <3> QED BY <2>4, <2>8, <3>2, <3>3 DEF Vector
  <2>9. CASE cnt = 1
    <3>1. p.lvalue /\ checked /\ p.plain
      BY <1>8, <2>9
    <3>2. ~p.inVector
      BY <1>1, <1>8 DEF Good, Placed, t
    <3>3. p.place \notin Faults /\ p.place = Value(of, n)
      BY <1>1, <2>3, <3>1, <3>2 DEF Good, Placed
    <3>4. place = p.place /\ place # Null
      BY <2>9, <3>1, <3>2, <3>3, FaultsTyped DEF SwizzlePlace
    <3>5. Scalar(place) = Value(of, 0) /\ ExtractElement(place) = Value(of, 0) /\ Value(of, 0) \notin Faults
      BY <2>1, <2>6, <3>3, <3>4, ScalarOf
    <3>6. val = Value(of, 0)
      BY <3>3, <3>4, <3>5 DEF Element
    <3>7. Memory(info) = Value(of, 0) /\ Register(info) = Value(of, 0)
      BY <2>4, <2>9 DEF Vector
    <3> QED BY <2>1, <2>7, <3>3, <3>4, <3>5, <3>6, <3>7
  <2> QED BY <2>8, <2>9
<1>10. (accepted \/ ~checked) /\ place # Null => Typed(accepted, info) = info
  BY <1>5 DEF Typed
<1>11. /\ info.type \in FloatTypes \cup IntegerTypes /\ ~info.array
       /\ cnt = 1 => TypeElementCnt(info.type) = 1
  BY DEF Info, MakeType, FloatTypes, IntegerTypes, TypeElementCnt
<1>12. plain => Typed(accepted, info) = info
  BY <1>8 DEF Typed
<1> HIDE DEF e
<1>13. e.plain /\ e.settable => e.lvalue
  <2>1. assignable => cnt = 1
    BY DEF assignable, SwizzleAssignable
  <2>2. plain /\ cnt = 1 => p.lvalue
    BY <1>8
  <2>3. assignable /\ plain => (p.lvalue /\ cnt = 1)
    BY <2>1, <2>2
  <2> QED BY <1>7, <2>3
<1>14. p.lvalue => p.node \in {"variable", "index", "dot"}
  BY <1>1 DEF Good, Placed
<1> HIDE DEF place, val, info, t
<1>15. Counts(e)
  BY <1>1, <1>5, <1>6, <1>7, DotCounts
<1>16. Lowered(e)
  BY <1>7, <1>9, <1>12 DEF Lowered
<1>17. accepted \/ ~checked => Placed(e)
  <2> SUFFICES ASSUME accepted \/ ~checked PROVE Placed(e)
    OBVIOUS
  <2>1. e.inVector => cnt = 1 /\ e.info = info
    BY <1>5, <1>7, <1>10
  <2>2. e.plain /\ e.lvalue => /\ cnt = 1 /\ e.info = info
                               /\ place # Null /\ e.inVector
                               /\ Memory(info) \notin Faults
    BY <1>7, <1>9, <1>12
  <2>3. info.type \notin {kVoid, kInvalid}
    BY <1>11 DEF FloatTypes, IntegerTypes
  <2> QED BY <1>7, <1>9, <1>11, <1>13, <2>1, <2>2, <2>3 DEF Placed
<1>18. accepted \/ ~checked => Good(e)
  BY <1>7, <1>15, <1>16, <1>17 DEF Good, Begun
<1> QED BY <1>2, <1>3, <1>18, Made

\* The elements of an array lie in memory as their type says.
LEMMA ElementMemory ==
    ASSUME NEW info \in Infos, info.array, Memory(info) \in LLVMValues \ Faults
    PROVE  /\ [Memory(info) EXCEPT !.array = FALSE] = Memory([info EXCEPT !.array = FALSE])
           /\ Memory([info EXCEPT !.array = FALSE]) \in LLVMValues \ Faults
           /\ Memory(info).array
<1> DEFINE m == IF info.type = kStructure THEN Value(info.struct, 0) ELSE ConvertToLLVMType(info.type)
           flat == [info EXCEPT !.array = FALSE]
<1>1. flat.type = info.type /\ flat.struct = info.struct /\ flat.array = FALSE /\ info.array = TRUE
  BY DEF Infos
<1>2. m \in [of : {"ill", "null", "assert", "i1", "i32", "float", "ptr", "void"} \cup Structs \cup {NoStruct},
              lanes : 0..8, array : BOOLEAN]
  <2>1. CASE info.type = kStructure
    BY <2>1 DEF Infos, Value
  <2>2. CASE info.type # kStructure
    <3>1. ConvertToLLVMType(info.type) \in LLVMValues
      BY ConvertedTyped DEF Infos, VarType
    <3> QED BY <2>2, <3>1, ValueFields
  <2> QED BY <2>1, <2>2
<1>3. Memory(info) = [m EXCEPT !.array = TRUE] /\ Memory(flat) = [m EXCEPT !.array = FALSE]
  BY <1>1 DEF Memory
<1> HIDE DEF m
<1>4. Memory(info).array /\ [Memory(info) EXCEPT !.array = FALSE] = Memory(flat)
  BY <1>2, <1>3
<1>5. Memory(info) \in [of : {"i1", "i32", "float", "ptr", "void"} \cup Structs, lanes : 0..8, array : BOOLEAN]
  BY DEF LLVMValues
<1>6. Memory(flat) \in [of : {"i1", "i32", "float", "ptr", "void"} \cup Structs, lanes : 0..8, array : BOOLEAN]
  BY <1>4, <1>5
<1>7. Memory(flat) \notin Faults
  BY <1>6, DeclarationsAssumption DEF Faults, Ill, Null, Asserts, Value
<1> QED BY <1>4, <1>6, <1>7 DEF LLVMValues

LEMMA IndexKept ==
    ASSUME IInv, Index
    PROVE  IInv'
<1> DEFINE p == Below
           i == Top
           accepted == CheckIndex(p, i)
           info == [p.info EXCEPT !.array = FALSE]
           place == IndexPlace(p, i)
           plain == /\ accepted /\ p.plain /\ i.plain /\ p.lvalue
                    /\ ~i.info.array /\ p.info.type # kBoolean
           evals == i.evals + p.placeEvals
           src == p.src + i.src
           indexed == (p.indexed \/ i.src > 0)
           b == Node("index", Typed(accepted, info), place)
           h == [b EXCEPT !.assignable = TRUE, !.settable = TRUE, !.referable = TRUE, !.place = place]
           e == [h EXCEPT !.src = src, !.evals = evals, !.placeEvals = evals,
                          !.indexed = indexed, !.lvalue = p.lvalue, !.plain = plain]
<1>1. Good(p) /\ Good(i) /\ p \in Nodes /\ i \in Nodes
  BY Built2 DEF Index, Operands, Good
<1>2. MakeNode(2, e, accepted)
  BY DEF Index
<1>3. plain \in BOOLEAN /\ accepted \in BOOLEAN
  BY <1>1 DEF plain, accepted, CheckIndex, Nodes, Infos
<1> HIDE DEF p, i, accepted, plain
<1>4. /\ p.info \in Infos /\ i.info \in Infos /\ p.place \in LLVMValues /\ i.val \in LLVMValues
      /\ p.src \in Nat /\ i.src \in Nat /\ i.evals \in Nat /\ p.placeEvals \in Nat
      /\ p.indexed \in BOOLEAN /\ p.lvalue \in BOOLEAN /\ i.indexed \in BOOLEAN
  BY <1>1 DEF Nodes
<1>5. info \in Infos /\ Typed(accepted, info) \in Infos
  BY <1>4, InfoTyped DEF Typed, Infos
<1>6. place \in LLVMValues /\ (place \notin Faults => p.place \notin Faults /\ i.val \notin Faults)
  BY <1>4, PlacesTyped, FaultsTyped DEF IndexPlace
<1>7. evals \in Nat /\ src \in Nat /\ indexed \in BOOLEAN
  BY <1>4
<1> HIDE DEF place, info, evals, src, indexed
<1>8. b \in Nodes
  BY <1>5, <1>6, NewNode
<1>9. h \in Nodes
  BY <1>6, <1>8 DEF Nodes
<1>10. e \in Nodes
  <2> HIDE DEF h
  <2> QED BY <1>3, <1>4, <1>7, <1>9 DEF Nodes
<1>11. /\ e.node = "index" /\ e.place = place /\ e.val = place /\ ~e.inVector
       /\ e.src = src /\ e.evals = evals /\ e.placeEvals = evals /\ e.indexed = indexed
       /\ e.lvalue = p.lvalue /\ e.plain = plain /\ e.info = Typed(accepted, info)
  <2>1. b.node = "index" /\ b.val = place /\ ~b.inVector /\ b.info = Typed(accepted, info)
    BY DEF Node
  <2> HIDE DEF b
  <2>2. h.node = "index" /\ h.val = place /\ h.place = place /\ ~h.inVector /\ h.info = Typed(accepted, info)
    BY <1>8, <2>1 DEF Nodes
  <2> HIDE DEF h
  <2> QED BY <1>9, <2>2 DEF Nodes
<1> HIDE DEF e
<1>12. Counts(e)
  <2>1. place \notin Faults => evals >= src
    BY <1>1, <1>4, <1>6 DEF Good, Counts, evals, src
  <2>2. indexed => src > 0
    BY <1>1, <1>4 DEF Good, Counts, src, indexed
  <2>3. ~indexed => evals <= src /\ evals = 0
    BY <1>1, <1>4 DEF Good, Counts, evals, src, indexed
  <2> QED BY <1>11, <2>1, <2>2, <2>3 DEF Counts
<1>13. plain => /\ place = Memory(info) /\ Memory(info) \notin Faults
                /\ info.type \notin {kVoid, kInvalid, kBoolean} /\ accepted /\ p.lvalue
  <2> SUFFICES ASSUME plain
               PROVE  /\ place = Memory(info) /\ Memory(info) \notin Faults
                      /\ info.type \notin {kVoid, kInvalid}
    BY <1>4 DEF plain, info, Infos
  <2>1. /\ accepted /\ p.plain /\ i.plain /\ p.lvalue /\ p.info.array /\ ~i.info.array
        /\ i.info.type = kInt
    BY DEF plain, accepted, CheckIndex
  <2>2. /\ ~p.inVector /\ p.place \notin Faults /\ p.place = Memory(p.info)
        /\ p.info.type \notin {kVoid, kInvalid}
    BY <1>1, <2>1 DEF Good, Placed
  <2>3. i.val = SC_INT_TYPE
    <3>1. i.val = Register(i.info)
      BY <1>1, <2>1 DEF Good, Lowered
    <3>2. ConvertToLLVMType(kInt) = SC_INT_TYPE
      BY DEF ConvertToLLVMType, IsFloatType, IsIntegerType, FloatTypes, IntegerTypes,
             TypeElementCnt, Vector, SC_INT_TYPE
    <3> QED BY <1>4, <2>1, <3>1, <3>2, PlainMemory
  <2>4. IsInts(i.val) /\ i.val.lanes = 0
    BY <2>3 DEF IsInts, SC_INT_TYPE, Value
  <2>5. place = GEP(p.place, i.val)
    BY <2>2, FaultsTyped DEF place, IndexPlace
  <2> QED BY <1>4, <2>1, <2>2, <2>4, <2>5, ElementMemory DEF GEP, info, Infos
<1>14. Lowered(e)
  BY <1>11, <1>13 DEF Lowered, Typed, Register
<1>15. Placed(e)
  BY <1>11, <1>13 DEF Placed, Typed
<1>16. Good(e)
  BY <1>10, <1>11, <1>12, <1>14, <1>15 DEF Good, Begun
<1> QED BY <1>2, <1>3, <1>16, Made

-----------------------------------------------------------------------------
(* Calls                                                                    *)

LEMMA TopGood ==
    ASSUME IInv, depth >= 1
    PROVE  Good(Top) /\ depth \in Levels
BY DEF IInv, TypeOK, Top, Levels

LEMMA BeginCallKept ==
    ASSUME IInv, NEW f \in Functions, BeginCall(f)
    PROVE  IInv'
<1> DEFINE info == ReturnOf[f]
           plain == (info.type # kBoolean)
           b == Node("call", info, Memory(info))
           e == [b EXCEPT !.callee = f, !.src = 1, !.evals = 1, !.plain = plain]
<1>1. info \in Infos /\ ~info.array /\ (Declared(info) \/ info.type = kVoid)
  BY DeclarationsAssumption
<1>2. Memory(info) \in LLVMValues \ Faults
  BY <1>1, MemoryTyped
<1> DEFINE accepted == TRUE
<1>3. MakeNode(0, e, accepted) /\ accepted \in BOOLEAN
  BY DEF BeginCall
<1> HIDE DEF info
<1>4. b \in Nodes
  BY <1>1, <1>2, NewNode
<1>5. /\ b.node = "call" /\ b.info = info /\ b.val = Memory(info) /\ b.place = Null /\ ~b.inVector
      /\ ~b.settable /\ ~b.referable /\ ~b.lvalue /\ b.placeEvals = 0 /\ ~b.indexed
  BY DEF Node
<1> HIDE DEF b
<1>6. e \in Nodes
  BY <1>4 DEF Nodes
<1>7. /\ e.node = "call" /\ e.info = info /\ e.val = Memory(info) /\ e.place = Null /\ ~e.inVector
      /\ ~e.settable /\ ~e.referable /\ ~e.lvalue /\ e.placeEvals = 0 /\ ~e.indexed
      /\ e.callee = f /\ e.src = 1 /\ e.evals = 1 /\ e.plain = plain
  BY <1>4, <1>5 DEF Nodes
<1> HIDE DEF e
<1>8. Lowered(e)
  BY <1>2, <1>7 DEF Lowered, Register
<1>9. Good(e)
  BY <1>6, <1>7, <1>8, FaultsTyped DEF Good, Counts, Placed, Begun, info
<1> HIDE DEF accepted
<1> QED BY <1>3, <1>9, Made

\* A plain value is passed as what the parameter wants.
LEMMA PassPlain ==
    ASSUME NEW e, Good(e), e.plain, NEW info \in Infos, Declared(info), ~info.array,
           PlainPass(info, e), checked /\ info.type = kStructure => info.struct = e.info.struct
    PROVE  CastValueType(e.val, CachedType(e), info.type) = Memory(info)
<1> DEFINE t == info.type
           u == e.info.type
<1>1. /\ e.info \in Infos /\ t \in VarType /\ u \in VarType /\ e.val \in LLVMValues
      /\ ~e.info.array /\ t \notin {kVoid, kInvalid}
  BY DEF Good, Nodes, Infos, Declared, PlainPass
<1>2. e.val \notin Faults /\ (u # kInvalid => e.val = Register(e.info))
  BY <1>1 DEF Good, Lowered
<1>3. CASE checked /\ t = kStructure
  <2>1. u = kStructure
    BY <1>3 DEF PlainPass, PlainCast, FloatTypes, IntegerTypes
  <2>2. e.info = info
    BY <1>1, <1>3, <2>1 DEF Infos
  <2>3. CastValueType(e.val, u, t) = e.val
    BY <1>3, <2>1 DEF CastValueType, ConvertKind, TypeElementCnt, IsFloatType, FloatTypes
  <2> QED BY <1>2, <1>3, <2>1, <2>2, <2>3 DEF CachedType, Cached, Register
<1>4. CASE checked /\ t # kStructure
  <2>1. PlainCast(t, u)
    BY <1>4 DEF PlainPass
  <2>2. u \notin {kStructure, kInvalid}
    BY <1>1, <1>4, <2>1 DEF PlainCast, FloatTypes, IntegerTypes
  <2>3. e.val = IF u = kBoolean THEN Bit ELSE ConvertToLLVMType(u)
    BY <1>1, <1>2, <2>2, PlainMemory
  <2>4. CastValueType(e.val, u, t) = ConvertToLLVMType(t)
    BY <1>1, <2>1, <2>3, CastPlain
  <2> QED BY <1>4, <2>4, PlainMemory DEF CachedType, Cached
<1>5. CASE ~checked
  <2>1. e.info = info /\ TypeElementCnt(t) = 0
    BY <1>5 DEF PlainPass
  <2>2. t # kBoolean
    BY <2>1 DEF TypeElementCnt
  <2>3. CachedType(e) = kInvalid
    BY <1>5 DEF CachedType, Cached, Unknown, Info
  <2>4. CastValueType(e.val, kInvalid, t) = e.val
    BY <1>1, <2>1, CastUnchecked
  <2> QED BY <1>1, <1>2, <2>1, <2>2, <2>3, <2>4 DEF Register
<1> QED BY <1>3, <1>4, <1>5

LEMMA ElementOf ==
    ASSUME NEW S, NEW s \in Seq(S), NEW i \in Nat, i < Len(s)
    PROVE  s[i + 1] \in S /\ i + 1 \in 1..Len(s)
OBVIOUS

\* The parameter that waits for an argument.
LEMMA ParameterTyped ==
    ASSUME NEW f \in Functions, NEW i \in Nat, i < Len(ArgumentsOf[f])
    PROVE  LET p == ArgumentsOf[f][i + 1]
           IN  /\ p \in [info : Infos, ref : BOOLEAN]
               /\ Declared(p.info) /\ ~p.info.array /\ ~ReturnOf[f].array
<1> DEFINE S == [info : Infos, ref : BOOLEAN]
<1>1. ArgumentsOf[f] \in Seq(S)
  BY DeclarationsAssumption
<1> HIDE DEF S
<1>2. ArgumentsOf[f][i + 1] \in S /\ i + 1 \in 1..Len(ArgumentsOf[f])
  BY <1>1, ElementOf
<1> QED BY <1>2, DeclarationsAssumption DEF S

LEMMA PassArgumentKept ==
    ASSUME IInv, PassArgument
    PROVE  IInv'
<1> DEFINE c == Below
           a == Top
           p == ArgumentsOf[c.callee][c.given + 1]
           accepted == CheckArgument(p, a)
           passes == PassesSoundly(p, a)
           val == IF passes THEN c.val ELSE Ill
           src == c.src + a.src
           evals == c.evals + ArgumentEvals(p, a)
           indexed == (c.indexed \/ a.indexed)
           plain == c.plain /\ accepted /\ a.plain /\ PlainArgument(p, a)
           given == c.given + 1
           e == [c EXCEPT !.given = given, !.val = val, !.src = src, !.evals = evals,
                          !.indexed = indexed, !.plain = plain]
<1>1. /\ Good(c) /\ Good(a) /\ c \in Nodes /\ a \in Nodes
      /\ c.node = "call" /\ c.given < Len(ArgumentsOf[c.callee])
  BY Built2 DEF PassArgument, Good
<1>2. FillNode(2, e, accepted)
  BY <1>1 DEF PassArgument, Nodes
<1>3. /\ c.callee \in Functions /\ c.info = ReturnOf[c.callee] /\ c.place = Null
      /\ ~c.lvalue /\ ~c.inVector
  BY <1>1 DEF Good, Begun, Placed
<1>4. /\ c.src \in Nat /\ c.evals \in Nat /\ c.placeEvals \in Nat /\ c.given \in Nat
      /\ a.src \in Nat /\ a.evals \in Nat /\ a.placeEvals \in Nat
      /\ c.indexed \in BOOLEAN /\ a.indexed \in BOOLEAN /\ c.val \in LLVMValues
      /\ a.val \in LLVMValues /\ a.info \in Infos
  BY <1>1 DEF Nodes
<1>5. p \in [info : Infos, ref : BOOLEAN] /\ Declared(p.info) /\ ~p.info.array /\ ~c.info.array
  BY <1>1, <1>3, <1>4, ParameterTyped
<1>6. accepted \in BOOLEAN /\ plain \in BOOLEAN
  BY <1>1 DEF accepted, plain, CheckArgument, CompatibleInfo, Nodes
<1> HIDE DEF c, a, p, accepted, plain, passes
<1>7. Memory(p.info) \notin Faults
  BY <1>5, MemoryTyped
<1>8. passes => IF p.ref THEN a.place \notin Faults ELSE a.val \notin Faults
  <2>1. CachedType(a) \in Int /\ p.info.type \in Int
    BY <1>4, <1>5 DEF CachedType, Cached, Unknown, Info, Infos, VarType
  <2>2. CastValueType(a.val, CachedType(a), p.info.type) \notin Faults => a.val \notin Faults
    BY <1>4, <2>1, CastTyped
  <2> QED BY <1>7, <2>2 DEF passes, PassesSoundly
<1>9. /\ val \in LLVMValues /\ src \in Nat /\ evals \in Nat /\ indexed \in BOOLEAN /\ given \in Nat
      /\ val \notin Faults => c.val \notin Faults /\ passes
  BY <1>4, FaultsTyped DEF ArgumentEvals
<1>10. /\ val \notin Faults => evals >= src
       /\ indexed => src > 0
       /\ ~indexed => evals <= src
  <2>1. /\ c.indexed => c.src > 0
        /\ a.indexed => a.src > 0
        /\ ~c.indexed => c.evals <= c.src
        /\ ~a.indexed => a.evals <= a.src /\ a.placeEvals = 0
        /\ c.val \notin Faults => c.evals >= c.src
        /\ a.val \notin Faults => a.evals >= a.src
        /\ a.place \notin Faults => a.placeEvals >= a.src
    BY <1>1 DEF Good, Counts
  <2>2. val \notin Faults => c.evals >= c.src /\ ArgumentEvals(p, a) >= a.src
    BY <1>8, <1>9, <2>1 DEF ArgumentEvals
  <2>3. ~a.indexed => ArgumentEvals(p, a) <= a.src
    BY <1>4, <2>1 DEF ArgumentEvals
  <2>4. ArgumentEvals(p, a) \in Nat
    BY <1>4 DEF ArgumentEvals
  <2> QED BY <1>4, <2>1, <2>2, <2>3, <2>4
<1> HIDE DEF val, src, evals, indexed, given
<1>11. e \in Nodes
  BY <1>1, <1>6, <1>9 DEF Nodes
<1>12. /\ e.val = val /\ e.src = src /\ e.evals = evals /\ e.indexed = indexed /\ e.plain = plain
       /\ e.given = given /\ e.node = c.node /\ e.info = c.info /\ e.place = c.place
       /\ e.inVector = c.inVector /\ e.lvalue = c.lvalue /\ e.placeEvals = c.placeEvals
       /\ e.settable = c.settable /\ e.referable = c.referable /\ e.callee = c.callee
  BY <1>1 DEF Nodes
<1> HIDE DEF e
<1>13. Counts(e)
  <2>1. ~indexed => c.placeEvals = 0
    BY <1>1 DEF Good, Counts, indexed
  <2> QED BY <1>1, <1>3, <1>10, <1>12, <2>1, FaultsTyped DEF Counts
<1>14. plain => passes
  <2> SUFFICES ASSUME plain PROVE PassesSoundly(p, a)
    BY DEF passes
  <2>1. a.plain /\ CheckArgument(p, a) /\ PlainArgument(p, a)
    BY DEF plain, accepted
  <2>2. CASE p.ref
    BY <1>1, <2>1, <2>2 DEF CheckArgument, PlainArgument, PassesSoundly, Good, Placed
  <2>3. CASE ~p.ref
    <3>1. PlainPass(p.info, a) /\ CompatibleInfo(p.info, a.info)
      BY <2>1, <2>3 DEF CheckArgument, PlainArgument
    <3>2. p.info.type = kStructure => p.info.struct = a.info.struct
      BY <3>1 DEF CompatibleInfo
    <3> QED BY <1>1, <1>5, <2>1, <2>3, <3>1, <3>2, PassPlain DEF PassesSoundly
  <2> QED BY <2>2, <2>3
<1>15. Lowered(e)
  BY <1>1, <1>12, <1>14 DEF Good, Lowered, plain, val
<1>16. Placed(e)
  BY <1>1, <1>3, <1>12 DEF Good, Placed, plain
<1>17. Good(e)
  BY <1>1, <1>3, <1>11, <1>12, <1>13, <1>15, <1>16 DEF Good, Begun
<1> QED BY <1>2, <1>6, <1>17, Made

LEMMA EndCallKept ==
    ASSUME IInv, EndCall
    PROVE  IInv'
<1> DEFINE c == Top
           e == [c EXCEPT !.node = "value", !.callee = NoFunction, !.given = 0]
           accepted == TRUE
<1>1. FillNode(1, e, accepted) /\ accepted \in BOOLEAN /\ c.node = "call"
  BY DEF EndCall
<1>2. Good(c) /\ c \in Nodes
  BY TopGood DEF EndCall, Good
<1> HIDE DEF c
<1>3. e \in Nodes
  BY <1>2 DEF Nodes
<1>4. /\ e.node = "value" /\ e.info = c.info /\ e.val = c.val /\ e.place = c.place
      /\ e.inVector = c.inVector /\ e.lvalue = c.lvalue /\ e.placeEvals = c.placeEvals
      /\ e.settable = c.settable /\ e.referable = c.referable
      /\ e.src = c.src /\ e.evals = c.evals /\ e.indexed = c.indexed /\ e.plain = c.plain
  BY <1>2 DEF Nodes
<1> HIDE DEF e, accepted
<1>5. Counts(e)
  BY <1>2, <1>4 DEF Good, Counts
<1>6. Lowered(e)
  BY <1>2, <1>4 DEF Good, Lowered
<1>7. Placed(e)
  BY <1>1, <1>2, <1>4 DEF Good, Placed
<1>8. Good(e)
  BY <1>3, <1>4, <1>5, <1>6, <1>7 DEF Good, Begun
<1> QED BY <1>1, <1>8, Made

-----------------------------------------------------------------------------
(* Initializers                                                             *)

LEMMA BeginInitializerKept ==
    ASSUME IInv, NEW t \in Initializable, BeginInitializer(t)
    PROVE  IInv'
<1> DEFINE val == ConvertToLLVMType(t)
           e == Node("init", Info(t), val)
           accepted == TRUE
<1>1. MakeNode(0, e, accepted) /\ accepted \in BOOLEAN
  BY DEF BeginInitializer
<1>2. t \in VarType /\ t \notin {kStructure, kBoolean, kInvalid, kVoid}
  BY DEF Initializable, FloatTypes, IntegerTypes, VarType
<1>3. Info(t) \in Infos /\ Info(t).type = t /\ ~Info(t).array
  BY <1>2, InfoTyped DEF Info
<1>4. val \in LLVMValues /\ val \notin Faults /\ val = Register(Info(t))
  BY <1>2, <1>3, ConvertedTyped, PlainMemory DEF VarType
<1> HIDE DEF val
<1>5. e \in Nodes
  BY <1>3, <1>4, NewNode
<1>6. Good(e)
  BY <1>3, <1>4, <1>5, FaultsTyped DEF Node, Good, Counts, Lowered, Placed, Begun
<1> HIDE DEF e, accepted
<1> QED BY <1>1, <1>6, Made

\* An element is computed and inserted: without a fault if neither part has one.
LEMMA ElementGiven ==
    ASSUME NEW c \in Nodes, NEW a \in Nodes, TypeElementCnt(c.info.type) > 0
    PROVE  /\ WithElement(c, a) \in LLVMValues
           /\ WithElement(c, a) \notin Faults =>
                 /\ a.val \notin Faults
                 /\ TypeElementCnt(c.info.type) > 1 => c.val \notin Faults
                 /\ TypeElementCnt(c.info.type) = 1 => TypeElementCnt(CachedType(a)) > 0
<1> DEFINE to == MakeType(IsIntegerType(c.info.type), 1)
           from == MakeType(IsIntegerType(CachedType(a)), 1)
           u == CachedType(a)
           t == c.info.type
<1>1. t \in Int /\ u \in Int /\ to \in Int /\ from \in Int /\ a.val \in LLVMValues /\ c.val \in LLVMValues
  BY DEF Nodes, Infos, VarType, CachedType, Cached, Unknown, Info, MakeType
<1>2. TypeElementCnt(t) \in 1..8 /\ TypeElementCnt(u) \in 0..8
  BY <1>1, Counted
<1> HIDE DEF u, t, to, from
<1>3. CASE TypeElementCnt(t) = 1
  <2>1. WithElement(c, a) = CastValueType(a.val, u, t)
    BY <1>3 DEF WithElement, u, t
  <2>2. TypeElementCnt(u) = 0 => WithElement(c, a) = Null
    BY <1>3, <2>1 DEF CastValueType
  <2> QED BY <1>1, <1>2, <1>3, <2>1, <2>2, CastTyped, FaultsTyped DEF u, t
<1>4. CASE TypeElementCnt(t) > 1 /\ TypeElementCnt(u) > 1
  <2>1. WithElement(c, a) = InsertElement(c.val, CastValueType(ExtractElement(a.val), from, to))
    BY <1>4 DEF WithElement, u, t, to, from
  <2>2. ExtractElement(a.val) \in LLVMValues /\ (ExtractElement(a.val) \notin Faults => a.val \notin Faults)
    BY <1>1, ElementTyped
  <2> DEFINE w == CastValueType(ExtractElement(a.val), from, to)
  <2>3. w \in LLVMValues /\ (w \notin Faults => ExtractElement(a.val) \notin Faults)
    BY <1>1, <2>2, CastTyped
  <2> QED BY <1>1, <1>4, <2>1, <2>2, <2>3, InsertTyped DEF t
<1>5. CASE TypeElementCnt(t) > 1 /\ ~(TypeElementCnt(u) > 1)
  <2>1. WithElement(c, a) = InsertElement(c.val, CastValueType(a.val, u, to))
    BY <1>2, <1>5 DEF WithElement, u, t, to
  <2>2. CastValueType(a.val, u, to) \in LLVMValues /\ (CastValueType(a.val, u, to) \notin Faults => a.val \notin Faults)
    BY <1>1, CastTyped
  <2> QED BY <1>1, <1>5, <2>1, <2>2, InsertTyped DEF t
<1> QED BY <1>2, <1>3, <1>4, <1>5

\* The type of one number.
LEMMA OneElement ==
    ASSUME NEW t \in FloatTypes \cup IntegerTypes
    PROVE  LET u == MakeType(IsIntegerType(t), 1)
           IN  /\ u \in {kFloat, kInt} /\ TypeElementCnt(u) = 1
               /\ ConvertToLLVMType(u) = Value(IF IsFloatType(t) THEN "float" ELSE "i32", 0)
               /\ ConvertToLLVMType(t) = Vector(IF IsFloatType(t) THEN "float" ELSE "i32", TypeElementCnt(t))
<1>1. CASE t \in FloatTypes
  BY <1>1 DEF MakeType, ConvertToLLVMType, Vector, IsFloatType, IsIntegerType, FloatTypes, IntegerTypes,
     TypeElementCnt
<1>2. CASE t \in IntegerTypes
  BY <1>2 DEF MakeType, ConvertToLLVMType, Vector, IsFloatType, IsIntegerType, FloatTypes, IntegerTypes,
     TypeElementCnt
<1> QED BY <1>1, <1>2

\* An accepted element leaves the value what it was: of the initializer's type.
LEMMA ElementPlain ==
    ASSUME NEW t \in FloatTypes \cup IntegerTypes, NEW u \in FloatTypes \cup IntegerTypes,
           TypeElementCnt(t) <= 4, TypeElementCnt(u) <= TypeElementCnt(t),
           NEW c \in Nodes, NEW a \in Nodes, c.info.type = t, CachedType(a) = u,
           a.val = ConvertToLLVMType(u), c.val = ConvertToLLVMType(t)
    PROVE  WithElement(c, a) = ConvertToLLVMType(t)
<1> DEFINE to == MakeType(IsIntegerType(t), 1)
           from == MakeType(IsIntegerType(u), 1)
           n == TypeElementCnt(t)
           of == IF IsFloatType(t) THEN "float" ELSE "i32"
           uf == IF IsFloatType(u) THEN "float" ELSE "i32"
<1>1. /\ to \in {kFloat, kInt} /\ from \in {kFloat, kInt}
      /\ TypeElementCnt(to) = 1 /\ TypeElementCnt(from) = 1
      /\ ConvertToLLVMType(to) = Value(of, 0) /\ ConvertToLLVMType(from) = Value(uf, 0)
      /\ ConvertToLLVMType(t) = Vector(of, n) /\ ConvertToLLVMType(u) = Vector(uf, TypeElementCnt(u))
  BY OneElement
<1>2. n \in {1, 2, 3, 4} /\ TypeElementCnt(u) \in {1, 2, 3, 4}
  BY Counted DEF FloatTypes, IntegerTypes
<1>3. /\ t \in VarType /\ u \in VarType /\ to \in VarType /\ from \in VarType
      /\ u # kBoolean /\ from # kBoolean /\ to \in FloatTypes \cup IntegerTypes
      /\ from \in FloatTypes \cup IntegerTypes
  BY <1>1 DEF VarType, FloatTypes, IntegerTypes
<1>4. a.val \in LLVMValues /\ c.val \in LLVMValues
  BY DEF Nodes
<1> HIDE DEF to, from, n, of, uf
<1>5. of \in {"float", "i32"} /\ uf \in {"float", "i32"}
  BY DEF of, uf
<1>6. CASE n = 1
  <2>1. PlainCast(t, u)
    BY <1>2, <1>6 DEF PlainCast, n
  <2>2. CastValueType(a.val, u, t) = ConvertToLLVMType(t)
    BY <1>3, <1>4, <2>1, CastPlain
  <2> QED BY <1>6, <2>2 DEF WithElement, n
<1>7. CASE n > 1
  <2>1. c.val = Value(of, n) /\ n \in 1..8
    BY <1>1, <1>2, <1>7 DEF Vector
  <2>2. Scalar(c.val) = Value(of, 0) /\ c.val.lanes > 0
    <3>1. Value(of, n).lanes = n
      BY DEF Value
    <3> QED BY <1>2, <1>5, <2>1, <3>1, ScalarOf
  <2>3. CASE TypeElementCnt(u) > 1
    <3>1. a.val = Value(uf, TypeElementCnt(u)) /\ TypeElementCnt(u) \in 1..8
      BY <1>1, <1>2, <2>3 DEF Vector
    <3>2. ExtractElement(a.val) = Value(uf, 0)
      BY <1>5, <3>1, ScalarOf
    <3>3. Value(uf, 0) \in LLVMValues
      BY <1>5 DEF Value, LLVMValues
    <3>4. PlainCast(to, from)
      BY <1>1, <1>3 DEF PlainCast
    <3>5. CastValueType(ExtractElement(a.val), from, to) = Value(of, 0)
      BY <1>1, <1>3, <3>2, <3>3, <3>4, CastPlain
    <3> QED BY <1>7, <2>1, <2>2, <2>3, <3>5 DEF WithElement, InsertElement, n, to, from
  <2>4. CASE TypeElementCnt(u) = 1
    <3>1. PlainCast(to, u)
      BY <1>1, <1>3, <2>4 DEF PlainCast
    <3>2. CastValueType(a.val, u, to) = Value(of, 0)
      BY <1>1, <1>3, <1>4, <3>1, CastPlain
    <3> QED BY <1>7, <2>1, <2>2, <2>4, <3>2 DEF WithElement, InsertElement, n, to
  <2> QED BY <1>2, <2>3, <2>4
<1> QED BY <1>2, <1>6, <1>7

LEMMA GiveElementKept ==
    ASSUME IInv, GiveElement
    PROVE  IInv'
<1> DEFINE c == Below
           a == Top
           accepted == CheckElement(c, a)
           val == WithElement(c, a)
           src == c.src + a.src
           evals == c.evals + a.evals
           indexed == (c.indexed \/ a.indexed)
           plain == c.plain /\ accepted /\ checked /\ a.plain /\ ~a.info.array
           given == c.given + TypeElementCnt(a.info.type)
           e == [c EXCEPT !.given = given, !.val = val, !.src = src, !.evals = evals,
                          !.indexed = indexed, !.plain = plain]
<1>1. /\ Good(c) /\ Good(a) /\ c \in Nodes /\ a \in Nodes /\ checked \in BOOLEAN
      /\ c.node = "init" /\ c.given < TypeElementCnt(c.info.type)
  BY Built2 DEF GiveElement, Good, IInv, TypeOK
<1>2. FillNode(2, e, accepted)
  BY <1>1 DEF GiveElement, Nodes
<1>3. /\ c.info.type \in Initializable /\ ~c.info.array /\ c.info = Info(c.info.type) /\ c.place = Null
      /\ ~c.lvalue /\ ~c.inVector
  <2>1. c.info.type \in Initializable /\ c.info = Info(c.info.type) /\ c.place = Null
    BY <1>1 DEF Good, Begun
  <2>2. ~Info(c.info.type).array
    BY DEF Info
  <2> QED BY <1>1, <2>1, <2>2 DEF Good, Placed
<1>4. /\ c.src \in Nat /\ c.evals \in Nat /\ c.placeEvals \in Nat /\ c.given \in Nat
      /\ a.src \in Nat /\ a.evals \in Nat
      /\ c.indexed \in BOOLEAN /\ a.indexed \in BOOLEAN
      /\ c.info \in Infos /\ a.info \in Infos /\ a.info.type \in Int
  BY <1>1 DEF Nodes, Infos, VarType
<1>5. accepted \in BOOLEAN /\ plain \in BOOLEAN
  BY <1>1 DEF accepted, plain, CheckElement
<1>6. /\ TypeElementCnt(c.info.type) \in {1, 2, 3, 4}
      /\ TypeElementCnt(a.info.type) \in Nat
      /\ c.info.type \in FloatTypes \cup IntegerTypes
  BY <1>3, <1>4, Counted DEF Initializable, FloatTypes, IntegerTypes, TypeElementCnt
<1> HIDE DEF c, a, accepted, plain
<1>7. /\ val \in LLVMValues
      /\ val \notin Faults =>
            /\ a.val \notin Faults
            /\ TypeElementCnt(c.info.type) > 1 => c.val \notin Faults
            /\ TypeElementCnt(c.info.type) = 1 => TypeElementCnt(CachedType(a)) > 0
  BY <1>1, <1>6, ElementGiven
<1>8. src \in Nat /\ evals \in Nat /\ indexed \in BOOLEAN /\ given \in Nat
  BY <1>4, <1>6
<1>9. /\ val \notin Faults => evals >= src
      /\ indexed => src > 0
      /\ ~indexed => evals <= src /\ c.placeEvals = 0
  <2>1. /\ c.indexed => c.src > 0
        /\ a.indexed => a.src > 0
        /\ ~c.indexed => c.evals <= c.src /\ c.placeEvals = 0
        /\ ~a.indexed => a.evals <= a.src
        /\ c.val \notin Faults \/ (checked /\ c.given = 0) => c.evals >= c.src
        /\ a.val \notin Faults => a.evals >= a.src
    BY <1>1 DEF Good, Counts
  <2>2. val \notin Faults => c.evals >= c.src
    <3>1. TypeElementCnt(kInvalid) = 0
      BY DEF TypeElementCnt
    <3>2. ~checked => TypeElementCnt(CachedType(a)) = 0
      BY <3>1 DEF CachedType, Cached, Unknown, Info
    <3>3. TypeElementCnt(c.info.type) = 1 => c.given = 0
      BY <1>1, <1>4
    <3> QED BY <1>6, <1>7, <2>1, <3>2, <3>3
  <2> QED BY <1>4, <1>7, <2>1, <2>2
<1>10. accepted \/ ~checked => ~checked \/ given # 0
  <2>1. accepted => TypeElementCnt(a.info.type) # 0
    BY <1>4, Counted DEF accepted, CheckElement
  <2> QED BY <1>4, <1>6, <2>1
<1> HIDE DEF val, src, evals, indexed, given
<1>11. e \in Nodes
  BY <1>1, <1>5, <1>7, <1>8 DEF Nodes
<1>12. /\ e.val = val /\ e.src = src /\ e.evals = evals /\ e.indexed = indexed /\ e.plain = plain
       /\ e.given = given /\ e.node = c.node /\ e.info = c.info /\ e.place = c.place
       /\ e.inVector = c.inVector /\ e.lvalue = c.lvalue /\ e.placeEvals = c.placeEvals
       /\ e.settable = c.settable /\ e.referable = c.referable
  BY <1>1 DEF Nodes
<1> HIDE DEF e
<1>13. accepted \/ ~checked => Counts(e)
  BY <1>1, <1>3, <1>9, <1>10, <1>12, FaultsTyped DEF Counts
<1>14. plain => val = c.val
  <2> SUFFICES ASSUME plain PROVE val = c.val
    OBVIOUS
  <2> DEFINE t == c.info.type
             u == a.info.type
  <2>1. /\ c.plain /\ CheckElement(c, a) /\ checked /\ a.plain /\ ~a.info.array
    BY DEF plain, accepted
  <2>2. /\ u \in FloatTypes \cup IntegerTypes /\ TypeElementCnt(u) <= TypeElementCnt(t)
        /\ t \in FloatTypes \cup IntegerTypes /\ TypeElementCnt(t) <= 4
        /\ CachedType(a) = u
    BY <1>4, <1>6, <2>1 DEF CheckElement, CachedType, Cached
  <2>3. t \notin {kStructure, kBoolean, kInvalid} /\ u \notin {kStructure, kBoolean, kInvalid}
    BY <2>2 DEF FloatTypes, IntegerTypes
  <2>4. c.val = ConvertToLLVMType(t) /\ a.val = ConvertToLLVMType(u)
    <3>1. c.val = Register(c.info) /\ a.val = Register(a.info)
      BY <1>1, <1>3, <2>1, <2>3 DEF Good, Lowered
    <3> QED BY <1>3, <1>4, <2>1, <2>3, <3>1, PlainMemory
  <2> HIDE DEF t, u
  <2>5. WithElement(c, a) = ConvertToLLVMType(t)
    BY <1>1, <2>2, <2>4, ElementPlain DEF t
  <2> QED BY <2>4, <2>5 DEF val
<1>15. Lowered(e)
  BY <1>1, <1>12, <1>14 DEF Good, Lowered, plain
<1>16. Placed(e)
  BY <1>1, <1>3, <1>12 DEF Good, Placed, plain
<1>17. accepted \/ ~checked => Good(e)
  BY <1>1, <1>3, <1>11, <1>12, <1>13, <1>15, <1>16 DEF Good, Begun
<1> QED BY <1>2, <1>5, <1>17, Made

LEMMA EndInitializerKept ==
    ASSUME IInv, EndInitializer
    PROVE  IInv'
<1> DEFINE c == Top
           accepted == (c.given = TypeElementCnt(c.info.type))
           plain == (c.plain /\ accepted)
           e == [c EXCEPT !.node = "value", !.given = 0, !.plain = plain]
<1>1. Good(c) /\ c \in Nodes /\ c.node = "init" /\ depth >= 1
  BY TopGood DEF EndInitializer, Good
<1>2. FillNode(1, e, accepted) /\ accepted \in BOOLEAN
  BY <1>1 DEF EndInitializer, Nodes
<1>3. plain \in BOOLEAN
  BY <1>1 DEF plain, Nodes
<1> HIDE DEF c, accepted, plain
<1>4. e \in Nodes
  BY <1>1, <1>3 DEF Nodes
<1>5. /\ e.node = "value" /\ e.info = c.info /\ e.val = c.val /\ e.place = c.place
      /\ e.inVector = c.inVector /\ e.lvalue = c.lvalue /\ e.placeEvals = c.placeEvals
      /\ e.settable = c.settable /\ e.referable = c.referable
      /\ e.src = c.src /\ e.evals = c.evals /\ e.indexed = c.indexed /\ e.plain = plain
  BY <1>1 DEF Nodes
<1> HIDE DEF e
<1>6. Counts(e)
  BY <1>1, <1>5 DEF Good, Counts
<1>7. Lowered(e)
  BY <1>1, <1>5 DEF Good, Lowered, plain
<1>8. Placed(e)
  BY <1>1, <1>5 DEF Good, Placed, plain
<1>9. Good(e)
  BY <1>4, <1>5, <1>6, <1>7, <1>8 DEF Good, Begun
<1> QED BY <1>2, <1>9, Made

-----------------------------------------------------------------------------
(* Statements                                                               *)

LEMMA Finished ==
    ASSUME IInv, NEW accepted, NEW sound, NEW plain \in BOOLEAN, Finish(accepted, sound, plain),
           plain /\ (accepted \/ ~checked) => sound
    PROVE  IInv'
<1>1. checked' = checked /\ size' = size /\ depth' = 0
  BY DEF Finish
<1>2. stack' = [i \in Levels |-> Nothing]
  BY DEF Finish
<1>3. /\ plainStmt' = plain /\ status' \in {"refused", "sound", "faulty"}
      /\ plain => status' # "faulty"
  BY DEF Finish
<1>4. Good(Nothing)
  BY NothingGood
<1>5. \A i \in Levels : Good(stack'[i])
  BY <1>2, <1>4
<1>6. ASSUME NEW x, Good(x) PROVE Good(x)'
  BY <1>1, <1>6 DEF Good, Counts, Lowered, Placed, Begun
<1>7. \A i \in Levels : Good(stack[i])'
  BY <1>5, <1>6
<1>8. stack' \in [Levels -> Nodes]
  BY <1>2, <1>5 DEF Good
<1> QED BY <1>1, <1>3, <1>7, <1>8, BoundsAssumption DEF IInv, TypeOK

LEMMA ExpressionKept ==
    ASSUME IInv, ExpressionStatement
    PROVE  IInv'
<1> DEFINE accepted == TRUE
           sound == Top.val \notin Faults
           plain == (Top.plain /\ ~Top.info.array)
<1>1. Finish(accepted, sound, plain)
  BY DEF ExpressionStatement
<1>2. Good(Top)
  BY <1>1, Built1 DEF Finish
<1>3. plain \in BOOLEAN /\ (plain => sound)
  BY <1>2 DEF Good, Lowered
<1> HIDE DEF accepted, sound, plain
<1> QED BY <1>1, <1>3, Finished

LEMMA ReturnKept ==
    ASSUME IInv, NEW info, Return(info)
    PROVE  IInv'
<1> DEFINE e == Top
           accepted == CompatibleInfo(info, e.info)
           sound == Store(e.val, Memory(info)) \notin Faults
           plain == (e.plain /\ e.info = info /\ info.type # kBoolean)
<1>1. checked /\ Finish(accepted, sound, plain)
  BY DEF Return
<1>2. Good(e) /\ checked \in BOOLEAN
  BY <1>1, Built1 DEF Finish, IInv, TypeOK
<1>3. plain \in BOOLEAN
  BY <1>2 DEF Good, Nodes
<1>4. plain /\ (accepted \/ ~checked) => sound
  <2> SUFFICES ASSUME plain, accepted PROVE sound
    BY <1>1
  <2>1. ~e.info.array /\ info.type # kInvalid
    BY DEF CompatibleInfo, IsTypeCompatible, IsFloatType, IsIntegerType, FloatTypes, IntegerTypes
  <2>2. e.val = Register(info) /\ e.val \notin Faults
    BY <1>2, <2>1 DEF Good, Lowered
  <2> QED BY <2>2 DEF Store, Register
<1> HIDE DEF accepted, sound, plain
<1> QED BY <1>1, <1>3, <1>4, Finished

LEMMA DefineVariableKept ==
    ASSUME IInv, NEW v \in Variables, DefineVariable(v)
    PROVE  IInv'
<1> DEFINE e == Top
           accepted == IsTypeCompatible(v.type, e.info.type)
           sound == Store(CastValueType(e.val, CachedType(e), v.type), Memory(v)) \notin Faults
           plain == (e.plain /\ ~v.array /\ PlainPass(v, e))
<1>1. checked /\ v.type # kStructure /\ Finish(accepted, sound, plain)
  BY DEF DefineVariable
<1>2. Good(e) /\ checked \in BOOLEAN
  BY <1>1, Built1 DEF Finish, IInv, TypeOK
<1>3. plain \in BOOLEAN
  BY <1>2 DEF Good, Nodes
<1>4. v \in Infos /\ Declared(v) /\ Memory(v) \notin Faults
  BY DeclarationsAssumption, MemoryTyped DEF Declared
<1>5. plain => sound
  BY <1>1, <1>2, <1>4, PassPlain DEF Store
<1> HIDE DEF accepted, sound, plain
<1> QED BY <1>1, <1>3, <1>5, Finished

LEMMA ConditionKept ==
    ASSUME IInv, Condition
    PROVE  IInv'
<1> DEFINE e == Top
           accepted == e.info.type = kBoolean
           sound == e.val = Bit
           plain == (e.plain /\ ~e.info.array)
<1>1. checked /\ Finish(accepted, sound, plain)
  BY DEF Condition
<1>2. Good(e)
  BY <1>1, Built1 DEF Finish
<1>3. plain \in BOOLEAN /\ (plain /\ accepted => sound)
  BY <1>2 DEF Good, Lowered, Register
<1> HIDE DEF accepted, sound, plain
<1> QED BY <1>1, <1>3, Finished

-----------------------------------------------------------------------------
(* The theorems                                                             *)

LEMMA InitGood == Init => IInv
<1> SUFFICES ASSUME Init PROVE IInv
  OBVIOUS
<1>1. \A i \in Levels : Good(stack[i])
  BY NothingGood DEF Init
<1>2. stack \in [Levels -> Nodes]
  BY <1>1 DEF Init, Good
<1> QED BY <1>1, <1>2, BoundsAssumption DEF Init, IInv, TypeOK

LEMMA StepGood == IInv /\ [Next]_vars => IInv'
<1> SUFFICES ASSUME IInv, [Next]_vars PROVE IInv'
  OBVIOUS
<1>1. CASE Leaf
  BY <1>1, ConstantKept, VariableKept DEF Leaf
<1>2. CASE Operator
  <2>1. CASE \E op \in {"-", "!"} : UnaryOp(op)
    BY <2>1, UnaryKept
  <2>2. CASE \E op \in Operators \ {"="} : BinaryOp(op)
    BY <2>2, BinaryKept
  <2>3. CASE Assign
    BY <2>3, AssignKept
  <2> QED BY <1>2, <2>1, <2>2, <2>3 DEF Operator
<1>3. CASE Access
  <2>1. CASE \E s \in Structs : \E m \in MembersOf[s] : Member(s, m)
    BY <2>1, MemberKept
  <2>2. CASE \E cnt \in 1..4, last \in {0, 3} : Swizzle(cnt, last)
    BY <2>2, SwizzleKept
  <2>3. CASE Index
    BY <2>3, IndexKept
  <2> QED BY <1>3, <2>1, <2>2, <2>3 DEF Access
<1>4. CASE Call
  <2>1. CASE \E f \in Functions : BeginCall(f)
    BY <2>1, BeginCallKept
  <2> QED BY <1>4, <2>1, PassArgumentKept, EndCallKept DEF Call
<1>5. CASE Initializer
  <2>1. CASE \E t \in Initializable : BeginInitializer(t)
    BY <2>1, BeginInitializerKept
  <2> QED BY <1>5, <2>1, GiveElementKept, EndInitializerKept DEF Initializer
<1>6. CASE Statement
  <2>1. CASE \E f \in Functions : ReturnOf[f].type # kVoid /\ Return(ReturnOf[f])
    BY <2>1, ReturnKept
  <2>2. CASE \E v \in Variables : DefineVariable(v)
    BY <2>2, DefineVariableKept
  <2> QED BY <1>6, <2>1, <2>2, ExpressionKept, ConditionKept DEF Statement
<1>7. CASE UNCHANGED vars
  <2>1. ASSUME NEW x, Good(x) PROVE Good(x)'
    BY <1>7, <2>1 DEF vars, Good, Counts, Lowered, Placed, Begun
  <2>2. \A i \in Levels : Good(stack[i]')
    BY <1>7 DEF vars, IInv
  <2>3. \A i \in Levels : Good(stack[i])'
    BY <2>1, <2>2
  <2> QED BY <1>7, <2>3 DEF vars, IInv, TypeOK
<1> QED BY <1>1, <1>2, <1>3, <1>4, <1>5, <1>6, <1>7 DEF Next

LEMMA AlwaysGood == Spec => []IInv
BY InitGood, StepGood, PTL DEF Spec

\* The check and the code of an expression keep their values within their types.
THEOREM TypeCorrect == Spec => []TypeOK
<1>1. IInv => TypeOK
  BY DEF IInv
<1> QED BY <1>1, AlwaysGood, PTL

\* Code that LLVM takes calls a function as often as the source does, but for calls in
\* an index: whatever the operands of "=" and the parents of "." and "[]" generate twice.
THEOREM CallsCounted == Spec => []EvaluatedOnce
<1>1. IInv => EvaluatedOnce
  <2> SUFFICES ASSUME IInv, NEW e \in Built, e.val \notin Faults
               PROVE  e.evals >= e.src /\ (~e.indexed => e.evals = e.src)
    BY DEF EvaluatedOnce
  <2>1. e \in Nodes /\ Counts(e)
    BY BuiltGood DEF Good
  <2>2. e.evals \in Nat /\ e.src \in Nat
    BY <2>1 DEF Nodes
  <2> QED BY <2>1, <2>2 DEF Counts
<1> QED BY <1>1, AlwaysGood, PTL

\* Where the parser accepts an assignment or a reference to a plain expression,
\* GetValuePtr finds the place that GenerateAssignCode and Exp_FunctionCall assert.
THEOREM TargetsSound == Spec => []TargetsHavePlaces
<1>1. IInv => TargetsHavePlaces
  <2> SUFFICES ASSUME IInv, NEW e \in Built, e.plain
               PROVE  /\ e.settable => (IF e.inVector THEN Scalar(e.place) ELSE e.place) = Memory(e.info)
                      /\ e.referable => e.place = Memory(e.info) /\ ~e.inVector
    BY DEF TargetsHavePlaces
  <2>1. Placed(e)
    BY BuiltGood DEF Good
  <2> QED BY <2>1 DEF Placed
<1> QED BY <1>1, AlwaysGood, PTL

\* A plain expression is lowered to a value of its checked type, and a plain statement
\* the parser accepts to code LLVM takes.
THEOREM PlainSound == Spec => []PlainLowered
<1>1. IInv => PlainLowered
  <2> SUFFICES ASSUME IInv, NEW e \in Built, e.plain, ~e.info.array
               PROVE  IF e.info.type = kInvalid THEN e.val \notin Faults ELSE e.val = Register(e.info)
    BY DEF PlainLowered, IInv
  <2>1. Lowered(e)
    BY BuiltGood DEF Good
  <2> QED BY <2>1 DEF Lowered
<1> QED BY <1>1, AlwaysGood, PTL
=============================================================================
