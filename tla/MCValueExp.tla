----------------------------- MODULE MCValueExp -----------------------------
(* ValueExp with one structure, variables of every kind of type, and functions *)
(* that take values and references.                                           *)
EXTENDS ValueExp

MCStructs == {"S"}
Array(t) == [Info(t) EXCEPT !.array = TRUE]
S == [type |-> kStructure, struct |-> "S", array |-> FALSE]

MCMembersOf == [s \in MCStructs |-> {Info(kFloat3), Info(kBoolean), Array(kInt)}]

MCVariables ==
    {Info(kFloat), Info(kFloat3), Info(kFloat8), Info(kInt8), Info(kInt), Info(kBoolean), Info(kExternType),
     S, [S EXCEPT !.array = TRUE], Array(kBoolean)}

MCFunctions == {"scale", "next", "test", "copy"}
MCReturnOf ==
    [f \in MCFunctions |-> CASE f = "scale" -> Info(kFloat3)
                             [] f = "next" -> Info(kInt)
                             [] f = "test" -> Info(kBoolean)
                             [] f = "copy" -> S]
ByValue(info) == [info |-> info, ref |-> FALSE]
ByReference(info) == [info |-> info, ref |-> TRUE]
MCArgumentsOf ==
    [f \in MCFunctions |-> CASE f = "scale" -> <<ByReference(Info(kFloat3)), ByValue(Info(kFloat))>>
                             [] f = "next" -> <<ByReference(Info(kInt))>>
                             [] f = "test" -> <<ByValue(Info(kBoolean))>>
                             [] f = "copy" -> <<ByValue(S)>>]
=============================================================================
