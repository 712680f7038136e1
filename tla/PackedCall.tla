----------------------------- MODULE PackedCall -----------------------------
(***************************************************************************)
(* The wrapper CG_Context::CreateFunctionWithPackedArguments builds around *)
(* a compiled function so that C++ code can call it.  C++ data is packed,  *)
(* the compiled function works on LLVM's own layout: the wrapper unpacks   *)
(* the arguments that need it into copies of its own, one after the other, *)
(* calls the function, and packs the by-reference copies back.             *)
(***************************************************************************)
EXTENDS Naturals

CONSTANTS N,         \* number of arguments
          Cells,     \* the caller's variables
          Contents   \* what a variable may hold

ASSUME NAssumption == N \in Nat

Args == 1..N
Kinds == {"value", "ref", "extern"}

\* A scalar is the same in both layouts.
Layouts == {"packed", "ksc", "either"}
Data == [layout : Layouts, content : Contents]

VARIABLES
    kind, at, result, handed,
    packed,  \* needJITPacked of each argument
    mem,     \* the caller's variables
    local,   \* the wrapper's copies (packed references) and by-value arguments
    phase,   \* "in", "run", "out" or "done"
    idx      \* the argument the wrapper has reached

signature == <<kind, at, packed>>
vars == <<signature, result, handed, mem, local, phase, idx>>

\* ConvertValueToPacked and ConvertValueFromPacked copy member by member.
As(d, layout) == IF d.layout = "either" THEN d ELSE [d EXCEPT !.layout = layout]
Pack(d) == As(d, "packed")
Unpack(d) == As(d, "ksc")

\* Is the data in the layout KSC_TypeInfo::isKSCLayout asks of argument i?
Fits(d, i) == d.layout \in {IF packed[i] THEN "packed" ELSE "ksc", "either"}

\* Exp_FunctionDecl::Parse sets needJITPacked for "&" and "%" arguments only: "&" is
\* packed and "%" is not.  It is uninitialised, hence arbitrary, for the others.  The
\* caller provides the layout asked for, and may pass one variable several times.  An
\* external object is no KSC data: the wrapper knows it as one byte.
Init ==
    /\ kind \in [Args -> Kinds] /\ packed \in [Args -> BOOLEAN] /\ at \in [Args -> Cells]
    /\ mem \in [Cells -> Data]
    /\ \A i \in Args : Fits(mem[at[i]], i)
    /\ \A i \in Args : kind[i] = "extern" =>
          /\ mem[at[i]].layout = "either"
          /\ \A j \in Args : kind[j] = "ref" => at[j] # at[i]
    /\ local = [i \in Args |-> mem[at[i]]]
    /\ result \in Contents /\ handed = {}
    /\ phase = "in" /\ idx = 1

-----------------------------------------------------------------------------
(* The wrapper.                                                            *)

\* A by-value argument is in the wrapper's hands from the start.
Argument(i) == IF kind[i] = "value" THEN local[i] ELSE mem[at[i]]
CopyIn_Raw(i) == Argument(i)
CopyIn(i) == IF packed[i] THEN Unpack(Argument(i)) ELSE Argument(i)

ConvertArgument ==
    /\ phase = "in" /\ idx <= N
    /\ local' = [local EXCEPT ![idx] = CopyIn(idx)]
    /\ idx' = idx + 1
    /\ UNCHANGED <<signature, result, handed, mem, phase>>

Call_Counts ==
    /\ phase = "in" /\ idx > N
    /\ phase' = "run" /\ idx' = idx + 1
    /\ UNCHANGED <<signature, result, handed, mem, local>>
Call ==
    /\ phase = "in" /\ idx > N
    /\ phase' = "run"
    /\ UNCHANGED <<signature, result, handed, mem, local, idx>>

\* Every argument of the wrapper that is a pointer is written back if it was
\* unpacked: references, and external pointers, whose byte is copied.
CopyOut_Raw(d) == d
CopyOut(d) == Pack(d)

ConvertBack_Values ==
    /\ phase = "out" /\ idx <= N
    /\ mem' = IF packed[idx] /\ kind[idx] = "value"
              THEN [mem EXCEPT ![at[idx]] = CopyOut(local[idx])] ELSE mem
    /\ idx' = idx + 1
    /\ UNCHANGED <<signature, result, handed, local, phase>>
ConvertBack ==
    /\ phase = "out" /\ idx <= N
    /\ mem' = IF packed[idx] /\ kind[idx] # "value"
              THEN [mem EXCEPT ![at[idx]] = CopyOut(local[idx])] ELSE mem
    /\ idx' = idx + 1
    /\ UNCHANGED <<signature, result, handed, local, phase>>

Finish ==
    /\ phase = "out" /\ idx > N
    /\ phase' = "done"
    /\ UNCHANGED <<signature, result, handed, mem, local, idx>>

-----------------------------------------------------------------------------
(* The compiled function: assignments to its arguments, external pointers  *)
(* handed on to C++ functions, and its return.                             *)

InPlace(i) == kind[i] = "ref" /\ ~packed[i]     \* the function got the caller's pointer

Operand(i) == IF InPlace(i) THEN mem[at[i]] ELSE local[i]

Store(i, v) ==
    \/ /\ InPlace(i)
       /\ mem' = [mem EXCEPT ![at[i]].content = v] /\ UNCHANGED local
    \/ /\ ~InPlace(i) /\ kind[i] # "extern"
       /\ local' = [local EXCEPT ![i].content = v] /\ UNCHANGED mem

Assign(i) ==
    /\ phase = "run"
    /\ \/ \E v \in Contents : Store(i, v)
       \/ \E j \in Args : kind[j] # "extern" /\ Store(i, Operand(j).content)
    /\ UNCHANGED <<signature, result, handed, phase, idx>>

HandOn(i) ==
    /\ phase = "run" /\ kind[i] = "extern"
    /\ handed' = handed \cup {IF packed[i] THEN "copy" ELSE at[i]}
    /\ UNCHANGED <<signature, result, mem, local, phase, idx>>

Return ==
    /\ phase = "run" /\ phase' = "out" /\ idx' = 1
    /\ result' \in Contents
    /\ UNCHANGED <<signature, handed, mem, local>>

Next ==
    \/ ConvertArgument \/ Call \/ ConvertBack \/ Finish \/ Return
    \/ \E i \in Args : Assign(i) \/ HandOn(i)

\* The wrapper is straight-line code; nothing is assumed of the function it calls.
Spec == Init /\ [][Next]_vars /\ WF_vars(ConvertArgument \/ Call \/ ConvertBack \/ Finish)

-----------------------------------------------------------------------------
\* The state variables hold values of their types.
TypeOK ==
    /\ kind \in [Args -> Kinds] /\ packed \in [Args -> BOOLEAN] /\ at \in [Args -> Cells]
    /\ mem \in [Cells -> Data] /\ local \in [Args -> Data]
    /\ result \in Contents /\ handed \subseteq Cells \cup {"copy"}
    /\ phase \in {"in", "run", "out", "done"} /\ idx \in 1..(N + 1)

\* The compiled function never works on packed data.
FunctionSeesKscLayout ==
    phase = "run" => \A i \in Args : kind[i] # "extern" => Operand(i).layout # "packed"

\* The caller finds its data in the layout it passed it in.
CallerKeepsLayout ==
    phase = "done" => \A i \in Args : Fits(mem[at[i]], i)

-----------------------------------------------------------------------------
(* The wrapper implements PointerCall.  A packed reference to a variable   *)
(* that no other reference leads to acts as a pointer: while it is in the  *)
(* wrapper's hands, the variable is what the copy says it is.  At the      *)
(* return the last of several copies decides.                              *)

Packs(c) == {i \in Args : kind[i] = "ref" /\ packed[i] /\ at[i] = c}
Alone(i) == \A j \in Args \ {i} : kind[j] = "ref" => at[j] # at[i]

InFlight(i, c) ==
    /\ i \in Packs(c)
    /\ \/ phase = "in" /\ i < idx /\ Alone(i)
       \/ phase = "run" /\ Alone(i)
       \/ phase = "out" /\ i >= idx /\ \A j \in Packs(c) : j <= i

MemView(c) ==
    IF \E i \in Args : InFlight(i, c)
    THEN local[CHOOSE i \in Args : InFlight(i, c)].content
    ELSE mem[c].content

CellsView == [c \in Cells |-> MemView(c)]

CopiedView == {i \in Args : packed[i] /\ (kind[i] = "extern" \/ (kind[i] = "ref" /\ ~Alone(i)))}

OwnView ==
    [i \in {j \in Args : kind[j] = "value" \/ (kind[j] = "ref" /\ j \in CopiedView)} |-> local[i].content]

StateView == CASE phase = "in" -> "called" [] phase = "run" -> "running" [] OTHER -> "returned"

Pointers == INSTANCE PointerCall
    WITH mem <- CellsView, own <- OwnView, copied <- CopiedView, state <- StateView

\* SC_API.h: the JIT-ed function treats the referenced arguments as C++ pointers. The
\* wrapper does so for any caller, but for the copies PointerCall allows.
PointersSpec == Pointers!Spec
=============================================================================
