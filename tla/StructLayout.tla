---------------------------- MODULE StructLayout ----------------------------
(***************************************************************************)
(* The structure descriptor that Exp_StructDef::ConvertToDescription       *)
(* builds, and its use by C++ code: KSC_SetStructMemberData writes a       *)
(* member at the described offset, while compiled code finds the member    *)
(* where LLVM's data layout puts it.  Sizes count in some unit of memory.  *)
(***************************************************************************)
EXTENDS Integers, Sequences

CONSTANTS Types,       \* member types, as [size, align] of LLVM's data layout
          MaxMembers,  \* bound: members of the structure
          MaxArray     \* bound: declared array size of a member, 0 for no array

ASSUME TypesAssumption ==
    \A t \in Types : t.size \in Nat \ {0} /\ t.align \in Nat \ {0}
ASSUME BoundsAssumption == MaxMembers \in Nat /\ MaxArray \in Nat

Members == [type : Types, array : 0..MaxArray]
Infos == [mem_offset : Nat, mem_size : Nat \ {0}]

VARIABLES
    structure,     \* the members of the Exp_StructDef, in order
    reached,       \* the member the loop has reached
    curMemOffset,  \* the loop's running offset
    info,          \* mMemberIndices: the descriptor, in member order
    llvmEnd,       \* LLVM (external): where the members so far end
    llvmOffset,    \* LLVM (external): the offset of each member so far
    memory,        \* the caller's variable: the member each unit was written for
    written        \* members written by the caller

layoutVars == <<structure, reached, curMemOffset, info, llvmEnd, llvmOffset, memory, written>>

LayoutInit ==
    /\ structure \in UNION {[1..n -> Members] : n \in 1..MaxMembers}
    /\ reached = 1 /\ curMemOffset = 0 /\ info = <<>>
    /\ llvmEnd = 0 /\ llvmOffset = <<>>
    /\ memory = [u \in {} |-> 0] /\ written = {}

-----------------------------------------------------------------------------
\* llvm::DataLayout: a member starts at the next multiple of its alignment, and an
\* array takes the room of all its elements.
AlignTo(offset, align) == offset + ((align - (offset % align)) % align)
Elements(m) == IF m.array = 0 THEN 1 ELSE m.array
LlvmStart(m) == AlignTo(llvmEnd, m.type.align)

\* typeSize is the size of one element, whatever the array size.
MemberSize_PerElement(m) == m.type.size * m.array
MemberSize_OneMore(m) == m.type.size * (m.array + 1)
MemberSize(m) == m.type.size

NextOffset_Short(m) == curMemOffset + MemberSize(m) - 1
NextOffset(m) == curMemOffset + MemberSize(m)

Describe ==
    LET m == structure[reached]
    IN  /\ reached <= Len(structure)
        /\ info' = Append(info, [mem_offset |-> curMemOffset, mem_size |-> MemberSize(m)])
        /\ curMemOffset' = NextOffset(m)
        /\ llvmOffset' = Append(llvmOffset, LlvmStart(m))
        /\ llvmEnd' = LlvmStart(m) + m.type.size * Elements(m)
        /\ reached' = reached + 1
        /\ UNCHANGED <<structure, memory, written>>

Described == reached > Len(structure)

\* KSC_SetStructMemberData: memcpy of mem_size at mem_offset.
Range(k) == info[k].mem_offset .. (info[k].mem_offset + info[k].mem_size - 1)

SetStructMemberData(k) ==
    /\ Described /\ k \in DOMAIN info
    /\ memory' = [u \in DOMAIN memory \cup Range(k) |->
                     IF u \in Range(k) THEN k ELSE memory[u]]
    /\ written' = written \cup {k}
    /\ UNCHANGED <<structure, reached, curMemOffset, info, llvmEnd, llvmOffset>>

LayoutNext == Describe \/ \E k \in 1..MaxMembers : SetStructMemberData(k)

LayoutSpec == LayoutInit /\ [][LayoutNext]_layoutVars

-----------------------------------------------------------------------------
\* The state variables hold values of their types.
LayoutTypeOK ==
    /\ structure \in Seq(Members) /\ reached \in 1..(Len(structure) + 1)
    /\ curMemOffset \in Nat /\ info \in Seq(Infos) /\ Len(info) = reached - 1
    /\ llvmEnd \in Nat /\ llvmOffset \in Seq(Nat) /\ Len(llvmOffset) = reached - 1
    /\ written \subseteq 1..MaxMembers

\* Setting members through the descriptor never writes outside the structure, whose
\* size for LLVM is at least llvmEnd.
WritesInside == DOMAIN memory \subseteq 0..(llvmEnd - 1)

\* Setting one member leaves what another one was set to.
MembersSeparate ==
    \A k \in written : \A u \in Range(k) : memory[u] = k

\* SC_API.h: KSC_SetStructMemberData modifies the member variable, that is, the one
\* that compiled code accesses.
CompiledCodeSeesMember ==
    \A k \in written : llvmOffset[k] \in DOMAIN memory /\ memory[llvmOffset[k]] = k
=============================================================================
