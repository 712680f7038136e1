----------------------------- MODULE PointerCall ----------------------------
(***************************************************************************)
(* What a JIT-ed KSC function promises the C++ code that calls it: an      *)
(* argument passed by reference is a pointer to the caller's data, so each *)
(* assignment in the function is at once an assignment to that data; an    *)
(* argument passed by value is the function's own; an external argument is *)
(* an opaque pointer that the function hands on as it is.                  *)
(*                                                                         *)
(* Two promises are not kept.  References to a variable that is passed for *)
(* more than one of them may be the function's own copies, which replace   *)
(* the variable when it returns, one after the other; and the pointer an   *)
(* external argument hands on may be to a copy.                            *)
(***************************************************************************)
EXTENDS Naturals

CONSTANTS Args, Cells, Contents

VARIABLES kind,    \* "value", "ref" or "extern", for each argument
          at,      \* the cell each argument is taken from
          copied,  \* the references and external pointers that are to copies
          mem,     \* the caller's data
          own,     \* what is the function's own: by-value arguments and copies
          handed,  \* the external pointers the function handed on
          result,  \* what the function returned
          state    \* "called", "running" or "returned"

vars == <<kind, at, copied, mem, own, handed, result, state>>

Owned(i) == kind[i] = "value" \/ (kind[i] = "ref" /\ i \in copied)
Shared(i) == \E j \in Args \ {i} : kind[j] = "ref" /\ at[j] = at[i]

Init ==
    /\ kind \in [Args -> {"value", "ref", "extern"}] /\ at \in [Args -> Cells]
    /\ copied \subseteq {i \in Args : kind[i] = "extern" \/ (kind[i] = "ref" /\ Shared(i))}
    /\ mem \in [Cells -> Contents]
    /\ own = [i \in {j \in Args : Owned(j)} |-> mem[at[i]]]
    /\ handed = {} /\ result \in Contents /\ state = "called"

Enter ==
    /\ state = "called" /\ state' = "running"
    /\ UNCHANGED <<kind, at, copied, mem, own, handed, result>>

Operand(i) == IF Owned(i) THEN own[i] ELSE mem[at[i]]

Store(i, v) ==
    \/ Owned(i) /\ own' = [own EXCEPT ![i] = v] /\ UNCHANGED mem
    \/ ~Owned(i) /\ kind[i] = "ref" /\ mem' = [mem EXCEPT ![at[i]] = v] /\ UNCHANGED own

\* An assignment of a fresh value, or of another argument's value, to argument i.
Assign(i) ==
    /\ state = "running"
    /\ \/ \E v \in Contents : Store(i, v)
       \/ \E j \in Args : kind[j] # "extern" /\ Store(i, Operand(j))
    /\ UNCHANGED <<kind, at, copied, handed, result, state>>

HandOn(i) ==
    /\ state = "running" /\ kind[i] = "extern"
    /\ handed' = handed \cup {IF i \in copied THEN "copy" ELSE at[i]}
    /\ UNCHANGED <<kind, at, copied, mem, own, result, state>>

\* Copies replace the variable in the order of the arguments: the last one stays.
CopiesOf(c) == {i \in Args : kind[i] = "ref" /\ i \in copied /\ at[i] = c}
Last(S) == CHOOSE i \in S : \A j \in S : j <= i

Return ==
    /\ state = "running" /\ state' = "returned"
    /\ mem' = [c \in Cells |-> IF CopiesOf(c) = {} THEN mem[c] ELSE own[Last(CopiesOf(c))]]
    /\ result' \in Contents
    /\ UNCHANGED <<kind, at, copied, own, handed>>

Next == Enter \/ Return \/ \E i \in Args : Assign(i) \/ HandOn(i)

Spec == Init /\ [][Next]_vars
=============================================================================
