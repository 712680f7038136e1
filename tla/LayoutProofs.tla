---------------------------- MODULE LayoutProofs ----------------------------
(***************************************************************************)
(* The two ways C++ data reaches a compiled function.                      *)
(*                                                                         *)
(* The wrapper, for any number of arguments, variables and contents, any   *)
(* flags and any aliasing: both sides of it only ever see their own        *)
(* layout, and it implements PointerCall.                                  *)
(*                                                                         *)
(* The descriptor of a structure, for every set of member types and every  *)
(* structure built from them: the offsets ConvertToDescription computes    *)
(* stay below LLVM's, so that setting members stays inside the structure.  *)
(* The running offset leaves out padding and array sizes, both of which    *)
(* only add.                                                               *)
(***************************************************************************)
EXTENDS PackedCall, StructLayout, WellFoundedInduction, TLAPS

\* The caller's variables keep their layout all the time, not only at the end.
CallerLayout == \A i \in Args : Fits(mem[at[i]], i)

\* A copy is a scalar if and only if the variable is.
SameSort == \A i \in Args : local[i].layout = "either" <=> mem[at[i]].layout = "either"

\* The byte of an external object stays what it is, copied or not.
Externals ==
    \A i \in Args : kind[i] = "extern" =>
        /\ local[i] = mem[at[i]] /\ mem[at[i]].layout = "either"
        /\ \A j \in Args : kind[j] = "ref" => at[j] # at[i]

\* The wrapper's copies: as the caller passed them, or already unpacked.
Converted ==
    /\ phase = "in" => /\ \A i \in Args : i < idx => local[i].layout # "packed"
                       /\ \A i \in Args : i >= idx => Fits(local[i], i)
                       /\ \A i \in Args : local[i].content = mem[at[i]].content
    /\ phase = "run" => /\ idx = N + 1
                        /\ \A i \in Args : local[i].layout # "packed"

IInv == TypeOK /\ CallerLayout /\ SameSort /\ Externals /\ Converted

\* Converting a value changes its layout only, and that of a scalar not at all.
LEMMA Conversions ==
    ASSUME NEW d \in Data
    PROVE  /\ Pack(d) \in Data /\ Pack(d).layout # "ksc" /\ Pack(d).content = d.content
           /\ Unpack(d) \in Data /\ Unpack(d).layout # "packed" /\ Unpack(d).content = d.content
           /\ d.layout = "either" => Pack(d) = d /\ Unpack(d) = d
           /\ d.layout # "either" => Pack(d).layout = "packed" /\ Unpack(d).layout = "ksc"
BY DEF Data, Layouts, As, Pack, Unpack

LEMMA InitInv == Init => IInv
<1> SUFFICES ASSUME Init PROVE IInv
  OBVIOUS
<1>1. TypeOK
  BY NAssumption DEF Init, TypeOK, Args
<1>2. CallerLayout /\ SameSort /\ Externals
  BY DEF Init, CallerLayout, SameSort, Externals
<1>3. Converted
  BY NAssumption DEF Init, Converted, Args
<1> QED BY <1>1, <1>2, <1>3 DEF IInv

\* The copy of an argument holds what the caller's variable holds.
LEMMA CopiedIn ==
    ASSUME IInv, phase = "in", NEW i \in Args, i >= idx
    PROVE  /\ CopyIn(i) \in Data /\ CopyIn(i).content = mem[at[i]].content
           /\ CopyIn(i).layout # "packed"
           /\ CopyIn(i).layout = "either" <=> mem[at[i]].layout = "either"
           /\ kind[i] = "extern" => CopyIn(i) = mem[at[i]]
<1>1. /\ local[i] \in Data /\ mem[at[i]] \in Data
      /\ Fits(local[i], i) /\ Fits(mem[at[i]], i)
      /\ local[i].content = mem[at[i]].content
      /\ local[i].layout = "either" <=> mem[at[i]].layout = "either"
  BY DEF IInv, TypeOK, CallerLayout, SameSort, Converted
<1>2. /\ Argument(i) \in Data /\ Fits(Argument(i), i) /\ Argument(i).content = mem[at[i]].content
      /\ Argument(i).layout = "either" <=> mem[at[i]].layout = "either"
      /\ kind[i] = "extern" => Argument(i) = mem[at[i]] /\ mem[at[i]].layout = "either"
  BY <1>1 DEF Argument, IInv, Externals
<1>3. CASE packed[i]
  BY <1>3, <1>2, Conversions DEF CopyIn
<1>4. CASE ~packed[i]
  BY <1>4, <1>2 DEF CopyIn, Fits
<1> QED BY <1>3, <1>4

LEMMA ConvertArgumentInv == IInv /\ ConvertArgument => IInv'
<1> SUFFICES ASSUME IInv, ConvertArgument PROVE IInv'
  OBVIOUS
<1>1. /\ phase = "in" /\ idx \in Args /\ idx' = idx + 1 /\ idx \in Nat
      /\ local' = [local EXCEPT ![idx] = CopyIn(idx)] /\ local \in [Args -> Data]
      /\ UNCHANGED <<kind, at, packed, result, handed, mem, phase>>
  BY NAssumption DEF ConvertArgument, signature, IInv, TypeOK, Args
<1>2. /\ CopyIn(idx) \in Data /\ CopyIn(idx).content = mem[at[idx]].content
      /\ CopyIn(idx).layout # "packed"
      /\ CopyIn(idx).layout = "either" <=> mem[at[idx]].layout = "either"
      /\ kind[idx] = "extern" => CopyIn(idx) = mem[at[idx]]
  BY <1>1, CopiedIn
<1>3. TypeOK'
  BY <1>1, <1>2, NAssumption DEF IInv, TypeOK, Args
<1>4. CallerLayout'
  BY <1>1 DEF IInv, CallerLayout, Fits
<1>5. SameSort' /\ Externals'
  BY <1>1, <1>2 DEF IInv, SameSort, Externals
<1>6. Converted'
  <2>1. ASSUME NEW i \in Args
        PROVE  /\ i < idx' => local'[i].layout # "packed"
               /\ i >= idx' => Fits(local'[i], i)
               /\ local'[i].content = mem[at[i]].content
    <3>1. i \in Nat
      BY NAssumption DEF Args
    <3>2. CASE i = idx
      BY <3>1, <3>2, <1>1, <1>2
    <3>3. CASE i # idx
      BY <3>1, <3>3, <1>1 DEF IInv, Converted
    <3> QED BY <3>2, <3>3
  <2> QED BY <2>1, <1>1 DEF Converted, Fits
<1> QED BY <1>3, <1>4, <1>5, <1>6 DEF IInv

LEMMA CallInv == IInv /\ Call => IInv'
<1> SUFFICES ASSUME IInv, Call PROVE IInv'
  OBVIOUS
<1>1. /\ phase = "in" /\ phase' = "run" /\ idx = N + 1
      /\ UNCHANGED <<kind, at, packed, result, handed, mem, local, idx>>
  BY NAssumption DEF Call, signature, IInv, TypeOK
<1>2. Converted'
  BY <1>1, NAssumption DEF IInv, Converted, Args
<1> QED BY <1>1, <1>2 DEF IInv, TypeOK, CallerLayout, SameSort, Externals, Fits

\* What packing a copy back writes: the copy, in the layout the variable has.
LEMMA CopiedOut ==
    ASSUME IInv, NEW i \in Args, packed[i]
    PROVE  /\ CopyOut(local[i]) \in Data /\ CopyOut(local[i]).content = local[i].content
           /\ CopyOut(local[i]).layout = mem[at[i]].layout
           /\ kind[i] = "extern" => CopyOut(local[i]) = mem[at[i]]
<1>1. /\ local[i] \in Data /\ mem[at[i]] \in Data /\ Fits(mem[at[i]], i)
      /\ local[i].layout = "either" <=> mem[at[i]].layout = "either"
  BY DEF IInv, TypeOK, CallerLayout, SameSort
<1>2. kind[i] = "extern" => local[i] = mem[at[i]] /\ mem[at[i]].layout = "either"
  BY DEF IInv, Externals
<1> QED BY <1>1, <1>2, Conversions DEF CopyOut, Fits

LEMMA ConvertBackInv == IInv /\ ConvertBack => IInv'
<1> SUFFICES ASSUME IInv, ConvertBack PROVE IInv'
  OBVIOUS
<1> DEFINE back == packed[idx] /\ kind[idx] # "value"
<1>1. /\ phase = "out" /\ idx \in Args /\ idx' = idx + 1
      /\ mem' = IF back THEN [mem EXCEPT ![at[idx]] = CopyOut(local[idx])] ELSE mem
      /\ mem \in [Cells -> Data] /\ at \in [Args -> Cells]
      /\ UNCHANGED <<kind, at, packed, result, handed, local, phase>>
  BY NAssumption DEF ConvertBack, signature, IInv, TypeOK, Args
<1>2. back => /\ CopyOut(local[idx]) \in Data /\ CopyOut(local[idx]).layout = mem[at[idx]].layout
              /\ kind[idx] = "extern" => CopyOut(local[idx]) = mem[at[idx]]
  BY <1>1, CopiedOut
<1>3. TypeOK'
  <2>1. mem' \in [Cells -> Data]
    BY <1>1, <1>2
  <2>2. idx' \in 1..(N + 1)
    BY <1>1, NAssumption DEF Args
  <2> QED BY <2>1, <2>2, <1>1 DEF IInv, TypeOK
<1>4. \A c \in Cells : mem'[c].layout = mem[c].layout
  BY <1>1, <1>2
<1>5. CallerLayout' /\ SameSort' /\ Converted'
  BY <1>1, <1>4 DEF IInv, CallerLayout, Fits, SameSort, Converted
<1>6. Externals'
  <2> SUFFICES ASSUME NEW i \in Args, kind[i] = "extern" PROVE mem'[at[i]] = mem[at[i]]
    BY <1>1, <1>4 DEF IInv, Externals
  <2>1. back /\ at[idx] = at[i] => kind[idx] = "extern"
    BY <1>1 DEF IInv, Externals, TypeOK, Kinds
  <2> QED BY <2>1, <1>1, <1>2
<1> QED BY <1>3, <1>5, <1>6 DEF IInv

LEMMA FinishInv == IInv /\ Finish => IInv'
BY DEF IInv, TypeOK, CallerLayout, SameSort, Externals, Fits, Converted, Finish, signature

LEMMA ReturnInv == IInv /\ Return => IInv'
BY NAssumption DEF IInv, TypeOK, CallerLayout, SameSort, Externals, Fits, Converted, Return, signature

LEMMA HandOnInv == ASSUME NEW i \in Args PROVE IInv /\ HandOn(i) => IInv'
<1> SUFFICES ASSUME IInv, HandOn(i) PROVE IInv'
  OBVIOUS
<1>1. handed' \subseteq Cells \cup {"copy"}
  BY DEF HandOn, IInv, TypeOK
<1> QED BY <1>1 DEF IInv, TypeOK, CallerLayout, SameSort, Externals, Fits, Converted, HandOn, signature

LEMMA StoreInv ==
    ASSUME IInv, phase = "run", NEW i \in Args, NEW v \in Contents, Store(i, v),
           UNCHANGED <<signature, result, handed, phase, idx>>
    PROVE  IInv'
<1>1. /\ mem \in [Cells -> Data] /\ at \in [Args -> Cells] /\ mem[at[i]] \in Data
      /\ local \in [Args -> Data] /\ local[i] \in Data
      /\ UNCHANGED <<kind, at, packed>>
  BY DEF IInv, TypeOK, signature
<1>2. \A d \in Data : [d EXCEPT !.content = v] \in Data /\ [d EXCEPT !.content = v].layout = d.layout
  BY DEF Data
<1>3. /\ mem' \in [Cells -> Data] /\ \A c \in Cells : mem'[c].layout = mem[c].layout
      /\ local' \in [Args -> Data] /\ \A j \in Args : local'[j].layout = local[j].layout
  <2>1. CASE InPlace(i)
    <3>1. local' = local /\ mem' = [mem EXCEPT ![at[i]] = [mem[at[i]] EXCEPT !.content = v]]
      BY <2>1 DEF Store
    <3> QED BY <3>1, <1>1, <1>2
  <2>2. CASE ~InPlace(i)
    <3>1. mem' = mem /\ local' = [local EXCEPT ![i] = [local[i] EXCEPT !.content = v]]
      BY <2>2 DEF Store
    <3> QED BY <3>1, <1>1, <1>2
  <2> QED BY <2>1, <2>2
<1>4. TypeOK'
  BY <1>1, <1>3 DEF IInv, TypeOK
<1>5. CallerLayout' /\ SameSort'
  BY <1>1, <1>3 DEF IInv, CallerLayout, Fits, SameSort
<1>6. Externals'
  <2> SUFFICES ASSUME NEW j \in Args, kind[j] = "extern"
               PROVE  local'[j] = local[j] /\ mem'[at[j]] = mem[at[j]]
    BY <1>1 DEF IInv, Externals
  <2>1. CASE InPlace(i)
    <3>1. at[i] # at[j]
      BY <2>1 DEF IInv, Externals, InPlace
    <3> QED BY <3>1, <2>1, <1>1 DEF Store
  <2>2. CASE ~InPlace(i)
    BY <2>2, <1>1 DEF Store
  <2> QED BY <2>1, <2>2
<1>7. Converted'
  BY <1>1, <1>3 DEF IInv, Converted
<1> QED BY <1>4, <1>5, <1>6, <1>7 DEF IInv

LEMMA OperandTyped == ASSUME TypeOK, NEW i \in Args PROVE Operand(i) \in Data /\ Operand(i).content \in Contents
BY DEF TypeOK, Operand, Data

LEMMA AssignInv == ASSUME NEW i \in Args PROVE IInv /\ Assign(i) => IInv'
<1> SUFFICES ASSUME IInv, Assign(i) PROVE IInv'
  OBVIOUS
<1>1. PICK v \in Contents : Store(i, v)
  BY OperandTyped DEF Assign, IInv
<1> QED BY <1>1, StoreInv DEF Assign

LEMMA StepInv == IInv /\ [Next]_vars => IInv'
<1> SUFFICES ASSUME IInv, [Next]_vars PROVE IInv'
  OBVIOUS
<1>1. CASE ConvertArgument
  BY <1>1, ConvertArgumentInv
<1>2. CASE Call
  BY <1>2, CallInv
<1>3. CASE ConvertBack
  BY <1>3, ConvertBackInv
<1>4. CASE Finish
  BY <1>4, FinishInv
<1>5. CASE Return
  BY <1>5, ReturnInv
<1>6. ASSUME NEW i \in Args, Assign(i) PROVE IInv'
  BY <1>6, AssignInv
<1>7. ASSUME NEW i \in Args, HandOn(i) PROVE IInv'
  BY <1>7, HandOnInv
<1>8. CASE UNCHANGED vars
  BY <1>8 DEF vars, signature, IInv, TypeOK, CallerLayout, SameSort, Externals, Fits, Converted
<1> QED BY <1>1, <1>2, <1>3, <1>4, <1>5, <1>6, <1>7, <1>8 DEF Next

\* The invariant is inductive.
LEMMA AlwaysInv == Spec => []IInv
BY InitInv, StepInv, PTL DEF Spec

\* The wrapper keeps the types of the caller's variables and of its own copies.
THEOREM TypeCorrect == Spec => []TypeOK
<1>1. IInv => TypeOK
  BY DEF IInv
<1> QED BY AlwaysInv, <1>1, PTL

\* However many arguments the wrapper converts, and however flags are set: the
\* compiled function never reads packed data.
THEOREM OnlyKscLayoutInside == Spec => []FunctionSeesKscLayout
<1>1. IInv => FunctionSeesKscLayout
  <2> SUFFICES ASSUME IInv, phase = "run", NEW i \in Args PROVE Operand(i).layout # "packed"
    BY DEF FunctionSeesKscLayout
  <2>1. CASE InPlace(i)
    BY <2>1 DEF IInv, CallerLayout, Fits, Operand, InPlace
  <2>2. CASE ~InPlace(i)
    BY <2>2 DEF IInv, Converted, Operand
  <2> QED BY <2>1, <2>2
<1> QED BY AlwaysInv, <1>1, PTL

\* The caller finds each variable in the layout it passed it in, however often it
\* passed it.
THEOREM OnlyOwnLayoutOutside == Spec => []CallerKeepsLayout
<1>1. IInv => CallerKeepsLayout
  BY DEF IInv, CallerLayout, CallerKeepsLayout
<1> QED BY AlwaysInv, <1>1, PTL

-----------------------------------------------------------------------------
(* The refinement of PointerCall.                                          *)

\* Of the copies of a variable at most one is what the caller sees.
LEMMA OneInFlight ==
    ASSUME NEW c \in Cells, NEW i \in Args, NEW j \in Args, InFlight(i, c), InFlight(j, c)
    PROVE  i = j
<1>1. /\ kind[i] = "ref" /\ at[i] = c /\ kind[j] = "ref" /\ at[j] = c
      /\ i \in Nat /\ j \in Nat
  BY NAssumption DEF InFlight, Packs, Args
<1>2. CASE Alone(i)
  BY <1>1, <1>2 DEF Alone
<1>3. CASE ~Alone(i)
  BY <1>1, <1>3 DEF InFlight, Alone, Packs
<1> QED BY <1>2, <1>3

\* What CellsView shows: a copy in flight, or else the variable itself.
Views ==
    TypeOK =>
        /\ CellsView \in [Cells -> Contents]
        /\ \A i \in Args, c \in Cells : InFlight(i, c) => CellsView[c] = local[i].content
        /\ \A c \in Cells : (\A i \in Args : ~InFlight(i, c)) => CellsView[c] = mem[c].content

LEMMA ViewsHold == Views
<1> SUFFICES ASSUME TypeOK
             PROVE  /\ CellsView \in [Cells -> Contents]
                    /\ \A i \in Args, c \in Cells : InFlight(i, c) => CellsView[c] = local[i].content
                    /\ \A c \in Cells : (\A i \in Args : ~InFlight(i, c)) => CellsView[c] = mem[c].content
  BY DEF Views
<1>1. /\ \A i \in Args : local[i].content \in Contents
      /\ \A c \in Cells : mem[c].content \in Contents
  BY DEF TypeOK, Data
<1>2. ASSUME NEW c \in Cells, NEW i \in Args, InFlight(i, c) PROVE MemView(c) = local[i].content
  <2> DEFINE j == CHOOSE k \in Args : InFlight(k, c)
  <2>1. j \in Args /\ InFlight(j, c)
    BY <1>2
  <2>2. j = i
    BY <2>1, <1>2, OneInFlight
  <2>3. MemView(c) = local[j].content
    BY <1>2 DEF MemView
  <2> QED BY <2>2, <2>3
<1>3. ASSUME NEW c \in Cells, \A i \in Args : ~InFlight(i, c) PROVE MemView(c) = mem[c].content
  BY <1>3 DEF MemView
<1>4. ASSUME NEW c \in Cells PROVE MemView(c) \in Contents
  <2>1. CASE \A i \in Args : ~InFlight(i, c)
    BY <2>1, <1>1, <1>3
  <2>2. ASSUME NEW i \in Args, InFlight(i, c) PROVE MemView(c) \in Contents
    BY <2>2, <1>1, <1>2
  <2> QED BY <2>1, <2>2
<1> QED BY <1>2, <1>3, <1>4 DEF CellsView

\* Two views are equal if each variable shows the same before and after the step.
LEMMA ViewKept ==
    ASSUME IInv, IInv', \A c \in Cells : CellsView'[c] = CellsView[c]
    PROVE  UNCHANGED CellsView
<1>1. CellsView \in [Cells -> Contents]
  BY ViewsHold DEF Views, IInv
<1>2. Views'
  BY ViewsHold, PTL
<1>3. CellsView' \in [Cells -> Contents]
  BY <1>2 DEF Views, IInv
<1> QED BY <1>1, <1>3

\* The signature never changes, so which arguments are copied never does.
LEMMA CopiedKept ==
    ASSUME UNCHANGED <<kind, at, packed>>
    PROVE  /\ UNCHANGED CopiedView
           /\ \A i \in Args : Alone(i)' <=> Alone(i)
           /\ \A c \in Cells : Packs(c)' = Packs(c)
BY DEF CopiedView, Alone, Packs

\* While the arguments are being unpacked nothing has been assigned yet.
ViewsIn == IInv /\ phase = "in" => \A c \in Cells : CellsView[c] = mem[c].content

LEMMA ViewsInHold == ViewsIn
<1> SUFFICES ASSUME IInv, phase = "in", NEW c \in Cells PROVE CellsView[c] = mem[c].content
  BY DEF ViewsIn
<1>1. CASE \A i \in Args : ~InFlight(i, c)
  BY <1>1, ViewsHold DEF Views, IInv
<1>2. ASSUME NEW i \in Args, InFlight(i, c) PROVE CellsView[c] = mem[c].content
  <2>1. at[i] = c /\ CellsView[c] = local[i].content
    BY <1>2, ViewsHold DEF Views, IInv, InFlight, Packs
  <2> QED BY <2>1 DEF IInv, Converted
<1> QED BY <1>1, <1>2

LEMMA InitRefines == Init => Pointers!Init
<1> SUFFICES ASSUME Init PROVE Pointers!Init
  OBVIOUS
<1>1. IInv /\ phase = "in"
  BY InitInv DEF Init
<1>2. CellsView \in [Cells -> Contents] /\ \A c \in Cells : CellsView[c] = mem[c].content
  BY <1>1, ViewsHold, ViewsInHold DEF Views, ViewsIn, IInv
<1>3. OwnView = [i \in {j \in Args : Pointers!Owned(j)} |-> CellsView[at[i]]]
  BY <1>2 DEF OwnView, Pointers!Owned, Init
<1>4. CopiedView \subseteq {i \in Args : kind[i] = "extern" \/ (kind[i] = "ref" /\ Pointers!Shared(i))}
  BY DEF CopiedView, Alone, Pointers!Shared
<1> QED BY <1>1, <1>2, <1>3, <1>4 DEF Init, Pointers!Init, Kinds, StateView

LEMMA ConvertArgumentRefines == IInv /\ IInv' /\ ConvertArgument => UNCHANGED Pointers!vars
<1> SUFFICES ASSUME IInv, IInv', ConvertArgument PROVE UNCHANGED Pointers!vars
  OBVIOUS
<1>1. /\ phase = "in" /\ phase' = "in" /\ idx \in Args
      /\ local' = [local EXCEPT ![idx] = CopyIn(idx)]
      /\ UNCHANGED <<kind, at, packed, result, handed, mem, phase>>
  BY NAssumption DEF ConvertArgument, signature, IInv, TypeOK, Args
<1>2. ViewsIn'
  BY ViewsInHold, PTL
<1>3. UNCHANGED CellsView
  BY <1>1, <1>2, ViewsInHold, ViewKept DEF ViewsIn
<1>4. \A i \in Args : local'[i].content = local[i].content
  BY <1>1 DEF IInv, Converted
<1>5. UNCHANGED <<CopiedView, OwnView>>
  BY <1>1, <1>4, CopiedKept DEF OwnView
<1> QED BY <1>1, <1>3, <1>5 DEF Pointers!vars, StateView

\* Call, Finish and HandOn leave every copy and every variable alone.
LEMMA CopiesKept ==
    ASSUME IInv, IInv', UNCHANGED <<signature, mem, local>>,
           \A i \in Args, c \in Cells : InFlight(i, c)' <=> InFlight(i, c)
    PROVE  UNCHANGED <<CellsView, OwnView, CopiedView>>
<1>1. Views'
  BY ViewsHold, PTL
<1>2. ASSUME NEW c \in Cells PROVE CellsView'[c] = CellsView[c]
  <2>1. CASE \A i \in Args : ~InFlight(i, c)
    BY <2>1, <1>1, ViewsHold DEF Views, IInv
  <2>2. ASSUME NEW i \in Args, InFlight(i, c) PROVE CellsView'[c] = CellsView[c]
    BY <2>2, <1>1, ViewsHold DEF Views, IInv
  <2> QED BY <2>1, <2>2
<1>3. UNCHANGED <<OwnView, CopiedView>>
  BY CopiedKept DEF signature, OwnView
<1> QED BY <1>2, <1>3, ViewKept

LEMMA CallRefines == IInv /\ IInv' /\ Call => Pointers!Enter
<1> SUFFICES ASSUME IInv, IInv', Call PROVE Pointers!Enter
  OBVIOUS
<1>1. \A i \in Args, c \in Cells : InFlight(i, c)' <=> InFlight(i, c)
  BY NAssumption, CopiedKept DEF Call, InFlight, signature, IInv, TypeOK, Args
<1>2. UNCHANGED <<CellsView, OwnView, CopiedView>>
  BY <1>1, CopiesKept DEF Call
<1> QED BY <1>2 DEF Call, Pointers!Enter, StateView, signature

LEMMA FinishRefines == IInv /\ IInv' /\ Finish => UNCHANGED Pointers!vars
<1> SUFFICES ASSUME IInv, IInv', Finish PROVE UNCHANGED Pointers!vars
  OBVIOUS
<1>1. \A i \in Args, c \in Cells : InFlight(i, c)' <=> InFlight(i, c)
  BY NAssumption, CopiedKept DEF Finish, InFlight, signature, IInv, TypeOK, Args
<1>2. UNCHANGED <<CellsView, OwnView, CopiedView>>
  BY <1>1, CopiesKept DEF Finish
<1> QED BY <1>2 DEF Finish, Pointers!vars, StateView, signature

LEMMA HandOnRefines == ASSUME NEW i \in Args PROVE IInv /\ IInv' /\ HandOn(i) => Pointers!HandOn(i)
<1> SUFFICES ASSUME IInv, IInv', HandOn(i) PROVE Pointers!HandOn(i)
  OBVIOUS
<1>1. \A j \in Args, c \in Cells : InFlight(j, c)' <=> InFlight(j, c)
  BY CopiedKept DEF HandOn, InFlight, signature
<1>2. UNCHANGED <<CellsView, OwnView, CopiedView>>
  BY <1>1, CopiesKept DEF HandOn
<1>3. packed[i] <=> i \in CopiedView
  BY DEF HandOn, CopiedView
<1> QED BY <1>2, <1>3 DEF HandOn, Pointers!HandOn, StateView, signature

\* One of the copies of a variable is the last.
LEMMA LastPack ==
    ASSUME NEW c \in Cells, Packs(c) # {}
    PROVE  \E m \in Packs(c) : \A j \in Packs(c) : j <= m
<1> DEFINE T == {N - i : i \in Packs(c)}
<1>1. Packs(c) \subseteq 1..N /\ T \subseteq Nat /\ T # {}
  BY NAssumption DEF Packs, Args
<1>2. PICK x \in T : \A y \in T : ~(<<y, x>> \in OpToRel(<, Nat))
  BY <1>1, NatLessThanWellFounded, WFMin, Zenon
<1>3. \A y \in T : ~(y < x)
  BY <1>1, <1>2 DEF OpToRel
<1>4. PICK m \in Packs(c) : x = N - m
  BY <1>2
<1>5. ASSUME NEW j \in Packs(c) PROVE j <= m
  <2>1. ~(N - j < N - m)
    BY <1>3, <1>4
  <2> QED BY <2>1, <1>1, NAssumption
<1> QED BY <1>5

\* When the function returns, the copies of a variable passed more than once become
\* what the caller is going to see: the last of them.
LEMMA ReturnRefines == IInv /\ IInv' /\ Return => Pointers!Return
<1> SUFFICES ASSUME IInv, IInv', Return PROVE Pointers!Return
  OBVIOUS
<1> DEFINE Copies(c) == Pointers!CopiesOf(c)
<1>1. /\ phase = "run" /\ phase' = "out" /\ idx' = 1 /\ result' \in Contents
      /\ UNCHANGED <<kind, at, packed, handed, mem, local>>
  BY DEF Return, signature
<1>2. /\ Views /\ Views'
      /\ UNCHANGED CopiedView /\ UNCHANGED OwnView
      /\ \A c \in Cells : Packs(c)' = Packs(c)
  <2>1. UNCHANGED CopiedView /\ \A c \in Cells : Packs(c)' = Packs(c)
    BY <1>1, CopiedKept
  <2>2. UNCHANGED OwnView
    BY <2>1, <1>1 DEF OwnView
  <2>3. Views /\ Views'
    BY ViewsHold, PTL
  <2> QED BY <2>1, <2>2, <2>3
<1>3. ASSUME NEW c \in Cells
      PROVE  CellsView'[c] = IF Copies(c) = {} THEN CellsView[c] ELSE OwnView[Pointers!Last(Copies(c))]
  <2>1. Copies(c) \subseteq Packs(c)
    BY DEF Pointers!CopiesOf, CopiedView, Packs
  <2>2. CASE Packs(c) = {}
    <3>1. \A i \in Args : ~InFlight(i, c) /\ ~InFlight(i, c)'
      BY <2>2, <1>2 DEF InFlight
    <3>2. CellsView'[c] = mem'[c].content /\ CellsView[c] = mem[c].content
      BY <3>1, <1>2 DEF Views, IInv
    <3> QED BY <3>2, <2>1, <2>2, <1>1
  <2>3. CASE Packs(c) # {}
    <3>1. PICK m \in Packs(c) : \A j \in Packs(c) : j <= m
      BY <2>3, LastPack
    <3>2. m \in Args /\ kind[m] = "ref" /\ packed[m] /\ at[m] = c /\ m \in Nat /\ m >= 1
      BY <3>1, NAssumption DEF Packs, Args
    <3>3. InFlight(m, c)'
      BY <3>1, <3>2, <1>1, <1>2 DEF InFlight
    <3>4. CellsView'[c] = local[m].content
      BY <3>2, <3>3, <1>1, <1>2 DEF Views, IInv
    <3>5. CASE Alone(m)
      <4>1. CellsView[c] = local[m].content
        <5>1. InFlight(m, c)
          BY <3>1, <3>5, <1>1 DEF InFlight
        <5> QED BY <5>1, <3>2, <1>2 DEF Views, IInv
      <4>2. Copies(c) = {}
        <5> SUFFICES ASSUME NEW i \in Copies(c) PROVE FALSE
          OBVIOUS
        <5>1. i \in Args /\ kind[i] = "ref" /\ at[i] = c /\ ~Alone(i)
          BY DEF Pointers!CopiesOf, CopiedView
        <5> QED BY <5>1, <3>5, <3>2 DEF Alone
      <4> QED BY <3>4, <4>1, <4>2
    <3>6. CASE ~Alone(m)
      <4>1. m \in Copies(c)
        BY <3>2, <3>6 DEF Pointers!CopiesOf, CopiedView
      <4>2. \A j \in Copies(c) : j <= m
        BY <2>1, <3>1
      <4>3. Pointers!Last(Copies(c)) = m
        <5> DEFINE l == Pointers!Last(Copies(c))
        <5>1. l \in Copies(c) /\ \A j \in Copies(c) : j <= l
          BY <4>1, <4>2 DEF Pointers!Last
        <5>2. l <= m /\ m <= l /\ l \in Nat
          BY <5>1, <4>1, <4>2, <2>1, NAssumption DEF Packs, Args
        <5> QED BY <5>2, <3>2
      <4>4. OwnView[m] = local[m].content
        BY <3>2, <3>6 DEF OwnView, CopiedView
      <4> QED BY <3>4, <4>1, <4>3, <4>4
    <3> QED BY <3>5, <3>6
  <2> QED BY <2>2, <2>3
<1>4. CellsView' \in [Cells -> Contents]
  BY <1>2 DEF Views, IInv
<1>5. CellsView' = [c \in Cells |-> IF Copies(c) = {} THEN CellsView[c] ELSE OwnView[Pointers!Last(Copies(c))]]
  BY <1>3, <1>4
<1> QED BY <1>1, <1>2, <1>5 DEF Pointers!Return, StateView

\* Writing a copy back moves what the view shows from the copy into the variable, if
\* it is the last copy; otherwise the view shows a later one.
LEMMA ConvertBackRefines == IInv /\ IInv' /\ ConvertBack => UNCHANGED Pointers!vars
<1> SUFFICES ASSUME IInv, IInv', ConvertBack PROVE UNCHANGED Pointers!vars
  OBVIOUS
<1> DEFINE back == packed[idx] /\ kind[idx] # "value"
<1>1. /\ phase = "out" /\ phase' = "out" /\ idx \in Args /\ idx \in Nat /\ idx' = idx + 1
      /\ mem' = IF back THEN [mem EXCEPT ![at[idx]] = CopyOut(local[idx])] ELSE mem
      /\ mem \in [Cells -> Data] /\ at \in [Args -> Cells] /\ kind[idx] \in Kinds
      /\ UNCHANGED <<kind, at, packed, result, handed, local, phase>>
  BY NAssumption DEF ConvertBack, signature, IInv, TypeOK, Args
<1>2. back => /\ CopyOut(local[idx]).content = local[idx].content
              /\ kind[idx] = "extern" => CopyOut(local[idx]) = mem[at[idx]]
  BY <1>1, CopiedOut
<1>3. /\ Views /\ Views' /\ UNCHANGED CopiedView /\ \A c \in Cells : Packs(c)' = Packs(c)
  <2>1. UNCHANGED CopiedView /\ \A c \in Cells : Packs(c)' = Packs(c)
    BY <1>1, CopiedKept
  <2>2. Views /\ Views'
    BY ViewsHold, PTL
  <2> QED BY <2>1, <2>2
<1>4. ASSUME NEW c \in Cells, NEW i \in Args
      PROVE  /\ InFlight(i, c)' => InFlight(i, c)
             /\ InFlight(i, c) /\ i # idx => InFlight(i, c)'
  <2>1. i \in Nat
    BY NAssumption DEF Args
  <2> QED BY <2>1, <1>1, <1>3 DEF InFlight
<1>5. ASSUME NEW c \in Cells PROVE CellsView'[c] = CellsView[c]
  <2>1. CASE InFlight(idx, c)
    <3>1. back /\ at[idx] = c /\ kind[idx] = "ref"
      BY <2>1 DEF InFlight, Packs
    <3>2. CellsView[c] = local[idx].content
      BY <2>1, <1>1, <1>3 DEF Views, IInv
    <3>3. \A i \in Args : ~InFlight(i, c)'
      <4> SUFFICES ASSUME NEW i \in Args, InFlight(i, c)' PROVE FALSE
        OBVIOUS
      <4>1. i = idx
        BY <1>1, <1>4, <2>1, OneInFlight
      <4>2. i >= idx + 1
        BY <1>1 DEF InFlight
      <4> QED BY <4>1, <4>2, <1>1
    <3>4. CellsView'[c] = mem'[c].content
      BY <3>3, <1>3 DEF Views, IInv
    <3> QED BY <3>1, <3>2, <3>4, <1>1, <1>2
  <2>2. ASSUME NEW i \in Args, i # idx, InFlight(i, c) PROVE CellsView'[c] = CellsView[c]
    <3>1. InFlight(i, c)'
      BY <2>2, <1>4
    <3>2. CellsView[c] = local[i].content /\ CellsView'[c] = local'[i].content
      BY <2>2, <3>1, <1>3 DEF Views, IInv
    <3> QED BY <3>2, <1>1
  <2>3. CASE \A i \in Args : ~InFlight(i, c)
    <3>1. CellsView[c] = mem[c].content /\ CellsView'[c] = mem'[c].content
      BY <2>3, <1>3, <1>4 DEF Views, IInv
    <3>2. mem'[c] = mem[c]
      <4>1. CASE back /\ at[idx] = c /\ kind[idx] = "ref"
        <5>1. idx \in Packs(c)
          BY <4>1, <1>1 DEF Packs
        <5>2. PICK m \in Packs(c) : \A j \in Packs(c) : j <= m
          BY <5>1, LastPack
        <5>3. m \in Args /\ m \in Nat /\ idx <= m
          BY <5>1, <5>2, NAssumption DEF Packs, Args
        <5>4. InFlight(m, c)
          BY <5>2, <5>3, <1>1 DEF InFlight
        <5> QED BY <5>3, <5>4, <2>3
      <4>2. CASE ~(back /\ at[idx] = c)
        BY <4>2, <1>1
      <4>3. CASE back /\ at[idx] = c /\ kind[idx] = "extern"
        BY <4>3, <1>1, <1>2
      <4> QED BY <4>1, <4>2, <4>3, <1>1 DEF Kinds
    <3> QED BY <3>1, <3>2
  <2> QED BY <2>1, <2>2, <2>3, <1>1
<1>6. UNCHANGED CellsView
  BY <1>5, ViewKept
<1>7. UNCHANGED OwnView
  BY <1>1, <1>3 DEF OwnView
<1> QED BY <1>1, <1>3, <1>6, <1>7 DEF Pointers!vars, StateView

\* Inside the function every operand reads what the abstract function reads.
LEMMA OperandRefines ==
    ASSUME IInv, phase = "run", NEW j \in Args, kind[j] # "extern"
    PROVE  Operand(j).content = Pointers!Operand(j)
<1>1. kind[j] \in {"value", "ref"} /\ at[j] \in Cells
  BY DEF IInv, TypeOK, Kinds
<1>2. CASE Pointers!Owned(j)
  <2>1. ~InPlace(j)
    BY <1>2 DEF Pointers!Owned, CopiedView, InPlace
  <2>2. OwnView[j] = local[j].content
    BY <1>2 DEF OwnView, Pointers!Owned
  <2> QED BY <1>2, <2>1, <2>2 DEF Operand, Pointers!Operand
<1>3. CASE ~Pointers!Owned(j) /\ packed[j]
  <2>1. kind[j] = "ref" /\ Alone(j)
    BY <1>1, <1>3 DEF Pointers!Owned, CopiedView
  <2>2. InFlight(j, at[j])
    BY <1>3, <2>1 DEF InFlight, Packs
  <2>3. CellsView[at[j]] = local[j].content
    BY <1>1, <2>2, ViewsHold DEF Views, IInv
  <2> QED BY <1>3, <2>3 DEF Operand, InPlace, Pointers!Operand
<1>4. CASE ~Pointers!Owned(j) /\ ~packed[j]
  <2>1. kind[j] = "ref"
    BY <1>1, <1>4 DEF Pointers!Owned
  <2>2. \A i \in Args : ~InFlight(i, at[j])
    BY <1>4, <2>1 DEF InFlight, Packs, Alone
  <2>3. CellsView[at[j]] = mem[at[j]].content
    BY <1>1, <2>2, ViewsHold DEF Views, IInv
  <2> QED BY <1>4, <2>1, <2>3 DEF Operand, InPlace, Pointers!Operand
<1> QED BY <1>2, <1>3, <1>4

LEMMA StoreRefines ==
    ASSUME IInv, IInv', phase = "run", NEW i \in Args, NEW v \in Contents, Store(i, v),
           UNCHANGED <<signature, phase, idx>>
    PROVE  Pointers!Store(i, v)
<1>1. /\ mem \in [Cells -> Data] /\ local \in [Args -> Data] /\ at[i] \in Cells
      /\ kind[i] \in {"value", "ref"}
      /\ UNCHANGED <<kind, at, packed, phase, idx>>
  BY DEF IInv, TypeOK, Kinds, Store, InPlace, signature
<1>2. /\ Views /\ Views' /\ UNCHANGED CopiedView
      /\ \A j \in Args, c \in Cells : InFlight(j, c)' <=> InFlight(j, c)
  <2>1. /\ UNCHANGED CopiedView /\ \A c \in Cells : Packs(c)' = Packs(c)
        /\ \A j \in Args : Alone(j)' <=> Alone(j)
    BY <1>1, CopiedKept
  <2>2. \A j \in Args, c \in Cells : InFlight(j, c)' <=> InFlight(j, c)
    BY <1>1, <2>1 DEF InFlight
  <2>3. Views /\ Views'
    BY ViewsHold, PTL
  <2> QED BY <2>1, <2>2, <2>3
<1>3. CellsView \in [Cells -> Contents] /\ CellsView' \in [Cells -> Contents]
  BY <1>2 DEF Views, IInv
<1>4. \A d \in Data : [d EXCEPT !.content = v].content = v
  BY DEF Data
\* A variable shows the same if neither it nor its copy in flight is assigned.
<1>5. ASSUME NEW c \in Cells, mem'[c] = mem[c],
             \A j \in Args : InFlight(j, c) => local'[j] = local[j]
      PROVE  CellsView'[c] = CellsView[c]
  <2>1. CASE \A j \in Args : ~InFlight(j, c)
    BY <2>1, <1>5, <1>2 DEF Views, IInv
  <2>2. ASSUME NEW j \in Args, InFlight(j, c) PROVE CellsView'[c] = CellsView[c]
    BY <2>2, <1>5, <1>2 DEF Views, IInv
  <2> QED BY <2>1, <2>2
<1>6. CASE Pointers!Owned(i)
  <2>1. mem' = mem /\ local' = [local EXCEPT ![i].content = v]
    BY <1>6 DEF Store, InPlace, Pointers!Owned, CopiedView
  <2>2. \A c \in Cells : ~InFlight(i, c)
    BY <1>6 DEF InFlight, Packs, Pointers!Owned, CopiedView
  <2>3. UNCHANGED CellsView
    <3>1. ASSUME NEW c \in Cells PROVE CellsView'[c] = CellsView[c]
      <4>1. \A j \in Args : InFlight(j, c) => j # i
        BY <2>2
      <4> QED BY <4>1, <2>1, <1>1, <1>5
    <3> QED BY <3>1, ViewKept
  <2>4. OwnView' = [OwnView EXCEPT ![i] = v]
    BY <2>1, <1>1, <1>2, <1>4, <1>6 DEF OwnView, Pointers!Owned
  <2> QED BY <2>3, <2>4, <1>6 DEF Pointers!Store
<1>7. ASSUME ~Pointers!Owned(i), UNCHANGED OwnView, CellsView'[at[i]] = v,
             \A c \in Cells : c # at[i] => CellsView'[c] = CellsView[c]
      PROVE  Pointers!Store(i, v)
  <2>1. CellsView' = [CellsView EXCEPT ![at[i]] = v]
    BY <1>7, <1>1, <1>3
  <2>2. kind[i] = "ref"
    BY <1>1, <1>7 DEF Pointers!Owned
  <2> QED BY <2>1, <2>2, <1>7 DEF Pointers!Store
<1>8. CASE ~Pointers!Owned(i) /\ packed[i]
  <2>1. kind[i] = "ref" /\ Alone(i)
    BY <1>1, <1>8 DEF Pointers!Owned, CopiedView
  <2>2. mem' = mem /\ local' = [local EXCEPT ![i].content = v] /\ InFlight(i, at[i])
    BY <1>8, <2>1 DEF Store, InPlace, InFlight, Packs
  <2>3. UNCHANGED OwnView
    BY <2>2, <1>1, <1>2, <1>8 DEF OwnView, Pointers!Owned
  <2>4. CellsView'[at[i]] = v
    BY <2>2, <1>1, <1>2, <1>4 DEF Views, IInv
  <2>5. ASSUME NEW c \in Cells, c # at[i] PROVE CellsView'[c] = CellsView[c]
    <3>1. \A j \in Args : InFlight(j, c) => j # i
      BY <2>5 DEF InFlight, Packs
    <3> QED BY <3>1, <2>2, <1>1, <1>5
  <2> QED BY <2>3, <2>4, <2>5, <1>7, <1>8
<1>9. CASE ~Pointers!Owned(i) /\ ~packed[i]
  <2>1. kind[i] = "ref"
    BY <1>1, <1>9 DEF Pointers!Owned
  <2>2. local' = local /\ mem' = [mem EXCEPT ![at[i]].content = v]
    BY <1>9, <2>1 DEF Store, InPlace
  <2>3. UNCHANGED OwnView
    BY <2>2, <1>1, <1>2 DEF OwnView
  <2>4. \A j \in Args : ~InFlight(j, at[i])
    BY <1>9, <2>1 DEF InFlight, Packs, Alone
  <2>5. CellsView'[at[i]] = v
    BY <2>2, <2>4, <1>1, <1>2, <1>4 DEF Views, IInv
  <2>6. ASSUME NEW c \in Cells, c # at[i] PROVE CellsView'[c] = CellsView[c]
    BY <2>2, <2>6, <1>1, <1>5
  <2> QED BY <2>3, <2>5, <2>6, <1>7, <1>9
<1> QED BY <1>6, <1>8, <1>9

LEMMA AssignRefines == ASSUME NEW i \in Args PROVE IInv /\ IInv' /\ Assign(i) => Pointers!Assign(i)
<1> SUFFICES ASSUME IInv, IInv', Assign(i) PROVE Pointers!Assign(i)
  OBVIOUS
<1>1. phase = "run" /\ UNCHANGED <<signature, result, handed, phase, idx>>
  BY DEF Assign
<1>2. \/ \E v \in Contents : Pointers!Store(i, v)
      \/ \E j \in Args : kind[j] # "extern" /\ Pointers!Store(i, Pointers!Operand(j))
  <2>1. CASE \E v \in Contents : Store(i, v)
    BY <2>1, <1>1, StoreRefines
  <2>2. ASSUME NEW j \in Args, kind[j] # "extern", Store(i, Operand(j).content)
        PROVE  \E k \in Args : kind[k] # "extern" /\ Pointers!Store(i, Pointers!Operand(k))
    <3>1. Operand(j).content \in Contents
      BY OperandTyped DEF IInv
    <3>2. Pointers!Store(i, Operand(j).content)
      BY <3>1, <2>2, <1>1, StoreRefines
    <3> QED BY <3>2, <2>2, <1>1, OperandRefines
  <2> QED BY <2>1, <2>2 DEF Assign
<1>3. UNCHANGED CopiedView
  BY <1>1, CopiedKept DEF signature
<1> QED BY <1>1, <1>2, <1>3 DEF Pointers!Assign, StateView, signature

LEMMA StepRefines == IInv /\ IInv' /\ [Next]_vars => [Pointers!Next]_(Pointers!vars)
<1> SUFFICES ASSUME IInv, IInv', [Next]_vars PROVE Pointers!Next \/ UNCHANGED Pointers!vars
  OBVIOUS
<1>1. CASE ConvertArgument
  BY <1>1, ConvertArgumentRefines
<1>2. CASE Call
  BY <1>2, CallRefines DEF Pointers!Next
<1>3. CASE ConvertBack
  BY <1>3, ConvertBackRefines
<1>4. CASE Finish
  BY <1>4, FinishRefines
<1>5. CASE Return
  BY <1>5, ReturnRefines DEF Pointers!Next
<1>6. ASSUME NEW i \in Args, Assign(i) PROVE Pointers!Next
  BY <1>6, AssignRefines DEF Pointers!Next
<1>7. ASSUME NEW i \in Args, HandOn(i) PROVE Pointers!Next
  BY <1>7, HandOnRefines DEF Pointers!Next
<1>8. CASE UNCHANGED vars
  <2>1. UNCHANGED <<signature, mem, local, phase, handed, result>>
    BY <1>8 DEF vars
  <2>2. \A i \in Args, c \in Cells : InFlight(i, c)' <=> InFlight(i, c)
    BY <1>8, CopiedKept DEF vars, signature, InFlight
  <2>3. UNCHANGED <<CellsView, OwnView, CopiedView>>
    BY <2>1, <2>2, CopiesKept
  <2> QED BY <2>1, <2>3 DEF Pointers!vars, StateView, signature
<1> QED BY <1>1, <1>2, <1>3, <1>4, <1>5, <1>6, <1>7, <1>8 DEF Next

\* The wrapper implements PointerCall for any number of arguments, whatever flags the
\* parser left and however often a variable is passed: a reference is a pointer, unless
\* its variable is passed for another one as well; then the last packed copy replaces it.
THEOREM ImplementsPointerCall == Spec => PointersSpec
<1>1. Init => Pointers!Init
  BY InitRefines
<1> QED BY <1>1, AlwaysInv, StepRefines, PTL DEF Spec, PointersSpec, Pointers!Spec

-----------------------------------------------------------------------------
(* The descriptor.                                                         *)

\* The described part never ends behind LLVM's.
OffsetBelow == curMemOffset <= llvmEnd
MembersInside ==
    \A k \in DOMAIN info : info[k].mem_offset + info[k].mem_size <= llvmEnd

LayoutInv == LayoutTypeOK /\ OffsetBelow /\ MembersInside /\ WritesInside

\* Alignment never moves a member towards the front.
LEMMA AlignToAbove ==
    ASSUME NEW o \in Nat, NEW a \in Nat \ {0}
    PROVE  AlignTo(o, a) \in Nat /\ AlignTo(o, a) >= o
<1>1. o % a \in 0..(a - 1)
  OBVIOUS
<1>2. (a - (o % a)) % a \in 0..(a - 1)
  BY <1>1
<1> QED BY <1>2 DEF AlignTo

\* An array takes at least the room of one element.
LEMMA ElementsRoom ==
    ASSUME NEW m \in Members
    PROVE  /\ m.type.size \in Nat \ {0} /\ m.type.align \in Nat \ {0}
           /\ m.type.size * Elements(m) \in Nat
           /\ m.type.size <= m.type.size * Elements(m)
<1>1. m.type.size \in Nat \ {0} /\ m.type.align \in Nat \ {0} /\ m.array \in Nat
  BY TypesAssumption, BoundsAssumption DEF Members
<1>2. Elements(m) \in Nat \ {0}
  BY <1>1 DEF Elements
<1>3. \A s, e \in Nat \ {0} : s * e \in Nat /\ s <= s * e
  OBVIOUS
<1> QED BY <1>1, <1>2, <1>3

LEMMA LayoutInitInv == LayoutInit => LayoutInv
<1> SUFFICES ASSUME LayoutInit PROVE LayoutInv
  OBVIOUS
<1>1. structure \in Seq(Members)
  BY BoundsAssumption DEF LayoutInit
<1> QED BY <1>1, BoundsAssumption DEF LayoutInit, LayoutInv, LayoutTypeOK, OffsetBelow, MembersInside, WritesInside, Infos

LEMMA DescribeInv == LayoutInv /\ Describe => LayoutInv'
<1> SUFFICES ASSUME LayoutInv, Describe PROVE LayoutInv'
  OBVIOUS
<1> DEFINE m == structure[reached]
<1> DEFINE room == m.type.size * Elements(m)
<1> DEFINE start == LlvmStart(m)
<1> DEFINE size == m.type.size
<1> USE DEF LayoutInv, LayoutTypeOK
<1>1. m \in Members /\ reached \in 1..Len(structure)
  BY DEF Describe
<1>2. size \in Nat \ {0} /\ m.type.align \in Nat \ {0} /\ room \in Nat /\ size <= room
  BY <1>1, ElementsRoom
<1>3. start \in Nat /\ start >= llvmEnd
  BY <1>2, AlignToAbove DEF LlvmStart
<1>4. /\ llvmEnd' = start + room
      /\ curMemOffset' = curMemOffset + size
      /\ info' = Append(info, [mem_offset |-> curMemOffset, mem_size |-> size])
      /\ llvmOffset' = Append(llvmOffset, start)
      /\ reached' = reached + 1 /\ UNCHANGED <<structure, memory, written>>
  BY DEF Describe, NextOffset, MemberSize
<1> HIDE DEF m, room, start, size
<1>5. llvmEnd' \in Nat /\ llvmEnd <= llvmEnd' /\ curMemOffset' <= llvmEnd'
  BY <1>2, <1>3, <1>4 DEF OffsetBelow
<1>6. LayoutTypeOK'
  BY <1>1, <1>2, <1>3, <1>4, <1>5 DEF Infos
<1>7. OffsetBelow'
  BY <1>5 DEF OffsetBelow
<1>8. MembersInside'
  <2> SUFFICES ASSUME NEW k \in DOMAIN info'
               PROVE  info'[k].mem_offset + info'[k].mem_size <= llvmEnd'
    BY DEF MembersInside
  <2>1. CASE k \in DOMAIN info
    <3>1. info \in Seq(Infos) /\ k \in 1..Len(info)
      BY <2>1
    <3>3. info[k] \in Infos
      BY <3>1
    <3>4. info'[k] = info[k]
      BY <3>1, <1>4
    <3>2. info[k].mem_offset + info[k].mem_size <= llvmEnd
      BY <2>1 DEF MembersInside
    <3> QED BY <3>2, <3>3, <3>4, <1>5 DEF Infos
  <2>2. CASE k = Len(info) + 1
    BY <2>2, <1>2, <1>4, <1>5
  <2> QED BY <1>4, <2>1, <2>2
<1>9. WritesInside'
  <2>1. \A a, b \in Nat : a <= b => 0..(a - 1) \subseteq 0..(b - 1)
    OBVIOUS
  <2>2. llvmEnd \in Nat
    OBVIOUS
  <2>3. 0..(llvmEnd - 1) \subseteq 0..(llvmEnd' - 1)
    BY <2>1, <2>2, <1>5
  <2> QED BY <2>3, <1>4 DEF WritesInside
<1> QED BY <1>6, <1>7, <1>8, <1>9

LEMMA SetMemberInv == ASSUME NEW k \in 1..MaxMembers
                      PROVE  LayoutInv /\ SetStructMemberData(k) => LayoutInv'
<1> SUFFICES ASSUME LayoutInv, SetStructMemberData(k) PROVE LayoutInv'
  OBVIOUS
<1> USE DEF LayoutInv
<1>1. LayoutTypeOK' /\ OffsetBelow' /\ MembersInside'
  BY DEF LayoutTypeOK, OffsetBelow, MembersInside, SetStructMemberData
<1>2. /\ info[k].mem_offset \in Nat /\ info[k].mem_size \in Nat
      /\ info[k].mem_offset + info[k].mem_size <= llvmEnd /\ llvmEnd \in Nat
  <2>1. info \in Seq(Infos) /\ k \in DOMAIN info /\ llvmEnd \in Nat
    BY DEF SetStructMemberData, LayoutTypeOK
  <2>2. info[k] \in Infos
    BY <2>1
  <2>3. info[k].mem_offset + info[k].mem_size <= llvmEnd
    BY <2>1 DEF MembersInside
  <2> QED BY <2>1, <2>2, <2>3 DEF Infos
<1>3. Range(k) \subseteq 0..(llvmEnd - 1)
  BY <1>2 DEF Range
<1>4. WritesInside'
  BY <1>3 DEF WritesInside, SetStructMemberData
<1> QED BY <1>1, <1>4

\* The invariant is inductive.
THEOREM LayoutInductive == LayoutSpec => []LayoutInv
<1>1. LayoutInv /\ [LayoutNext]_layoutVars => LayoutInv'
  <2> SUFFICES ASSUME LayoutInv, [LayoutNext]_layoutVars PROVE LayoutInv'
    OBVIOUS
  <2>1. CASE Describe
    BY <2>1, DescribeInv
  <2>2. ASSUME NEW k \in 1..MaxMembers, SetStructMemberData(k) PROVE LayoutInv'
    BY <2>2, SetMemberInv
  <2>3. CASE UNCHANGED layoutVars
    BY <2>3 DEF layoutVars, LayoutInv, LayoutTypeOK, OffsetBelow, MembersInside, WritesInside
  <2> QED BY <2>1, <2>2, <2>3 DEF LayoutNext
<1> QED BY LayoutInitInv, <1>1, PTL DEF LayoutSpec

\* KSC_SetStructMemberData and KSC_GetStructMemberPtr stay inside the structure,
\* whatever its members.
THEOREM WritesStayInside == LayoutSpec => []WritesInside
<1>1. LayoutInv => WritesInside
  BY DEF LayoutInv
<1> QED BY LayoutInductive, <1>1, PTL

\* The descriptor and the loop keep their types.
THEOREM LayoutTypeCorrect == LayoutSpec => []LayoutTypeOK
<1>1. LayoutInv => LayoutTypeOK
  BY DEF LayoutInv
<1> QED BY LayoutInductive, <1>1, PTL

-----------------------------------------------------------------------------
(* One member after the other: the described ranges lie apart.             *)

InOrder ==
    /\ \A k \in DOMAIN info : info[k].mem_offset + info[k].mem_size <= curMemOffset
    /\ \A j, k \in DOMAIN info : j < k => info[j].mem_offset + info[j].mem_size <= info[k].mem_offset

\* What was set is in memory, and nothing is set before the descriptor is complete.
SetAndKept ==
    /\ written # {} => Described
    /\ \A k \in written : k \in DOMAIN info /\ Range(k) \subseteq DOMAIN memory

Apart == LayoutTypeOK /\ InOrder /\ SetAndKept /\ MembersSeparate

LEMMA InfoTyped ==
    ASSUME LayoutTypeOK, NEW k \in DOMAIN info
    PROVE  k \in Nat \ {0} /\ info[k] \in Infos /\ info[k].mem_offset \in Nat /\ info[k].mem_size \in Nat \ {0}
<1>1. info \in Seq(Infos) /\ k \in 1..Len(info)
  BY DEF LayoutTypeOK
<1>2. info[k] \in Infos
  BY <1>1
<1> QED BY <1>1, <1>2 DEF Infos

\* Members with different positions share no unit of memory.
LEMMA RangesApart ==
    ASSUME LayoutTypeOK, InOrder, NEW j \in DOMAIN info, NEW k \in DOMAIN info, j # k
    PROVE  Range(j) \cap Range(k) = {}
<1>1. /\ j \in Nat /\ info[j].mem_offset \in Nat /\ info[j].mem_size \in Nat
      /\ k \in Nat /\ info[k].mem_offset \in Nat /\ info[k].mem_size \in Nat
  BY InfoTyped
<1>2. CASE j < k
  <2>1. info[j].mem_offset + info[j].mem_size <= info[k].mem_offset
    BY <1>2 DEF InOrder
  <2> QED BY <1>1, <2>1 DEF Range
<1>3. CASE k < j
  <2>1. info[k].mem_offset + info[k].mem_size <= info[j].mem_offset
    BY <1>3 DEF InOrder
  <2> QED BY <1>1, <2>1 DEF Range
<1> QED BY <1>1, <1>2, <1>3

LEMMA DescribeApart == LayoutInv /\ Apart /\ Describe => Apart'
<1> SUFFICES ASSUME LayoutInv, Apart, Describe PROVE Apart'
  OBVIOUS
<1> DEFINE m == structure[reached]
<1> DEFINE size == m.type.size
<1>1. LayoutTypeOK' /\ LayoutTypeOK
  BY DescribeInv DEF LayoutInv
<1>2. reached <= Len(structure) /\ structure \in Seq(Members) /\ reached \in 1..(Len(structure) + 1)
  BY <1>1 DEF Describe, LayoutTypeOK
<1>3. written = {}
  BY <1>2 DEF Apart, SetAndKept, Described
<1>4. m \in Members
  BY <1>2
<1>5. size \in Nat \ {0}
  BY <1>4, ElementsRoom
<1>6. /\ curMemOffset' = curMemOffset + size /\ curMemOffset \in Nat
      /\ info' = Append(info, [mem_offset |-> curMemOffset, mem_size |-> size])
      /\ info \in Seq(Infos) /\ UNCHANGED <<memory, written>>
  BY <1>1 DEF Describe, NextOffset, MemberSize, LayoutTypeOK
<1> HIDE DEF m, size
<1>7. InOrder'
  <2>1. \A k \in DOMAIN info :
          /\ info'[k] = info[k] /\ info[k].mem_offset + info[k].mem_size <= curMemOffset
          /\ info[k].mem_offset \in Nat /\ info[k].mem_size \in Nat
    BY <1>1, <1>6, InfoTyped DEF Apart, InOrder
  <2>2. DOMAIN info' = DOMAIN info \cup {Len(info) + 1} /\ DOMAIN info = 1..Len(info) /\ Len(info) \in Nat
    BY <1>6
  <2>3. info'[Len(info) + 1].mem_offset = curMemOffset /\ info'[Len(info) + 1].mem_size = size
    BY <1>6
  <2>4. ASSUME NEW k \in DOMAIN info' PROVE info'[k].mem_offset + info'[k].mem_size <= curMemOffset'
    <3>1. CASE k \in DOMAIN info
      BY <3>1, <2>1, <1>5, <1>6
    <3>2. CASE k = Len(info) + 1
      BY <3>2, <2>3, <1>5, <1>6
    <3> QED BY <3>1, <3>2, <2>2
  <2>5. ASSUME NEW j \in DOMAIN info', NEW k \in DOMAIN info', j < k
        PROVE  info'[j].mem_offset + info'[j].mem_size <= info'[k].mem_offset
    <3>1. j \in DOMAIN info
      BY <2>2, <2>5
    <3>2. CASE k \in DOMAIN info
      BY <3>1, <3>2, <2>1, <2>5 DEF Apart, InOrder
    <3>3. CASE k = Len(info) + 1
      BY <3>1, <3>3, <2>1, <2>3
    <3> QED BY <3>2, <3>3, <2>2
  <2> QED BY <2>4, <2>5 DEF InOrder
<1>8. SetAndKept' /\ MembersSeparate'
  BY <1>3, <1>6 DEF SetAndKept, MembersSeparate
<1> QED BY <1>1, <1>7, <1>8 DEF Apart

LEMMA SetMemberApart == ASSUME NEW k \in 1..MaxMembers
                        PROVE  Apart /\ SetStructMemberData(k) => Apart'
<1> SUFFICES ASSUME Apart, SetStructMemberData(k) PROVE Apart'
  OBVIOUS
<1>1. /\ Described /\ k \in DOMAIN info /\ LayoutTypeOK /\ InOrder
      /\ memory' = [u \in DOMAIN memory \cup Range(k) |-> IF u \in Range(k) THEN k ELSE memory[u]]
      /\ written' = written \cup {k}
      /\ UNCHANGED <<structure, reached, curMemOffset, info, llvmEnd, llvmOffset>>
  BY DEF SetStructMemberData, Apart
<1>2. \A j : Range(j)' = Range(j)
  BY <1>1 DEF Range
<1>3. LayoutTypeOK' /\ InOrder'
  BY <1>1 DEF LayoutTypeOK, InOrder
<1>4. SetAndKept'
  BY <1>1, <1>2 DEF SetAndKept, Apart, Described
<1>5. MembersSeparate'
  <2> SUFFICES ASSUME NEW j \in written', NEW u \in Range(j) PROVE memory'[u] = j
    BY <1>2 DEF MembersSeparate
  <2>1. CASE j = k
    BY <2>1, <1>1
  <2>2. CASE j # k
    <3>1. j \in written /\ j \in DOMAIN info /\ u \in DOMAIN memory
      BY <2>2, <1>1 DEF Apart, SetAndKept
    <3>2. u \notin Range(k)
      BY <3>1, <2>2, <1>1, RangesApart
    <3>3. memory[u] = j
      BY <3>1 DEF Apart, MembersSeparate
    <3> QED BY <3>1, <3>2, <3>3, <1>1
  <2> QED BY <2>1, <2>2
<1> QED BY <1>3, <1>4, <1>5 DEF Apart

\* Setting a member through its handle leaves every other member as it was set, for
\* structures of any members and any order of calls.
THEOREM MembersKeptApart == LayoutSpec => []MembersSeparate
<1>1. LayoutInit => Apart
  BY LayoutInitInv DEF LayoutInit, LayoutInv, Apart, InOrder, SetAndKept, MembersSeparate
<1>2. LayoutInv /\ Apart /\ [LayoutNext]_layoutVars => Apart'
  <2> SUFFICES ASSUME LayoutInv, Apart, [LayoutNext]_layoutVars PROVE Apart'
    OBVIOUS
  <2>1. CASE Describe
    BY <2>1, DescribeApart
  <2>2. ASSUME NEW k \in 1..MaxMembers, SetStructMemberData(k) PROVE Apart'
    BY <2>2, SetMemberApart
  <2>3. CASE UNCHANGED layoutVars
    BY <2>3 DEF layoutVars, Apart, LayoutTypeOK, InOrder, SetAndKept, MembersSeparate, Described, Range
  <2> QED BY <2>1, <2>2, <2>3 DEF LayoutNext
<1>3. Apart => MembersSeparate
  BY DEF Apart
<1> QED BY LayoutInductive, <1>1, <1>2, <1>3, PTL DEF LayoutSpec
=============================================================================
