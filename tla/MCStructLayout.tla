--------------------------- MODULE MCStructLayout ---------------------------
(* Sizes and alignments in units of four bytes on a 64-bit target: int and    *)
(* float, the two- and four-element vectors, and a structure of three floats. *)
EXTENDS StructLayout
MCTypes == {[size |-> 1, align |-> 1], [size |-> 2, align |-> 2],
            [size |-> 4, align |-> 4], [size |-> 3, align |-> 1]}
=============================================================================
