--------------------------- MODULE MCDeclarations ---------------------------
(* Declarations with two names and a few argument lists, one of them with the *)
(* names of another the other way round and one with an argument of a type    *)
(* of the source.                                                             *)
EXTENDS Declarations

MCLists == {<<>>, <<<<"a", "int">>, <<"b", "int">>>>, <<<<"b", "int">>, <<"a", "int">>>>,
            <<<<"a", "b">>>>}
=============================================================================
