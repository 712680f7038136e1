---------------------------- MODULE MCKscSession ----------------------------
(* Texts for model checking KscSession: `i' stands for the intrinsics, `h' and *)
(* `e' for functions of the shared text, the others for functions of modules.  *)
EXTENDS KscSession

MCNames == {"i", "e", "h", "f", "g"}
MCIntrinsics == <<"i">>

Item(form, name, args, calls) ==
    [form |-> form, name |-> name, args |-> args, calls |-> calls]
Def(name, calls) == Item("def", name, 1, calls)
Decl(name) == Item("decl", name, 1, {})
Noisy == Item("noisy", "f", 0, {})
Mute == Item("mute", "f", 0, {})

\* A helper with a body and an external function.
SharedLib == <<Decl("e"), Def("h", {"i", "e"})>>
BadShared == <<Decl("e"), Noisy>>

\* Modules that leave the shared names alone.
Recursive == <<Def("f", {"f", "h"})>>
TwoFunctions == <<Def("g", {"i"}), Def("f", {"g", "e"})>>
OwnExternal == <<Decl("g"), Def("f", {"g"}), Decl("f")>>
Repeated == <<Decl("e"), Def("f", {}), Def("f", {})>>
OtherPrototype == <<Def("g", {}), Item("decl", "g", 2, {})>>
UnknownCallee == <<Def("g", {}), Def("f", {"f", "i", "g"}), Def("f", {"g"})>>
Truncated == <<Def("g", {}), Item("cut", "f", 1, {})>>
MuteText == <<Def("f", {}), Mute>>

\* A module that gives the external function of the shared text a body, one that
\* tries, and one that declares a function, uses it, and defines it afterwards.
GivesSharedABody == <<Def("e", {"i"})>>
BadSharedBody == <<Def("g", {}), Def("e", {"g"})>>
ForwardDeclared == <<Decl("g"), Def("f", {"g"}), Def("g", {"f"})>>

MCModuleTexts == {Recursive, TwoFunctions, OwnExternal, Repeated, OtherPrototype,
                  UnknownCallee, Truncated, MuteText,
                  GivesSharedABody, BadSharedBody, ForwardDeclared}
MCSharedTexts == {<<>>, SharedLib, BadShared}
=============================================================================
