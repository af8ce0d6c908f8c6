------------------------------ MODULE MCSymbols ------------------------------
(* The symbol table model, for TLC: the builtin types of the runs. *)
EXTENDS SymbolCodegen

Builtins1 == <<"int">>
Builtins2 == <<"int", "bool">>
=============================================================================
