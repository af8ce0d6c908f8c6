------------------------------- MODULE MCParser -------------------------------
(***************************************************************************)
(* The texts the parser is run on, a few kinds of token at a time: every   *)
(* rule of the grammar is needed for a text of some kind.                  *)
(***************************************************************************)
EXTENDS ParseChecks

Kind(max, tokens) == [start |-> << >>, tokens |-> tokens, max |-> max]
From(start, max, tokens) == [start |-> start, tokens |-> tokens, max |-> max]

Header == <<"FUNC", "ID", "LPAREN", "RPAREN", "COLON", "ID">>
Function == {"FUNC", "ID", "LPAREN", "RPAREN", "COLON", "SEMICOLON"}
Block == {"LCURLY", "RCURLY"}

MCInputs ==
  {From(Header \o <<"LCURLY">>, 16, Function \cup Block),
   From(Header, 12, Block \cup {"RETURN", "ID", "SEMICOLON", "IF"}),
   From(<<"FUNC", "ID", "LPAREN">>, 15, {"ID", "COLON", "COMMA", "RPAREN", "STAR", "TYPE", "SEMICOLON"}),
   From(<<"EXTERN">>, 10, Function \cup Block \cup {"EXPORT"}),
   From(<<"EXPORT">>, 10, Function \cup Block \cup {"EXTERN"}),
   Kind(12, Block \cup {"TYPE", "ID", "COLON", "EQUALS", "SEMICOLON", "IF"}),
   Kind(9, {"LET", "TYPE", "ID", "COLON", "EQUALS", "STAR", "NUMBER", "SEMICOLON"}),
   Kind(12, Block \cup {"ID", "WHILE", "IF", "ELSE", "BREAK", "SEMICOLON"}),
   Kind(8, {"ID", "EQUALS", "SEMICOLON", "LPAREN", "RPAREN", "COMMA", "DOT", "ARROW", "STAR"}),
   Kind(6, Literals \cup Operators \cup PrefixOperators \cup {"ID", "EQUALS", "SEMICOLON"})}
=============================================================================
