-------------------------------- MODULE Grammar --------------------------------
(***************************************************************************)
(* The grammar of pebl, as the rules above the functions of parser.c and   *)
(* doc/grammar.md state it.  The optional and alternative parts of a rule  *)
(* are written out; STAR* is a rule of its own, `stars'.                   *)
(***************************************************************************)
Operators == {"PLUS", "MINUS", "STAR", "DIVIDE", "AND", "OR", "LT", "GT", "LTEQ",
              "GTEQ", "EQ", "NEQ", "COLON"}
PrefixOperators == {"AMPERSAND", "STAR", "NOT", "MINUS"}
\* The rule for literal leaves NULL out, the parser does not.
Literals == {"NUMBER", "STRING_LITERAL", "CHAR_LITERAL", "TRUE", "FALSE", "NULL"}

Tokens == Operators \cup PrefixOperators \cup Literals \cup
  {"ID", "LPAREN", "RPAREN", "LCURLY", "RCURLY", "COMMA", "DOT", "ARROW", "SEMICOLON",
   "FUNC", "EXTERN", "EXPORT", "TYPE", "LET", "EQUALS", "IF", "ELSE", "WHILE",
   "RETURN", "BREAK"}

Productions ==
  [statement_list |-> {<< >>, <<"statement">>, <<"statement", "statement_list">>},
   statement |-> {<<"function_def">>, <<"type_def">>, <<"var_def">>, <<"block_statement">>},
   block_statement |-> {<<"assignment">>, <<"if_stmt">>, <<"while_stmt">>,
                        <<"return_stmt">>, <<"break_stmt">>, <<"call_stmt">>},
   function_def |-> {<<"function_header", "body">>, <<"function_header", "SEMICOLON">>,
     <<"EXTERN", "function_header", "body">>, <<"EXTERN", "function_header", "SEMICOLON">>,
     <<"EXPORT", "function_header", "body">>, <<"EXPORT", "function_header", "SEMICOLON">>},
   function_header |-> {<<"FUNC", "varname", "LPAREN", "args", "RPAREN", "COLON", "typename">>},
   body |-> {<<"LCURLY", "statement_list", "RCURLY">>},
   args |-> {<< >>, <<"name_with_type">>, <<"name_with_type", "COMMA", "args">>},
   name_with_type |-> {<<"varname", "COLON", "typename">>},
   type_def |-> {<<"TYPE", "varname", "EQUALS", "LCURLY", "type_list", "RCURLY">>,
                 <<"TYPE", "varname", "EQUALS", "typename", "SEMICOLON">>,
                 <<"TYPE", "varname", "SEMICOLON">>},
   type_list |-> {<< >>, <<"name_with_type", "SEMICOLON", "type_list">>},
   var_def |-> {<<"LET", "varname", "SEMICOLON">>,
                <<"LET", "varname", "COLON", "typename", "SEMICOLON">>,
                <<"LET", "varname", "EQUALS", "expr", "SEMICOLON">>,
                <<"LET", "varname", "COLON", "typename", "EQUALS", "expr", "SEMICOLON">>},
   varname |-> {<<"ID">>},
   typename |-> {<<"ID", "stars">>, <<"TYPE">>},
   stars |-> {<< >>, <<"STAR", "stars">>},
   expr |-> {<<"atom">>, <<"atom", "op", "atom">>, <<"preop", "atom">>},
   expr_list |-> {<< >>, <<"expr">>, <<"expr", "COMMA", "expr_list">>},
   literal |-> {<<t>> : t \in Literals},
   atom |-> {<<"literal">>, <<"varname">>, <<"call_expr">>, <<"varname", "DOT", "varname">>,
             <<"varname", "ARROW", "varname">>, <<"LPAREN", "expr", "RPAREN">>},
   op |-> {<<t>> : t \in Operators},
   preop |-> {<<t>> : t \in PrefixOperators},
   call_stmt |-> {<<"call_expr", "SEMICOLON">>},
   call_expr |-> {<<"varname", "LPAREN", "expr_list", "RPAREN">>},
   assignment |-> {<<"varname", "EQUALS", "expr", "SEMICOLON">>,
     <<"varname", "DOT", "varname", "EQUALS", "expr", "SEMICOLON">>,
     <<"varname", "ARROW", "varname", "EQUALS", "expr", "SEMICOLON">>,
     <<"STAR", "varname", "EQUALS", "expr", "SEMICOLON">>,
     <<"STAR", "varname", "DOT", "varname", "EQUALS", "expr", "SEMICOLON">>,
     <<"STAR", "varname", "ARROW", "varname", "EQUALS", "expr", "SEMICOLON">>},
   if_stmt |-> {<<"IF", "expr", "body">>, <<"IF", "expr", "body", "ELSE", "body">>,
                <<"IF", "expr", "body", "ELSE", "if_stmt">>},
   while_stmt |-> {<<"WHILE", "expr", "body">>},
   return_stmt |-> {<<"RETURN", "SEMICOLON">>, <<"RETURN", "expr", "SEMICOLON">>},
   break_stmt |-> {<<"BREAK", "SEMICOLON">>}]

Rules == DOMAIN Productions
=============================================================================
