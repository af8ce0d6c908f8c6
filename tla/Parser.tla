-------------------------------- MODULE Parser --------------------------------
(***************************************************************************)
(* The parser (src/src/parser/parser.c), recursive descent with one        *)
(* function per rule.  `calls' is the functions that have not returned,    *)
(* innermost first; `vals' is what they and their callees have recognised: *)
(* a symbol and the value of its variable in C.  What a function does next *)
(* depends on what it has recognised (its place in the code) and on the    *)
(* tokens it peeks at.  The text is whatever the lexer delivers next.      *)
(***************************************************************************)
EXTENDS Naturals, Sequences, Grammar, Ast

CONSTANT Inputs   \* kinds of text: how it starts, the tokens that follow, a bound on its length

VARIABLES input,  \* the kind of this text
          phase,  \* "parse", "done", or the error the compiler ended with
          ahead,  \* the tokens peeked at, not yet consumed
          read,   \* history: the tokens consumed
          calls,  \* the functions that have not returned: [fn, base, from]
          vals,   \* what has been recognised: [sym, val]
          ast     \* context->ast

vars == <<input, phase, ahead, read, calls, vals, ast>>

InputsAssumption ==
  \A i \in Inputs : i.start \in Seq(Tokens) /\ i.tokens \subseteq Tokens /\ i.max \in Nat
ASSUME InputsAssumption
-----------------------------------------------------------------------------
(***************************************************************************)
(* What a function that has recognised the symbols g, and peeks at t (and  *)
(* u behind it), does next: the token it expects, the function it calls,   *)
(* "return" or an error.                                                   *)
(***************************************************************************)
InOrder(symbols, g) == IF Len(g) < Len(symbols) THEN symbols[Len(g) + 1] ELSE "return"
Latest(g) == IF g = << >> THEN "start" ELSE g[Len(g)]

StartsStatement == {"FUNC", "EXTERN", "EXPORT", "TYPE", "LET", "ID", "STAR", "IF",
                    "WHILE", "RETURN", "BREAK"}
is_literal(t) == t \in Literals
is_preop(t) == t \in PrefixOperators

parse_statement_list(g, t) ==
  CASE g = << >> /\ t = "ERROR" -> "syntax_error"
    [] g = << >> /\ t \notin StartsStatement \cup {"ERROR"} -> "return"
    [] g # << >> \/ t \in StartsStatement -> InOrder(<<"statement", "statement_list">>, g)

StatementKind(t) == CASE t \in {"FUNC", "EXPORT", "EXTERN"} -> "function_def"
                      [] t = "TYPE" -> "type_def"
                      [] t = "LET"  -> "var_def"
                      [] OTHER      -> "block_statement"
parse_statement(g, t) == InOrder(<<StatementKind(t)>>, g)

BlockStatementKind(t, u) == CASE t = "IF"     -> "if_stmt"
                              [] t = "WHILE"  -> "while_stmt"
                              [] t = "RETURN" -> "return_stmt"
                              [] t = "BREAK"  -> "break_stmt"
                              [] OTHER -> IF u = "LPAREN" THEN "call_stmt" ELSE "assignment"
parse_block_statement(g, t, u) == InOrder(<<BlockStatementKind(t, u)>>, g)

FunctionEnd(qualifier, t) ==
  CASE t = "SEMICOLON" /\ qualifier = "EXPORT" -> "export_without_body"
    [] t = "SEMICOLON" /\ qualifier # "EXPORT" -> t
    [] t # "SEMICOLON" /\ qualifier = "EXTERN" -> "extern_with_body"
    [] t # "SEMICOLON" /\ qualifier # "EXTERN" -> "body"
parse_function_def(g, t) ==
  CASE Latest(g) = "start" -> IF t \in {"EXTERN", "EXPORT"} THEN t ELSE "function_header"
    [] Latest(g) \in {"EXTERN", "EXPORT"} -> "function_header"
    [] Latest(g) = "function_header"      -> FunctionEnd(g[1], t)
    [] Latest(g) \in {"SEMICOLON", "body"} -> "return"

parse_function_header(g) ==
  InOrder(<<"FUNC", "varname", "LPAREN", "args", "RPAREN", "COLON", "typename">>, g)
parse_body(g) == InOrder(<<"LCURLY", "statement_list", "RCURLY">>, g)

parse_args(g, t) ==
  IF (g = << >> /\ t # "ID") \/ (Len(g) = 1 /\ t # "COMMA") THEN "return"
  ELSE InOrder(<<"name_with_type", "COMMA", "args">>, g)

parse_name_with_type(g) == InOrder(<<"varname", "COLON", "typename">>, g)

parse_type_def(g, t) ==
  CASE Latest(g) = "start"     -> "TYPE"
    [] Latest(g) = "TYPE"      -> "varname"
    [] Latest(g) = "varname"   -> IF t = "EQUALS" THEN t ELSE "SEMICOLON"
    [] Latest(g) = "EQUALS"    -> IF t = "LCURLY" THEN t ELSE "typename"
    [] Latest(g) = "LCURLY"    -> "type_list"
    [] Latest(g) = "type_list" -> "RCURLY"
    [] Latest(g) = "typename"  -> "SEMICOLON"
    [] Latest(g) \in {"RCURLY", "SEMICOLON"} -> "return"

parse_type_list(g, t) ==
  IF g = << >> /\ t # "ID" THEN "return"
  ELSE InOrder(<<"name_with_type", "SEMICOLON", "type_list">>, g)

parse_var_def(g, t) ==
  CASE Latest(g) = "start"     -> "LET"
    [] Latest(g) = "LET"       -> "varname"
    [] Latest(g) = "varname"   -> IF t \in {"COLON", "EQUALS"} THEN t ELSE "SEMICOLON"
    [] Latest(g) = "COLON"     -> "typename"
    [] Latest(g) = "typename"  -> IF t = "EQUALS" THEN t ELSE "SEMICOLON"
    [] Latest(g) = "EQUALS"    -> "expr"
    [] Latest(g) = "expr"      -> "SEMICOLON"
    [] Latest(g) = "SEMICOLON" -> "return"

parse_varname(g) == InOrder(<<"ID">>, g)
parse_typename(g, t) ==
  CASE Latest(g) = "start" -> IF t = "TYPE" THEN t ELSE "ID"
    [] Latest(g) = "ID"    -> "stars"
    [] Latest(g) \in {"TYPE", "stars"} -> "return"
\* The loop of parse_typename.
Stars(g, t) == IF g = << >> /\ t # "STAR" THEN "return" ELSE InOrder(<<"STAR", "stars">>, g)

parse_expr(g, t) ==
  CASE g = << >>    -> IF is_preop(t) THEN "preop" ELSE "atom"
    [] g = <<"atom">> -> IF t \in Operators THEN "op" ELSE "return"
    [] Latest(g) \in {"preop", "op"} -> "atom"
    [] Len(g) > 1 /\ Latest(g) = "atom" -> "return"

\* mutant: a prefix operator starts no expression
parse_expr_list_starts(g, t) ==
  IF (g = << >> /\ ~(is_literal(t) \/ t \in {"ID", "LPAREN"})) \/ (Len(g) = 1 /\ t # "COMMA")
  THEN "return" ELSE InOrder(<<"expr", "COMMA", "expr_list">>, g)
parse_expr_list(g, t) ==
  IF (g = << >> /\ ~(is_literal(t) \/ is_preop(t) \/ t \in {"ID", "LPAREN"}))
       \/ (Len(g) = 1 /\ t # "COMMA") THEN "return"
  ELSE InOrder(<<"expr", "COMMA", "expr_list">>, g)

parse_literal(g, t) == InOrder(<<IF is_literal(t) THEN t ELSE "syntax_error">>, g)
parse_op(g, t)    == InOrder(<<IF t \in Operators THEN t ELSE "syntax_error">>, g)
parse_preop(g, t) == InOrder(<<IF is_preop(t) THEN t ELSE "syntax_error">>, g)

AtomKind(t, u) ==
  CASE is_literal(t) -> "literal"
    [] t = "ID"      -> IF u = "LPAREN" THEN "call_expr" ELSE "varname"
    [] t = "LPAREN"  -> t
    [] ~is_literal(t) /\ t \notin {"ID", "LPAREN"} -> "syntax_error"
parse_atom(g, t, u) ==
  CASE Latest(g) = "start"   -> AtomKind(t, u)
    [] Latest(g) = "varname" -> IF Len(g) = 1 /\ t \in {"DOT", "ARROW"} THEN t ELSE "return"
    [] Latest(g) \in {"DOT", "ARROW"} -> "varname"
    [] Latest(g) = "LPAREN"  -> "expr"
    [] Latest(g) = "expr"    -> "RPAREN"
    [] Latest(g) \in {"literal", "call_expr", "RPAREN"} -> "return"

parse_call_stmt(g) == InOrder(<<"call_expr", "SEMICOLON">>, g)
parse_call_expr(g) == InOrder(<<"varname", "LPAREN", "expr_list", "RPAREN">>, g)

parse_assignment(g, t) ==
  CASE Latest(g) = "start"   -> IF t = "STAR" THEN t ELSE "varname"
    [] Latest(g) = "STAR"    -> "varname"
    [] Latest(g) = "varname" -> IF Len(g) < 3 /\ t \in {"DOT", "ARROW"} THEN t ELSE "EQUALS"
    [] Latest(g) \in {"DOT", "ARROW"} -> "varname"
    [] Latest(g) = "EQUALS"    -> "expr"
    [] Latest(g) = "expr"      -> "SEMICOLON"
    [] Latest(g) = "SEMICOLON" -> "return"

parse_if_stmt(g, t) ==
  CASE Len(g) < 3 -> InOrder(<<"IF", "expr", "body">>, g)
    [] Len(g) = 3 -> IF t = "ELSE" THEN t ELSE "return"
    [] Len(g) = 4 -> IF t = "IF" THEN "if_stmt" ELSE "body"
    [] Len(g) > 4 -> "return"
parse_while_stmt(g) == InOrder(<<"WHILE", "expr", "body">>, g)
\* mutant: no semicolon behind a value
parse_return_stmt_bare(g, t) ==
  CASE Latest(g) = "start"  -> "RETURN"
    [] Latest(g) = "RETURN" -> IF t # "SEMICOLON" THEN "expr" ELSE t
    [] Latest(g) \in {"expr", "SEMICOLON"} -> "return"
parse_return_stmt(g, t) ==
  CASE Latest(g) = "start"  -> "RETURN"
    [] Latest(g) = "RETURN" -> IF t # "SEMICOLON" THEN "expr" ELSE t
    [] Latest(g) = "expr"   -> "SEMICOLON"
    [] Latest(g) = "SEMICOLON" -> "return"
parse_break_stmt(g) == InOrder(<<"BREAK", "SEMICOLON">>, g)

Move(fn, g, t, u) ==
  CASE fn = "statement_list"  -> parse_statement_list(g, t)
    [] fn = "statement"       -> parse_statement(g, t)
    [] fn = "block_statement" -> parse_block_statement(g, t, u)
    [] fn = "function_def"    -> parse_function_def(g, t)
    [] fn = "function_header" -> parse_function_header(g)
    [] fn = "body"            -> parse_body(g)
    [] fn = "args"            -> parse_args(g, t)
    [] fn = "name_with_type"  -> parse_name_with_type(g)
    [] fn = "type_def"        -> parse_type_def(g, t)
    [] fn = "type_list"       -> parse_type_list(g, t)
    [] fn = "var_def"         -> parse_var_def(g, t)
    [] fn = "varname"         -> parse_varname(g)
    [] fn = "typename"        -> parse_typename(g, t)
    [] fn = "stars"           -> Stars(g, t)
    [] fn = "expr"            -> parse_expr(g, t)
    [] fn = "expr_list"       -> parse_expr_list(g, t)
    [] fn = "literal"         -> parse_literal(g, t)
    [] fn = "atom"            -> parse_atom(g, t, u)
    [] fn = "op"              -> parse_op(g, t)
    [] fn = "preop"           -> parse_preop(g, t)
    [] fn = "call_stmt"       -> parse_call_stmt(g)
    [] fn = "call_expr"       -> parse_call_expr(g)
    [] fn = "assignment"      -> parse_assignment(g, t)
    [] fn = "if_stmt"         -> parse_if_stmt(g, t)
    [] fn = "while_stmt"      -> parse_while_stmt(g)
    [] fn = "return_stmt"     -> parse_return_stmt(g, t)
    [] fn = "break_stmt"      -> parse_break_stmt(g)
-----------------------------------------------------------------------------
(***************************************************************************)
(* What a function returns: p is what it has recognised, `from' its first  *)
(* token.  A token's value is its place in the text, a rule's value a list *)
(* of nodes, an operator's its name.                                       *)
(***************************************************************************)
Places(p, s) == {i \in 1..Len(p) : p[i].sym = s}
Has(p, s) == Places(p, s) # {}
Part(p, s) == IF Has(p, s) THEN p[CHOOSE i \in Places(p, s) : TRUE].val ELSE Nothing
One(node, token) == <<add_location(node, token)>>

built_function_def(p) ==
  LET func == ast_build_Function(Part(p, "function_header")[1], Part(p, "body"))
  IN CASE Has(p, "EXPORT") -> <<ast_build_ExportFunction(func)>>
       [] Has(p, "EXTERN") -> <<ast_build_ExternFunction(func)>>
       [] ~Has(p, "EXPORT") /\ ~Has(p, "EXTERN") -> <<func>>

built_type_def(p, from) ==
  LET name == Part(p, "varname")
  IN One(CASE Has(p, "type_list") -> ast_build_Type(name, Part(p, "type_list"))
           [] Has(p, "typename")  -> ast_build_TypeAlias(name, Part(p, "typename"))
           [] Len(p) = 3          -> ast_build_OpaqueType(name), from)

built_typename(p, from) ==
  One(IF Has(p, "TYPE") THEN ast_build_Typename2("type", 0)
      ELSE ast_build_Typename2("ID", Part(p, "stars")), from)

built_expr(p, from) ==
  One(CASE Has(p, "preop")     -> ast_build_Expr_uop(p[2].val, p[1].val)
        [] Has(p, "op")        -> ast_build_Expr_binop(p[1].val, p[3].val, p[2].val)
        [] Len(p) = 1          -> ast_build_Expr_plain(p[1].val), from)

built_literal(p, from) ==
  One(CASE p[1].sym = "NUMBER"       -> ast_build_Number(from, 64)
        [] p[1].sym = "CHAR_LITERAL" -> ast_build_Number(from, 32)
        [] p[1].sym = "TRUE"         -> ast_build_Number(1, 1)
        [] p[1].sym = "FALSE"        -> ast_build_Number(0, 1)
        [] p[1].sym = "NULL"         -> ast_build_Number(0, 0)
        [] p[1].sym = "STRING_LITERAL" -> ast_build_String(from), from)

FieldAccess(object, dot, field) ==
  One(ast_build_FieldAccess(object, dot.sym = "ARROW", field), dot.val)

built_atom(p, from) ==
  CASE Has(p, "LPAREN") -> One(ast_build_Expr_plain(Part(p, "expr")), from)
    [] Len(p) = 1       -> p[1].val
    [] Has(p, "varname") /\ Len(p) = 3 -> FieldAccess(p[1].val, p[2], p[3].val)

OperatorOf(t) == CASE t = "STAR" -> "MULT" [] t = "COLON" -> "CAST" [] OTHER -> t
PrefixOf(t) == CASE t = "STAR" -> "PTR_DEREFERENCE" [] t = "AMPERSAND" -> "TAKE_ADDRESS"
                 [] OTHER -> t

built_assignment(p, from) ==
  LET first == IF Has(p, "STAR") THEN 2 ELSE 1
      lhs == IF Has(p, "DOT") \/ Has(p, "ARROW")
             THEN FieldAccess(p[first].val, p[first + 1], p[first + 2].val) ELSE p[first].val
  IN One(ast_build_Assignment(lhs, Part(p, "expr"), Has(p, "STAR")), from)

built_if_stmt(p, from) ==
  LET else_body == CASE Has(p, "if_stmt") -> <<ast_build_Block(Part(p, "if_stmt"))>>
                     [] Len(p) = 5 /\ ~Has(p, "if_stmt") -> p[5].val
                     [] Len(p) = 3 -> <<ast_build_EmptyBlock>>
  IN One(ast_build_Conditional(p[2].val, p[3].val, else_body), from)

\* The lists: a head and, behind it, a tail.
built_list(p, tail) ==
  IF p = << >> THEN Nothing ELSE ast_append(p[1].val, Part(p, tail))

Built(fn, p, from) ==
  CASE fn \in {"statement_list", "args", "type_list", "expr_list"} -> built_list(p, fn)
    [] fn \in {"statement", "block_statement", "call_stmt"} -> p[1].val
    [] fn = "function_def"    -> built_function_def(p)
    [] fn = "function_header" ->
         One(ast_build_FunctionHeader(p[2].val, p[4].val, p[7].val), from)
    [] fn = "body"            -> <<ast_build_Block(p[2].val)>>
    [] fn = "name_with_type"  -> One(ast_build_Variable(p[1].val, p[3].val, Nothing), p[2].val)
    [] fn = "type_def"        -> built_type_def(p, from)
    [] fn = "var_def"         ->
         One(ast_build_Variable(p[2].val, Part(p, "typename"), Part(p, "expr")), from)
    [] fn = "varname"         -> One(ast_build_Identifier, from)
    [] fn = "typename"        -> built_typename(p, from)
    [] fn = "stars"           -> IF p = << >> THEN 0 ELSE 1 + p[2].val
    [] fn = "expr"            -> built_expr(p, from)
    [] fn = "literal"         -> built_literal(p, from)
    [] fn = "atom"            -> built_atom(p, from)
    [] fn = "op"              -> OperatorOf(p[1].sym)
    [] fn = "preop"           -> PrefixOf(p[1].sym)
    [] fn = "call_expr"       -> One(ast_build_Call(p[1].val, p[3].val), from)
    [] fn = "assignment"      -> built_assignment(p, from)
    [] fn = "if_stmt"         -> built_if_stmt(p, from)
    [] fn = "while_stmt"      -> One(ast_build_While(p[2].val, p[3].val), from)
    [] fn = "return_stmt"     -> One(ast_build_Return(Part(p, "expr")), from)
    [] fn = "break_stmt"      -> One(ast_build_Break, from)
-----------------------------------------------------------------------------
Top == Head(calls)
Parts == SubSeq(vals, Top.base + 1, Len(vals))   \* what the innermost call has recognised
Got == [i \in 1..Len(Parts) |-> Parts[i].sym]

\* mutant: a third token tells a field from a name
Lookahead_field == IF Got = << >> /\ Top.fn = "atom" THEN 3 ELSE 1
\* How far the innermost call peeks before it goes on.
Lookahead ==
  IF Got = << >> /\ Len(ahead) > 0 /\
     \/ Top.fn = "atom" /\ ahead[1] = "ID"
     \/ Top.fn = "block_statement" /\ ahead[1] \notin {"IF", "WHILE", "RETURN", "BREAK"}
  THEN 2 ELSE 1
Wanted == Move(Top.fn, Got, ahead[1], IF Len(ahead) > 1 THEN ahead[2] ELSE "")

Frame(fn) == [fn |-> fn, base |-> Len(vals), from |-> Len(read) + 1]

Init == /\ input \in Inputs
        /\ phase = "parse" /\ ahead = << >> /\ read = << >> /\ vals = << >>
        /\ calls = <<[fn |-> "statement_list", base |-> 0, from |-> 1]>>
        /\ ast = Nothing

\* lexer_peek needs another token: any of this text, or it is over.
AtEnd == \/ Len(read) + Len(ahead) >= input.max
         \/ Len(ahead) > 0 /\ ahead[Len(ahead)] = "EOF"
NextTokens == LET n == Len(read) + Len(ahead)
              IN CASE n < Len(input.start) -> {input.start[n + 1]}
                   [] n >= Len(input.start) /\ AtEnd  -> {"EOF"}
                   [] n >= Len(input.start) /\ ~AtEnd -> input.tokens \cup {"ERROR", "EOF"}
Peek == /\ phase = "parse" /\ calls # << >> /\ Len(ahead) < Lookahead
        /\ \E t \in NextTokens : ahead' = Append(ahead, t)
        /\ UNCHANGED <<input, phase, read, calls, vals, ast>>

Goes(to) == phase = "parse" /\ calls # << >> /\ Len(ahead) >= Lookahead /\ Wanted \in to

\* expect, or lexer_gettoken of a token already peeked at.
Consume == /\ Goes(Tokens) /\ ahead[1] = Wanted
           /\ ahead' = Tail(ahead) /\ read' = Append(read, Wanted)
           /\ vals' = Append(vals, [sym |-> Wanted, val |-> Len(read) + 1])
           /\ UNCHANGED <<input, phase, calls, ast>>

Call == /\ Goes(Rules) /\ calls' = <<Frame(Wanted)>> \o calls
        /\ UNCHANGED <<input, phase, ahead, read, vals, ast>>

Return == /\ Goes({"return"})
          /\ vals' = Append(SubSeq(vals, 1, Top.base),
                            [sym |-> Top.fn, val |-> Built(Top.fn, Parts, Top.from)])
          /\ calls' = Tail(calls)
          /\ UNCHANGED <<input, phase, ahead, read, ast>>

\* syntax_error, where the next token is not the one expected or none fits.
SyntaxError == /\ Goes(Tokens \cup {"syntax_error"}) /\ ahead[1] # Wanted
               /\ phase' = "syntax_error"
               /\ UNCHANGED <<input, ahead, read, calls, vals, ast>>

\* The two errors of parse_function_def.
Refusals == {"export_without_body", "extern_with_body"}
Refuse == /\ Goes(Refusals) /\ phase' = Wanted
          /\ UNCHANGED <<input, ahead, read, calls, vals, ast>>

parser_parse == /\ phase = "parse" /\ calls = << >>
                /\ phase' = "done" /\ ast' = <<ast_build_Block(vals[1].val)>>
                /\ UNCHANGED <<input, ahead, read, calls, vals>>

Exit == phase # "parse" /\ UNCHANGED vars

Next == Peek \/ Consume \/ Call \/ Return \/ SyntaxError \/ Refuse \/ parser_parse \/ Exit
Spec == Init /\ [][Next]_vars
-----------------------------------------------------------------------------
TypeOK ==
  /\ phase \in {"parse", "done", "syntax_error"} \cup Refusals
  /\ ahead \in Seq(Tokens \cup {"EOF", "ERROR"}) /\ Len(ahead) <= 2
  /\ read \in Seq(Tokens)
  /\ \A i \in 1..Len(calls) : calls[i].fn \in Rules /\ calls[i].base \in 0..Len(vals)
  /\ \A i \in 1..Len(vals) : vals[i].sym \in Tokens \cup Rules

Recognised == INSTANCE Derivation WITH
  read <- read, forest <- [i \in 1..Len(vals) |-> vals[i].sym], accepted <- phase = "done"

\* Whatever the parser accepts is a program of the grammar, and every function
\* returns having read what its rule says: all of the descent is a derivation.
ParserImplementsGrammar == Recognised!DerivationSpec
=============================================================================
