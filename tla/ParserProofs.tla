------------------------------ MODULE ParserProofs -----------------------------
(***************************************************************************)
(* The parser implements the grammar: every step of the descent is a shift *)
(* or a reduction of the derivation, or changes nothing of it.             *)
(*                                                                         *)
(* First, every function keeps to its rule, whatever the tokens it peeks   *)
(* at: what it has recognised is the beginning of a production, the symbol *)
(* it goes for continues one, and when it returns one is complete.         *)
(* `Begun' lists the beginnings; each lemma states, for every beginning,   *)
(* where the code goes from there.  Then the calls that have not returned  *)
(* fit together (IInv), and what they have recognised is the forest of the *)
(* derivation.                                                             *)
(***************************************************************************)
EXTENDS Parser, TLAPS, SequenceTheorems

Symbols == Tokens \cup Rules
-----------------------------------------------------------------------------
(* What each function may have recognised.                                 *)

statement_list_begun == {<< >>, <<"statement">>, <<"statement", "statement_list">>}
statement_begun == {<< >>, <<"function_def">>, <<"type_def">>, <<"var_def">>,
  <<"block_statement">>}
block_statement_begun == {<< >>, <<"assignment">>, <<"if_stmt">>, <<"while_stmt">>,
  <<"return_stmt">>, <<"break_stmt">>, <<"call_stmt">>}
function_def_begun == {<< >>, <<"function_header">>, <<"function_header", "body">>,
  <<"function_header", "SEMICOLON">>, <<"EXTERN">>, <<"EXTERN", "function_header">>,
  <<"EXTERN", "function_header", "body">>, <<"EXTERN", "function_header", "SEMICOLON">>,
  <<"EXPORT">>, <<"EXPORT", "function_header">>, <<"EXPORT", "function_header", "body">>,
  <<"EXPORT", "function_header", "SEMICOLON">>}
function_header_begun == {<< >>, <<"FUNC">>, <<"FUNC", "varname">>,
  <<"FUNC", "varname", "LPAREN">>, <<"FUNC", "varname", "LPAREN", "args">>,
  <<"FUNC", "varname", "LPAREN", "args", "RPAREN">>,
  <<"FUNC", "varname", "LPAREN", "args", "RPAREN", "COLON">>,
  <<"FUNC", "varname", "LPAREN", "args", "RPAREN", "COLON", "typename">>}
body_begun == {<< >>, <<"LCURLY">>, <<"LCURLY", "statement_list">>,
  <<"LCURLY", "statement_list", "RCURLY">>}
args_begun == {<< >>, <<"name_with_type">>, <<"name_with_type", "COMMA">>,
  <<"name_with_type", "COMMA", "args">>}
name_with_type_begun == {<< >>, <<"varname">>, <<"varname", "COLON">>,
  <<"varname", "COLON", "typename">>}
type_def_begun == {<< >>, <<"TYPE">>, <<"TYPE", "varname">>, <<"TYPE", "varname", "EQUALS">>,
  <<"TYPE", "varname", "EQUALS", "LCURLY">>,
  <<"TYPE", "varname", "EQUALS", "LCURLY", "type_list">>,
  <<"TYPE", "varname", "EQUALS", "LCURLY", "type_list", "RCURLY">>,
  <<"TYPE", "varname", "EQUALS", "typename">>,
  <<"TYPE", "varname", "EQUALS", "typename", "SEMICOLON">>, <<"TYPE", "varname", "SEMICOLON">>}
type_list_begun == {<< >>, <<"name_with_type">>, <<"name_with_type", "SEMICOLON">>,
  <<"name_with_type", "SEMICOLON", "type_list">>}
var_def_begun == {<< >>, <<"LET">>, <<"LET", "varname">>, <<"LET", "varname", "SEMICOLON">>,
  <<"LET", "varname", "COLON">>, <<"LET", "varname", "COLON", "typename">>,
  <<"LET", "varname", "COLON", "typename", "SEMICOLON">>, <<"LET", "varname", "EQUALS">>,
  <<"LET", "varname", "EQUALS", "expr">>, <<"LET", "varname", "EQUALS", "expr", "SEMICOLON">>,
  <<"LET", "varname", "COLON", "typename", "EQUALS">>,
  <<"LET", "varname", "COLON", "typename", "EQUALS", "expr">>,
  <<"LET", "varname", "COLON", "typename", "EQUALS", "expr", "SEMICOLON">>}
varname_begun == {<< >>, <<"ID">>}
typename_begun == {<< >>, <<"ID">>, <<"ID", "stars">>, <<"TYPE">>}
stars_begun == {<< >>, <<"STAR">>, <<"STAR", "stars">>}
expr_begun == {<< >>, <<"atom">>, <<"atom", "op">>, <<"atom", "op", "atom">>, <<"preop">>,
  <<"preop", "atom">>}
expr_list_begun == {<< >>, <<"expr">>, <<"expr", "COMMA">>, <<"expr", "COMMA", "expr_list">>}
literal_begun == {<< >>} \cup {<<x>> : x \in Literals}
atom_begun == {<< >>, <<"literal">>, <<"varname">>, <<"call_expr">>, <<"varname", "DOT">>,
  <<"varname", "DOT", "varname">>, <<"varname", "ARROW">>, <<"varname", "ARROW", "varname">>,
  <<"LPAREN">>, <<"LPAREN", "expr">>, <<"LPAREN", "expr", "RPAREN">>}
op_begun == {<< >>} \cup {<<x>> : x \in Operators}
preop_begun == {<< >>} \cup {<<x>> : x \in PrefixOperators}
call_stmt_begun == {<< >>, <<"call_expr">>, <<"call_expr", "SEMICOLON">>}
call_expr_begun == {<< >>, <<"varname">>, <<"varname", "LPAREN">>,
  <<"varname", "LPAREN", "expr_list">>, <<"varname", "LPAREN", "expr_list", "RPAREN">>}
name_assigned == {<<"varname">>, <<"varname", "EQUALS">>, <<"varname", "EQUALS", "expr">>,
  <<"varname", "EQUALS", "expr", "SEMICOLON">>}
dot_assigned == {<<"varname", "DOT">>, <<"varname", "DOT", "varname">>,
  <<"varname", "DOT", "varname", "EQUALS">>, <<"varname", "DOT", "varname", "EQUALS", "expr">>,
  <<"varname", "DOT", "varname", "EQUALS", "expr", "SEMICOLON">>}
arrow_assigned == {<<"varname", "ARROW">>, <<"varname", "ARROW", "varname">>,
  <<"varname", "ARROW", "varname", "EQUALS">>,
  <<"varname", "ARROW", "varname", "EQUALS", "expr">>,
  <<"varname", "ARROW", "varname", "EQUALS", "expr", "SEMICOLON">>}
star_name_assigned == {<<"STAR", "varname">>, <<"STAR", "varname", "EQUALS">>,
  <<"STAR", "varname", "EQUALS", "expr">>, <<"STAR", "varname", "EQUALS", "expr", "SEMICOLON">>}
star_dot_assigned == {<<"STAR", "varname", "DOT">>, <<"STAR", "varname", "DOT", "varname">>,
  <<"STAR", "varname", "DOT", "varname", "EQUALS">>,
  <<"STAR", "varname", "DOT", "varname", "EQUALS", "expr">>,
  <<"STAR", "varname", "DOT", "varname", "EQUALS", "expr", "SEMICOLON">>}
star_arrow_assigned == {<<"STAR", "varname", "ARROW">>,
  <<"STAR", "varname", "ARROW", "varname">>, <<"STAR", "varname", "ARROW", "varname", "EQUALS">>,
  <<"STAR", "varname", "ARROW", "varname", "EQUALS", "expr">>,
  <<"STAR", "varname", "ARROW", "varname", "EQUALS", "expr", "SEMICOLON">>}
assignment_begun == {<< >>, <<"STAR">>} \cup name_assigned \cup dot_assigned \cup arrow_assigned
  \cup star_name_assigned \cup star_dot_assigned \cup star_arrow_assigned
if_stmt_begun == {<< >>, <<"IF">>, <<"IF", "expr">>, <<"IF", "expr", "body">>,
  <<"IF", "expr", "body", "ELSE">>, <<"IF", "expr", "body", "ELSE", "body">>,
  <<"IF", "expr", "body", "ELSE", "if_stmt">>}
while_stmt_begun == {<< >>, <<"WHILE">>, <<"WHILE", "expr">>, <<"WHILE", "expr", "body">>}
return_stmt_begun == {<< >>, <<"RETURN">>, <<"RETURN", "SEMICOLON">>, <<"RETURN", "expr">>,
  <<"RETURN", "expr", "SEMICOLON">>}
break_stmt_begun == {<< >>, <<"BREAK">>, <<"BREAK", "SEMICOLON">>}

Begun ==
  [statement_list |-> statement_list_begun, statement |-> statement_begun,
   block_statement |-> block_statement_begun, function_def |-> function_def_begun,
   function_header |-> function_header_begun, body |-> body_begun, args |-> args_begun,
   name_with_type |-> name_with_type_begun, type_def |-> type_def_begun,
   type_list |-> type_list_begun, var_def |-> var_def_begun, varname |-> varname_begun,
   typename |-> typename_begun, stars |-> stars_begun, expr |-> expr_begun,
   expr_list |-> expr_list_begun, literal |-> literal_begun, atom |-> atom_begun,
   op |-> op_begun, preop |-> preop_begun, call_stmt |-> call_stmt_begun,
   call_expr |-> call_expr_begun, assignment |-> assignment_begun, if_stmt |-> if_stmt_begun,
   while_stmt |-> while_stmt_begun, return_stmt |-> return_stmt_begun,
   break_stmt |-> break_stmt_begun]

\* Append under a name of its own, so that a proof about it needs only ExtendedTuples.
Extended(g, m) == Append(g, m)

\* A function fn that has recognised g and goes for m keeps to its rule.
Sound(fn, g, m) == /\ m \in Symbols => Extended(g, m) \in Begun[fn]
                   /\ m = "return" => g \in Productions[fn]
-----------------------------------------------------------------------------
\* What a function does instead of going for a symbol is not the name of one.
LEMMA SymbolNames ==
  /\ "return" \notin Symbols /\ "syntax_error" \notin Symbols /\ "start" \notin Symbols
  /\ "export_without_body" \notin Symbols /\ "extern_with_body" \notin Symbols
BY DEF Symbols, Tokens, Rules, Productions, Literals, Operators, PrefixOperators

\* Append to a tuple of one.
LEMMA Append1 ==
  ASSUME NEW a, NEW b PROVE Append(<<a>>, b) = <<a, b>>
<1> DEFINE S == {a, b}
<1>1. <<a>> \in Seq(S) /\ <<a, b>> \in Seq(S) /\ b \in S
  OBVIOUS
<1>2. Append(<<a>>, b) \in Seq(S) /\ Len(Append(<<a>>, b)) = 2
  BY <1>1
<1>3. \A i \in 1..2 : Append(<<a>>, b)[i] = <<a, b>>[i]
  BY <1>1
<1> HIDE DEF S
<1> QED
  BY <1>1, <1>2, <1>3, SeqEqual

\* Append to a tuple of two.
LEMMA Append2 ==
  ASSUME NEW a, NEW b, NEW c PROVE Append(<<a, b>>, c) = <<a, b, c>>
<1> DEFINE S == {a, b, c}
<1>1. <<a, b>> \in Seq(S) /\ <<a, b, c>> \in Seq(S) /\ c \in S
  OBVIOUS
<1>2. Append(<<a, b>>, c) \in Seq(S) /\ Len(Append(<<a, b>>, c)) = 3
  BY <1>1
<1>3. \A i \in 1..3 : Append(<<a, b>>, c)[i] = <<a, b, c>>[i]
  BY <1>1
<1> HIDE DEF S
<1> QED
  BY <1>1, <1>2, <1>3, SeqEqual

\* Append to a tuple of three.
LEMMA Append3 ==
  ASSUME NEW a, NEW b, NEW c, NEW d PROVE Append(<<a, b, c>>, d) = <<a, b, c, d>>
<1> DEFINE S == {a, b, c, d}
<1>1. <<a, b, c>> \in Seq(S) /\ <<a, b, c, d>> \in Seq(S) /\ d \in S
  OBVIOUS
<1>2. Append(<<a, b, c>>, d) \in Seq(S) /\ Len(Append(<<a, b, c>>, d)) = 4
  BY <1>1
<1>3. \A i \in 1..4 : Append(<<a, b, c>>, d)[i] = <<a, b, c, d>>[i]
  BY <1>1
<1> HIDE DEF S
<1> QED
  BY <1>1, <1>2, <1>3, SeqEqual

\* Append to a tuple of four.
LEMMA Append4 ==
  ASSUME NEW a, NEW b, NEW c, NEW d, NEW e PROVE Append(<<a, b, c, d>>, e) = <<a, b, c, d, e>>
<1> DEFINE S == {a, b, c, d, e}
<1>1. <<a, b, c, d>> \in Seq(S) /\ <<a, b, c, d, e>> \in Seq(S) /\ e \in S
  OBVIOUS
<1>2. Append(<<a, b, c, d>>, e) \in Seq(S) /\ Len(Append(<<a, b, c, d>>, e)) = 5
  BY <1>1
<1>3. \A i \in 1..5 : Append(<<a, b, c, d>>, e)[i] = <<a, b, c, d, e>>[i]
  BY <1>1
<1> HIDE DEF S
<1> QED
  BY <1>1, <1>2, <1>3, SeqEqual

\* Append to a tuple of five.
LEMMA Append5 ==
  ASSUME NEW a, NEW b, NEW c, NEW d, NEW e, NEW f PROVE Append(<<a, b, c, d, e>>, f) = <<a, b, c, d, e, f>>
<1> DEFINE S == {a, b, c, d, e, f}
<1>1. <<a, b, c, d, e>> \in Seq(S) /\ <<a, b, c, d, e, f>> \in Seq(S) /\ f \in S
  OBVIOUS
<1>2. Append(<<a, b, c, d, e>>, f) \in Seq(S) /\ Len(Append(<<a, b, c, d, e>>, f)) = 6
  BY <1>1
<1>3. \A i \in 1..6 : Append(<<a, b, c, d, e>>, f)[i] = <<a, b, c, d, e, f>>[i]
  BY <1>1
<1> HIDE DEF S
<1> QED
  BY <1>1, <1>2, <1>3, SeqEqual

\* Append to a tuple of six.
LEMMA Append6 ==
  ASSUME NEW a, NEW b, NEW c, NEW d, NEW e, NEW f, NEW g PROVE Append(<<a, b, c, d, e, f>>, g) = <<a, b, c, d, e, f, g>>
<1> DEFINE S == {a, b, c, d, e, f, g}
<1>1. <<a, b, c, d, e, f>> \in Seq(S) /\ <<a, b, c, d, e, f, g>> \in Seq(S) /\ g \in S
  OBVIOUS
<1>2. Append(<<a, b, c, d, e, f>>, g) \in Seq(S) /\ Len(Append(<<a, b, c, d, e, f>>, g)) = 7
  BY <1>1
<1>3. \A i \in 1..7 : Append(<<a, b, c, d, e, f>>, g)[i] = <<a, b, c, d, e, f, g>>[i]
  BY <1>1
<1> HIDE DEF S
<1> QED
  BY <1>1, <1>2, <1>3, SeqEqual

\* The seven cases in one.
LEMMA ExtendedTuples ==
  /\ \A a : Extended(<< >>, a) = <<a>>
  /\ \A a, b : Extended(<<a>>, b) = <<a, b>>
  /\ \A a, b, c : Extended(<<a, b>>, c) = <<a, b, c>>
  /\ \A a, b, c, d : Extended(<<a, b, c>>, d) = <<a, b, c, d>>
  /\ \A a, b, c, d, e : Extended(<<a, b, c, d>>, e) = <<a, b, c, d, e>>
  /\ \A a, b, c, d, e, f : Extended(<<a, b, c, d, e>>, f) = <<a, b, c, d, e, f>>
  /\ \A a, b, c, d, e, f, g : Extended(<<a, b, c, d, e, f>>, g) = <<a, b, c, d, e, f, g>>
BY Append1, Append2, Append3, Append4, Append5, Append6 DEF Extended
-----------------------------------------------------------------------------
(* One lemma per function, in the order of the grammar.                    *)

\* A list goes on only where a statement may start; the end of one is anywhere else.
LEMMA StatementListSound ==
  ASSUME NEW g \in statement_list_begun, NEW t PROVE Sound("statement_list", g, parse_statement_list(g, t))
<1> DEFINE m == parse_statement_list(g, t)
<1>1. Productions["statement_list"] = {<< >>, <<"statement">>, <<"statement", "statement_list">>}
  BY DEF Productions
<1>2. Begun["statement_list"] = statement_list_begun
  BY DEF Begun
<1>3. /\ parse_statement_list(<< >>, t) \in {"statement", "return", "syntax_error"}
      /\ parse_statement_list(<<"statement">>, t) \in {"statement_list", "return"}
      /\ parse_statement_list(<<"statement", "statement_list">>, t) = "return"
  BY DEF parse_statement_list, InOrder, StartsStatement
<1>4. m \in Symbols => Extended(g, m) \in statement_list_begun
  BY <1>3, ExtendedTuples, SymbolNames DEF statement_list_begun
<1>5. m = "return" => g \in {<< >>, <<"statement">>, <<"statement", "statement_list">>}
  BY <1>3 DEF statement_list_begun
<1> QED
  BY <1>1, <1>2, <1>4, <1>5 DEF Sound

\* One token tells which kind of statement it is.
LEMMA StatementSound ==
  ASSUME NEW g \in statement_begun, NEW t PROVE Sound("statement", g, parse_statement(g, t))
<1> DEFINE m == parse_statement(g, t)
<1>1. Productions["statement"] = {<<"function_def">>, <<"type_def">>, <<"var_def">>,
       <<"block_statement">>}
  BY DEF Productions
<1>2. Begun["statement"] = statement_begun
  BY DEF Begun
<1>3. /\ parse_statement(<< >>, t) \in {"function_def", "type_def", "var_def", "block_statement"}
      /\ parse_statement(<<"function_def">>, t) = "return"
      /\ parse_statement(<<"type_def">>, t) = "return"
      /\ parse_statement(<<"var_def">>, t) = "return"
      /\ parse_statement(<<"block_statement">>, t) = "return"
  BY DEF parse_statement, InOrder, StatementKind
<1>4. m \in Symbols => Extended(g, m) \in statement_begun
  BY <1>3, ExtendedTuples, SymbolNames DEF statement_begun
<1>5. m = "return" => g \in {<<"function_def">>, <<"type_def">>, <<"var_def">>,
       <<"block_statement">>}
  BY <1>3 DEF statement_begun
<1> QED
  BY <1>1, <1>2, <1>4, <1>5 DEF Sound

\* Two tokens tell a call from an assignment.
LEMMA BlockStatementSound ==
  ASSUME NEW g \in block_statement_begun, NEW t, NEW u PROVE Sound("block_statement", g, parse_block_statement(g, t, u))
<1> DEFINE m == parse_block_statement(g, t, u)
<1>1. Productions["block_statement"] = {<<"assignment">>, <<"if_stmt">>, <<"while_stmt">>,
       <<"return_stmt">>, <<"break_stmt">>, <<"call_stmt">>}
  BY DEF Productions
<1>2. Begun["block_statement"] = block_statement_begun
  BY DEF Begun
<1>3. /\ parse_block_statement(<< >>, t, u) \in {"assignment", "if_stmt", "while_stmt", "return_stmt", "break_stmt", "call_stmt"}
      /\ parse_block_statement(<<"assignment">>, t, u) = "return"
      /\ parse_block_statement(<<"if_stmt">>, t, u) = "return"
      /\ parse_block_statement(<<"while_stmt">>, t, u) = "return"
      /\ parse_block_statement(<<"return_stmt">>, t, u) = "return"
      /\ parse_block_statement(<<"break_stmt">>, t, u) = "return"
      /\ parse_block_statement(<<"call_stmt">>, t, u) = "return"
  BY DEF parse_block_statement, InOrder, BlockStatementKind
<1>4. m \in Symbols => Extended(g, m) \in block_statement_begun
  BY <1>3, ExtendedTuples, SymbolNames DEF block_statement_begun
<1>5. m = "return" => g \in {<<"assignment">>, <<"if_stmt">>, <<"while_stmt">>,
       <<"return_stmt">>, <<"break_stmt">>, <<"call_stmt">>}
  BY <1>3 DEF block_statement_begun
<1> QED
  BY <1>1, <1>2, <1>4, <1>5 DEF Sound

\* Which end a function has depends on the qualifier, and two combinations are refused.
LEMMA FunctionDefSound ==
  ASSUME NEW g \in function_def_begun, NEW t PROVE Sound("function_def", g, parse_function_def(g, t))
<1> DEFINE m == parse_function_def(g, t)
<1>1. Productions["function_def"] = {<<"function_header", "body">>,
       <<"function_header", "SEMICOLON">>, <<"EXTERN", "function_header", "body">>,
       <<"EXTERN", "function_header", "SEMICOLON">>, <<"EXPORT", "function_header", "body">>,
       <<"EXPORT", "function_header", "SEMICOLON">>}
  BY DEF Productions
<1>2. Begun["function_def"] = function_def_begun
  BY DEF Begun
<1>3. /\ parse_function_def(<< >>, t) \in {"function_header", "EXTERN", "EXPORT"}
      /\ parse_function_def(<<"function_header">>, t) \in {"body", "SEMICOLON"}
      /\ parse_function_def(<<"function_header", "body">>, t) = "return"
      /\ parse_function_def(<<"function_header", "SEMICOLON">>, t) = "return"
      /\ parse_function_def(<<"EXTERN">>, t) = "function_header"
      /\ parse_function_def(<<"EXTERN", "function_header">>, t) \in {"body", "SEMICOLON", "extern_with_body"}
      /\ parse_function_def(<<"EXTERN", "function_header", "body">>, t) = "return"
      /\ parse_function_def(<<"EXTERN", "function_header", "SEMICOLON">>, t) = "return"
      /\ parse_function_def(<<"EXPORT">>, t) = "function_header"
      /\ parse_function_def(<<"EXPORT", "function_header">>, t) \in {"body", "SEMICOLON", "export_without_body"}
      /\ parse_function_def(<<"EXPORT", "function_header", "body">>, t) = "return"
      /\ parse_function_def(<<"EXPORT", "function_header", "SEMICOLON">>, t) = "return"
  BY DEF parse_function_def, Latest, FunctionEnd
<1>4. m \in Symbols => Extended(g, m) \in function_def_begun
  <2>1. CASE g \in {<< >>, <<"function_header">>}
    BY <1>3, <2>1, ExtendedTuples, SymbolNames DEF function_def_begun
  <2>2. CASE g \in {<<"function_header", "body">>, <<"function_header", "SEMICOLON">>}
    BY <1>3, <2>2, ExtendedTuples, SymbolNames DEF function_def_begun
  <2>3. CASE g \in {<<"EXTERN">>, <<"EXTERN", "function_header">>}
    BY <1>3, <2>3, ExtendedTuples, SymbolNames DEF function_def_begun
  <2>4. CASE g \in {<<"EXTERN", "function_header", "body">>,
         <<"EXTERN", "function_header", "SEMICOLON">>}
    BY <1>3, <2>4, ExtendedTuples, SymbolNames DEF function_def_begun
  <2>5. CASE g \in {<<"EXPORT">>, <<"EXPORT", "function_header">>}
    BY <1>3, <2>5, ExtendedTuples, SymbolNames DEF function_def_begun
  <2>6. CASE g \in {<<"EXPORT", "function_header", "body">>,
         <<"EXPORT", "function_header", "SEMICOLON">>}
    BY <1>3, <2>6, ExtendedTuples, SymbolNames DEF function_def_begun
  <2> QED
    BY <2>1, <2>2, <2>3, <2>4, <2>5, <2>6 DEF function_def_begun
<1>5. m = "return" => g \in {<<"function_header", "body">>,
       <<"function_header", "SEMICOLON">>, <<"EXTERN", "function_header", "body">>,
       <<"EXTERN", "function_header", "SEMICOLON">>, <<"EXPORT", "function_header", "body">>,
       <<"EXPORT", "function_header", "SEMICOLON">>}
  BY <1>3 DEF function_def_begun
<1> QED
  BY <1>1, <1>2, <1>4, <1>5 DEF Sound

\* The header of a function is one sequence.
LEMMA FunctionHeaderSound ==
  ASSUME NEW g \in function_header_begun PROVE Sound("function_header", g, parse_function_header(g))
<1> DEFINE m == parse_function_header(g)
<1>1. Productions["function_header"] = {
       <<"FUNC", "varname", "LPAREN", "args", "RPAREN", "COLON", "typename">>}
  BY DEF Productions
<1>2. Begun["function_header"] = function_header_begun
  BY DEF Begun
<1>3. /\ parse_function_header(<< >>) = "FUNC"
      /\ parse_function_header(<<"FUNC">>) = "varname"
      /\ parse_function_header(<<"FUNC", "varname">>) = "LPAREN"
      /\ parse_function_header(<<"FUNC", "varname", "LPAREN">>) = "args"
      /\ parse_function_header(<<"FUNC", "varname", "LPAREN", "args">>) = "RPAREN"
      /\ parse_function_header(<<"FUNC", "varname", "LPAREN", "args", "RPAREN">>) = "COLON"
      /\ parse_function_header(<<"FUNC", "varname", "LPAREN", "args", "RPAREN", "COLON">>) = "typename"
      /\ parse_function_header(<<"FUNC", "varname", "LPAREN", "args", "RPAREN", "COLON", "typename">>) = "return"
  BY DEF parse_function_header, InOrder
<1>4. m \in Symbols => Extended(g, m) \in function_header_begun
  BY <1>3, ExtendedTuples, SymbolNames DEF function_header_begun
<1>5. m = "return" => g \in {
       <<"FUNC", "varname", "LPAREN", "args", "RPAREN", "COLON", "typename">>}
  BY <1>3 DEF function_header_begun
<1> QED
  BY <1>1, <1>2, <1>4, <1>5 DEF Sound

\* A body is one sequence.
LEMMA BodySound ==
  ASSUME NEW g \in body_begun PROVE Sound("body", g, parse_body(g))
<1> DEFINE m == parse_body(g)
<1>1. Productions["body"] = {<<"LCURLY", "statement_list", "RCURLY">>}
  BY DEF Productions
<1>2. Begun["body"] = body_begun
  BY DEF Begun
<1>3. /\ parse_body(<< >>) = "LCURLY"
      /\ parse_body(<<"LCURLY">>) = "statement_list"
      /\ parse_body(<<"LCURLY", "statement_list">>) = "RCURLY"
      /\ parse_body(<<"LCURLY", "statement_list", "RCURLY">>) = "return"
  BY DEF parse_body, InOrder
<1>4. m \in Symbols => Extended(g, m) \in body_begun
  BY <1>3, ExtendedTuples, SymbolNames DEF body_begun
<1>5. m = "return" => g \in {<<"LCURLY", "statement_list", "RCURLY">>}
  BY <1>3 DEF body_begun
<1> QED
  BY <1>1, <1>2, <1>4, <1>5 DEF Sound

\* An argument, and more of them behind a comma.
LEMMA ArgsSound ==
  ASSUME NEW g \in args_begun, NEW t PROVE Sound("args", g, parse_args(g, t))
<1> DEFINE m == parse_args(g, t)
<1>1. Productions["args"] = {<< >>, <<"name_with_type">>, <<"name_with_type", "COMMA", "args">>}
  BY DEF Productions
<1>2. Begun["args"] = args_begun
  BY DEF Begun
<1>3. /\ parse_args(<< >>, t) \in {"name_with_type", "return"}
      /\ parse_args(<<"name_with_type">>, t) \in {"COMMA", "return"}
      /\ parse_args(<<"name_with_type", "COMMA">>, t) = "args"
      /\ parse_args(<<"name_with_type", "COMMA", "args">>, t) = "return"
  BY DEF parse_args, InOrder
<1>4. m \in Symbols => Extended(g, m) \in args_begun
  BY <1>3, ExtendedTuples, SymbolNames DEF args_begun
<1>5. m = "return" => g \in {<< >>, <<"name_with_type">>, <<"name_with_type", "COMMA", "args">>}
  BY <1>3 DEF args_begun
<1> QED
  BY <1>1, <1>2, <1>4, <1>5 DEF Sound

\* A name with a type is one sequence.
LEMMA NameWithTypeSound ==
  ASSUME NEW g \in name_with_type_begun PROVE Sound("name_with_type", g, parse_name_with_type(g))
<1> DEFINE m == parse_name_with_type(g)
<1>1. Productions["name_with_type"] = {<<"varname", "COLON", "typename">>}
  BY DEF Productions
<1>2. Begun["name_with_type"] = name_with_type_begun
  BY DEF Begun
<1>3. /\ parse_name_with_type(<< >>) = "varname"
      /\ parse_name_with_type(<<"varname">>) = "COLON"
      /\ parse_name_with_type(<<"varname", "COLON">>) = "typename"
      /\ parse_name_with_type(<<"varname", "COLON", "typename">>) = "return"
  BY DEF parse_name_with_type, InOrder
<1>4. m \in Symbols => Extended(g, m) \in name_with_type_begun
  BY <1>3, ExtendedTuples, SymbolNames DEF name_with_type_begun
<1>5. m = "return" => g \in {<<"varname", "COLON", "typename">>}
  BY <1>3 DEF name_with_type_begun
<1> QED
  BY <1>1, <1>2, <1>4, <1>5 DEF Sound

\* Three kinds of type, told apart behind the name.
LEMMA TypeDefSound ==
  ASSUME NEW g \in type_def_begun, NEW t PROVE Sound("type_def", g, parse_type_def(g, t))
<1> DEFINE m == parse_type_def(g, t)
<1>1. Productions["type_def"] = {
       <<"TYPE", "varname", "EQUALS", "LCURLY", "type_list", "RCURLY">>,
       <<"TYPE", "varname", "EQUALS", "typename", "SEMICOLON">>,
       <<"TYPE", "varname", "SEMICOLON">>}
  BY DEF Productions
<1>2. Begun["type_def"] = type_def_begun
  BY DEF Begun
<1>3. /\ parse_type_def(<< >>, t) = "TYPE"
      /\ parse_type_def(<<"TYPE">>, t) = "varname"
      /\ parse_type_def(<<"TYPE", "varname">>, t) \in {"EQUALS", "SEMICOLON"}
      /\ parse_type_def(<<"TYPE", "varname", "EQUALS">>, t) \in {"LCURLY", "typename"}
      /\ parse_type_def(<<"TYPE", "varname", "EQUALS", "LCURLY">>, t) = "type_list"
      /\ parse_type_def(<<"TYPE", "varname", "EQUALS", "LCURLY", "type_list">>, t) = "RCURLY"
      /\ parse_type_def(<<"TYPE", "varname", "EQUALS", "LCURLY", "type_list", "RCURLY">>, t) = "return"
      /\ parse_type_def(<<"TYPE", "varname", "EQUALS", "typename">>, t) = "SEMICOLON"
      /\ parse_type_def(<<"TYPE", "varname", "EQUALS", "typename", "SEMICOLON">>, t) = "return"
      /\ parse_type_def(<<"TYPE", "varname", "SEMICOLON">>, t) = "return"
  BY DEF parse_type_def, Latest
<1>4. m \in Symbols => Extended(g, m) \in type_def_begun
  BY <1>3, ExtendedTuples, SymbolNames DEF type_def_begun
<1>5. m = "return" => g \in {
       <<"TYPE", "varname", "EQUALS", "LCURLY", "type_list", "RCURLY">>,
       <<"TYPE", "varname", "EQUALS", "typename", "SEMICOLON">>,
       <<"TYPE", "varname", "SEMICOLON">>}
  BY <1>3 DEF type_def_begun
<1> QED
  BY <1>1, <1>2, <1>4, <1>5 DEF Sound

\* A field, and more of them while a name follows.
LEMMA TypeListSound ==
  ASSUME NEW g \in type_list_begun, NEW t PROVE Sound("type_list", g, parse_type_list(g, t))
<1> DEFINE m == parse_type_list(g, t)
<1>1. Productions["type_list"] = {<< >>, <<"name_with_type", "SEMICOLON", "type_list">>}
  BY DEF Productions
<1>2. Begun["type_list"] = type_list_begun
  BY DEF Begun
<1>3. /\ parse_type_list(<< >>, t) \in {"name_with_type", "return"}
      /\ parse_type_list(<<"name_with_type">>, t) = "SEMICOLON"
      /\ parse_type_list(<<"name_with_type", "SEMICOLON">>, t) = "type_list"
      /\ parse_type_list(<<"name_with_type", "SEMICOLON", "type_list">>, t) = "return"
  BY DEF parse_type_list, InOrder
<1>4. m \in Symbols => Extended(g, m) \in type_list_begun
  BY <1>3, ExtendedTuples, SymbolNames DEF type_list_begun
<1>5. m = "return" => g \in {<< >>, <<"name_with_type", "SEMICOLON", "type_list">>}
  BY <1>3 DEF type_list_begun
<1> QED
  BY <1>1, <1>2, <1>4, <1>5 DEF Sound

\* A type, a value, both or neither.
LEMMA VarDefSound ==
  ASSUME NEW g \in var_def_begun, NEW t PROVE Sound("var_def", g, parse_var_def(g, t))
<1> DEFINE m == parse_var_def(g, t)
<1>1. Productions["var_def"] = {<<"LET", "varname", "SEMICOLON">>,
       <<"LET", "varname", "COLON", "typename", "SEMICOLON">>,
       <<"LET", "varname", "EQUALS", "expr", "SEMICOLON">>,
       <<"LET", "varname", "COLON", "typename", "EQUALS", "expr", "SEMICOLON">>}
  BY DEF Productions
<1>2. Begun["var_def"] = var_def_begun
  BY DEF Begun
<1>3. /\ parse_var_def(<< >>, t) = "LET"
      /\ parse_var_def(<<"LET">>, t) = "varname"
      /\ parse_var_def(<<"LET", "varname">>, t) \in {"SEMICOLON", "COLON", "EQUALS"}
      /\ parse_var_def(<<"LET", "varname", "SEMICOLON">>, t) = "return"
      /\ parse_var_def(<<"LET", "varname", "COLON">>, t) = "typename"
      /\ parse_var_def(<<"LET", "varname", "COLON", "typename">>, t) \in {"SEMICOLON", "EQUALS"}
      /\ parse_var_def(<<"LET", "varname", "COLON", "typename", "SEMICOLON">>, t) = "return"
      /\ parse_var_def(<<"LET", "varname", "EQUALS">>, t) = "expr"
      /\ parse_var_def(<<"LET", "varname", "EQUALS", "expr">>, t) = "SEMICOLON"
      /\ parse_var_def(<<"LET", "varname", "EQUALS", "expr", "SEMICOLON">>, t) = "return"
      /\ parse_var_def(<<"LET", "varname", "COLON", "typename", "EQUALS">>, t) = "expr"
      /\ parse_var_def(<<"LET", "varname", "COLON", "typename", "EQUALS", "expr">>, t) = "SEMICOLON"
      /\ parse_var_def(<<"LET", "varname", "COLON", "typename", "EQUALS", "expr", "SEMICOLON">>, t) = "return"
  BY DEF parse_var_def, Latest
<1>4. m \in Symbols => Extended(g, m) \in var_def_begun
  BY <1>3, ExtendedTuples, SymbolNames DEF var_def_begun
<1>5. m = "return" => g \in {<<"LET", "varname", "SEMICOLON">>,
       <<"LET", "varname", "COLON", "typename", "SEMICOLON">>,
       <<"LET", "varname", "EQUALS", "expr", "SEMICOLON">>,
       <<"LET", "varname", "COLON", "typename", "EQUALS", "expr", "SEMICOLON">>}
  BY <1>3 DEF var_def_begun
<1> QED
  BY <1>1, <1>2, <1>4, <1>5 DEF Sound

\* A name is one token.
LEMMA VarnameSound ==
  ASSUME NEW g \in varname_begun PROVE Sound("varname", g, parse_varname(g))
<1> DEFINE m == parse_varname(g)
<1>1. Productions["varname"] = {<<"ID">>}
  BY DEF Productions
<1>2. Begun["varname"] = varname_begun
  BY DEF Begun
<1>3. /\ parse_varname(<< >>) = "ID"
      /\ parse_varname(<<"ID">>) = "return"
  BY DEF parse_varname, InOrder
<1>4. m \in Symbols => Extended(g, m) \in varname_begun
  BY <1>3, ExtendedTuples, SymbolNames DEF varname_begun
<1>5. m = "return" => g \in {<<"ID">>}
  BY <1>3 DEF varname_begun
<1> QED
  BY <1>1, <1>2, <1>4, <1>5 DEF Sound

\* The word `type', or a name and its stars.
LEMMA TypenameSound ==
  ASSUME NEW g \in typename_begun, NEW t PROVE Sound("typename", g, parse_typename(g, t))
<1> DEFINE m == parse_typename(g, t)
<1>1. Productions["typename"] = {<<"ID", "stars">>, <<"TYPE">>}
  BY DEF Productions
<1>2. Begun["typename"] = typename_begun
  BY DEF Begun
<1>3. /\ parse_typename(<< >>, t) \in {"ID", "TYPE"}
      /\ parse_typename(<<"ID">>, t) = "stars"
      /\ parse_typename(<<"ID", "stars">>, t) = "return"
      /\ parse_typename(<<"TYPE">>, t) = "return"
  BY DEF parse_typename, Latest
<1>4. m \in Symbols => Extended(g, m) \in typename_begun
  BY <1>3, ExtendedTuples, SymbolNames DEF typename_begun
<1>5. m = "return" => g \in {<<"ID", "stars">>, <<"TYPE">>}
  BY <1>3 DEF typename_begun
<1> QED
  BY <1>1, <1>2, <1>4, <1>5 DEF Sound

\* As many stars as there are.
LEMMA StarsSound ==
  ASSUME NEW g \in stars_begun, NEW t PROVE Sound("stars", g, Stars(g, t))
<1> DEFINE m == Stars(g, t)
<1>1. Productions["stars"] = {<< >>, <<"STAR", "stars">>}
  BY DEF Productions
<1>2. Begun["stars"] = stars_begun
  BY DEF Begun
<1>3. /\ Stars(<< >>, t) \in {"STAR", "return"}
      /\ Stars(<<"STAR">>, t) = "stars"
      /\ Stars(<<"STAR", "stars">>, t) = "return"
  BY DEF Stars, InOrder
<1>4. m \in Symbols => Extended(g, m) \in stars_begun
  BY <1>3, ExtendedTuples, SymbolNames DEF stars_begun
<1>5. m = "return" => g \in {<< >>, <<"STAR", "stars">>}
  BY <1>3 DEF stars_begun
<1> QED
  BY <1>1, <1>2, <1>4, <1>5 DEF Sound

\* One operator at most.
LEMMA ExprSound ==
  ASSUME NEW g \in expr_begun, NEW t PROVE Sound("expr", g, parse_expr(g, t))
<1> DEFINE m == parse_expr(g, t)
<1>1. Productions["expr"] = {<<"atom">>, <<"atom", "op", "atom">>, <<"preop", "atom">>}
  BY DEF Productions
<1>2. Begun["expr"] = expr_begun
  BY DEF Begun
<1>3. /\ parse_expr(<< >>, t) \in {"atom", "preop"}
      /\ parse_expr(<<"atom">>, t) \in {"op", "return"}
      /\ parse_expr(<<"atom", "op">>, t) = "atom"
      /\ parse_expr(<<"atom", "op", "atom">>, t) = "return"
      /\ parse_expr(<<"preop">>, t) = "atom"
      /\ parse_expr(<<"preop", "atom">>, t) = "return"
  BY DEF parse_expr, Latest, Operators, is_preop
<1>4. m \in Symbols => Extended(g, m) \in expr_begun
  BY <1>3, ExtendedTuples, SymbolNames DEF expr_begun
<1>5. m = "return" => g \in {<<"atom">>, <<"atom", "op", "atom">>, <<"preop", "atom">>}
  BY <1>3 DEF expr_begun
<1> QED
  BY <1>1, <1>2, <1>4, <1>5 DEF Sound

\* Nothing, where no expression can start, or expressions and commas.
LEMMA ExprListSound ==
  ASSUME NEW g \in expr_list_begun, NEW t PROVE Sound("expr_list", g, parse_expr_list(g, t))
<1> DEFINE m == parse_expr_list(g, t)
<1>1. Productions["expr_list"] = {<< >>, <<"expr">>, <<"expr", "COMMA", "expr_list">>}
  BY DEF Productions
<1>2. Begun["expr_list"] = expr_list_begun
  BY DEF Begun
<1>3. /\ parse_expr_list(<< >>, t) \in {"expr", "return"}
      /\ parse_expr_list(<<"expr">>, t) \in {"COMMA", "return"}
      /\ parse_expr_list(<<"expr", "COMMA">>, t) = "expr_list"
      /\ parse_expr_list(<<"expr", "COMMA", "expr_list">>, t) = "return"
  BY DEF parse_expr_list, InOrder
<1>4. m \in Symbols => Extended(g, m) \in expr_list_begun
  BY <1>3, ExtendedTuples, SymbolNames DEF expr_list_begun
<1>5. m = "return" => g \in {<< >>, <<"expr">>, <<"expr", "COMMA", "expr_list">>}
  BY <1>3 DEF expr_list_begun
<1> QED
  BY <1>1, <1>2, <1>4, <1>5 DEF Sound

\* A literal is one token.
LEMMA LiteralSound ==
  ASSUME NEW g \in literal_begun, NEW t PROVE Sound("literal", g, parse_literal(g, t))
<1> DEFINE m == parse_literal(g, t)
<1>1. Productions["literal"] = {<<x>> : x \in Literals}
  BY DEF Productions
<1>2. Begun["literal"] = literal_begun
  BY DEF Begun
<1>3. /\ parse_literal(<< >>, t) \in Literals \cup {"syntax_error"}
      /\ \A s : parse_literal(<<s>>, t) = "return"
  BY DEF parse_literal, InOrder, is_literal
<1>4. m \in Symbols => Extended(g, m) \in literal_begun
  BY <1>3, ExtendedTuples, SymbolNames DEF literal_begun
<1>5. m = "return" => g \in {<<x>> : x \in Literals}
  BY <1>3, SymbolNames DEF literal_begun, Symbols, Tokens
<1> QED
  BY <1>1, <1>2, <1>4, <1>5 DEF Sound

\* Two tokens tell a call from a name; a field may follow a name only.
LEMMA AtomSound ==
  ASSUME NEW g \in atom_begun, NEW t, NEW u PROVE Sound("atom", g, parse_atom(g, t, u))
<1> DEFINE m == parse_atom(g, t, u)
<1>1. Productions["atom"] = {<<"literal">>, <<"varname">>, <<"call_expr">>,
       <<"varname", "DOT", "varname">>, <<"varname", "ARROW", "varname">>,
       <<"LPAREN", "expr", "RPAREN">>}
  BY DEF Productions
<1>2. Begun["atom"] = atom_begun
  BY DEF Begun
<1>3. /\ parse_atom(<< >>, t, u) \in {"literal", "varname", "call_expr", "LPAREN", "syntax_error"}
      /\ parse_atom(<<"literal">>, t, u) = "return"
      /\ parse_atom(<<"varname">>, t, u) \in {"DOT", "ARROW", "return"}
      /\ parse_atom(<<"call_expr">>, t, u) = "return"
      /\ parse_atom(<<"varname", "DOT">>, t, u) = "varname"
      /\ parse_atom(<<"varname", "DOT", "varname">>, t, u) = "return"
      /\ parse_atom(<<"varname", "ARROW">>, t, u) = "varname"
      /\ parse_atom(<<"varname", "ARROW", "varname">>, t, u) = "return"
      /\ parse_atom(<<"LPAREN">>, t, u) = "expr"
      /\ parse_atom(<<"LPAREN", "expr">>, t, u) = "RPAREN"
      /\ parse_atom(<<"LPAREN", "expr", "RPAREN">>, t, u) = "return"
  BY DEF parse_atom, Latest, AtomKind
<1>4. m \in Symbols => Extended(g, m) \in atom_begun
  BY <1>3, ExtendedTuples, SymbolNames DEF atom_begun
<1>5. m = "return" => g \in {<<"literal">>, <<"varname">>, <<"call_expr">>,
       <<"varname", "DOT", "varname">>, <<"varname", "ARROW", "varname">>,
       <<"LPAREN", "expr", "RPAREN">>}
  BY <1>3 DEF atom_begun
<1> QED
  BY <1>1, <1>2, <1>4, <1>5 DEF Sound

\* An operator is one token.
LEMMA OpSound ==
  ASSUME NEW g \in op_begun, NEW t PROVE Sound("op", g, parse_op(g, t))
<1> DEFINE m == parse_op(g, t)
<1>1. Productions["op"] = {<<x>> : x \in Operators}
  BY DEF Productions
<1>2. Begun["op"] = op_begun
  BY DEF Begun
<1>3. /\ parse_op(<< >>, t) \in Operators \cup {"syntax_error"}
      /\ \A s : parse_op(<<s>>, t) = "return"
  BY DEF parse_op, InOrder
<1>4. m \in Symbols => Extended(g, m) \in op_begun
  BY <1>3, ExtendedTuples, SymbolNames DEF op_begun
<1>5. m = "return" => g \in {<<x>> : x \in Operators}
  BY <1>3, SymbolNames DEF op_begun, Symbols, Tokens
<1> QED
  BY <1>1, <1>2, <1>4, <1>5 DEF Sound

\* A prefix operator is one token.
LEMMA PreopSound ==
  ASSUME NEW g \in preop_begun, NEW t PROVE Sound("preop", g, parse_preop(g, t))
<1> DEFINE m == parse_preop(g, t)
<1>1. Productions["preop"] = {<<x>> : x \in PrefixOperators}
  BY DEF Productions
<1>2. Begun["preop"] = preop_begun
  BY DEF Begun
<1>3. /\ parse_preop(<< >>, t) \in PrefixOperators \cup {"syntax_error"}
      /\ \A s : parse_preop(<<s>>, t) = "return"
  BY DEF parse_preop, InOrder, is_preop
<1>4. m \in Symbols => Extended(g, m) \in preop_begun
  BY <1>3, ExtendedTuples, SymbolNames DEF preop_begun
<1>5. m = "return" => g \in {<<x>> : x \in PrefixOperators}
  BY <1>3, SymbolNames DEF preop_begun, Symbols, Tokens
<1> QED
  BY <1>1, <1>2, <1>4, <1>5 DEF Sound

\* A call and a semicolon.
LEMMA CallStmtSound ==
  ASSUME NEW g \in call_stmt_begun PROVE Sound("call_stmt", g, parse_call_stmt(g))
<1> DEFINE m == parse_call_stmt(g)
<1>1. Productions["call_stmt"] = {<<"call_expr", "SEMICOLON">>}
  BY DEF Productions
<1>2. Begun["call_stmt"] = call_stmt_begun
  BY DEF Begun
<1>3. /\ parse_call_stmt(<< >>) = "call_expr"
      /\ parse_call_stmt(<<"call_expr">>) = "SEMICOLON"
      /\ parse_call_stmt(<<"call_expr", "SEMICOLON">>) = "return"
  BY DEF parse_call_stmt, InOrder
<1>4. m \in Symbols => Extended(g, m) \in call_stmt_begun
  BY <1>3, ExtendedTuples, SymbolNames DEF call_stmt_begun
<1>5. m = "return" => g \in {<<"call_expr", "SEMICOLON">>}
  BY <1>3 DEF call_stmt_begun
<1> QED
  BY <1>1, <1>2, <1>4, <1>5 DEF Sound

\* A call is one sequence.
LEMMA CallExprSound ==
  ASSUME NEW g \in call_expr_begun PROVE Sound("call_expr", g, parse_call_expr(g))
<1> DEFINE m == parse_call_expr(g)
<1>1. Productions["call_expr"] = {<<"varname", "LPAREN", "expr_list", "RPAREN">>}
  BY DEF Productions
<1>2. Begun["call_expr"] = call_expr_begun
  BY DEF Begun
<1>3. /\ parse_call_expr(<< >>) = "varname"
      /\ parse_call_expr(<<"varname">>) = "LPAREN"
      /\ parse_call_expr(<<"varname", "LPAREN">>) = "expr_list"
      /\ parse_call_expr(<<"varname", "LPAREN", "expr_list">>) = "RPAREN"
      /\ parse_call_expr(<<"varname", "LPAREN", "expr_list", "RPAREN">>) = "return"
  BY DEF parse_call_expr, InOrder
<1>4. m \in Symbols => Extended(g, m) \in call_expr_begun
  BY <1>3, ExtendedTuples, SymbolNames DEF call_expr_begun
<1>5. m = "return" => g \in {<<"varname", "LPAREN", "expr_list", "RPAREN">>}
  BY <1>3 DEF call_expr_begun
<1> QED
  BY <1>1, <1>2, <1>4, <1>5 DEF Sound

\* A star or none, a field or none: six kinds of left-hand side.
LEMMA AssignmentSound ==
  ASSUME NEW g \in assignment_begun, NEW t PROVE Sound("assignment", g, parse_assignment(g, t))
<1> DEFINE m == parse_assignment(g, t)
<1>1. Productions["assignment"] = {<<"varname", "EQUALS", "expr", "SEMICOLON">>,
       <<"varname", "DOT", "varname", "EQUALS", "expr", "SEMICOLON">>,
       <<"varname", "ARROW", "varname", "EQUALS", "expr", "SEMICOLON">>,
       <<"STAR", "varname", "EQUALS", "expr", "SEMICOLON">>,
       <<"STAR", "varname", "DOT", "varname", "EQUALS", "expr", "SEMICOLON">>,
       <<"STAR", "varname", "ARROW", "varname", "EQUALS", "expr", "SEMICOLON">>}
  BY DEF Productions
<1>2. Begun["assignment"] = assignment_begun
  BY DEF Begun
<1>3. CASE g \in {<< >>, <<"STAR">>}
  <2>1. /\ parse_assignment(<< >>, t) \in {"varname", "STAR"}
        /\ parse_assignment(<<"STAR">>, t) = "varname"
    BY DEF parse_assignment, Latest
  <2>2. m \in Symbols => Extended(g, m) \in {<<"STAR">>} \cup name_assigned \cup star_name_assigned
    BY <1>3, <2>1, ExtendedTuples, SymbolNames DEF name_assigned, star_name_assigned
  <2>3. m = "return" => g \in {}
    BY <1>3, <2>1
  <2> QED
    BY <1>1, <1>2, <2>2, <2>3 DEF assignment_begun, Sound
<1>4. CASE g \in name_assigned
  <2>1. /\ parse_assignment(<<"varname">>, t) \in {"EQUALS", "DOT", "ARROW"}
        /\ parse_assignment(<<"varname", "EQUALS">>, t) = "expr"
        /\ parse_assignment(<<"varname", "EQUALS", "expr">>, t) = "SEMICOLON"
        /\ parse_assignment(<<"varname", "EQUALS", "expr", "SEMICOLON">>, t) = "return"
    BY DEF parse_assignment, Latest
  <2>2. m \in Symbols => Extended(g, m) \in name_assigned \cup dot_assigned \cup arrow_assigned
    BY <1>4, <2>1, ExtendedTuples, SymbolNames DEF name_assigned, dot_assigned, arrow_assigned
  <2>3. m = "return" => g = <<"varname", "EQUALS", "expr", "SEMICOLON">>
    BY <1>4, <2>1 DEF name_assigned
  <2> QED
    BY <1>1, <1>2, <2>2, <2>3 DEF assignment_begun, Sound
<1>5. CASE g \in dot_assigned
  <2>1. /\ parse_assignment(<<"varname", "DOT">>, t) = "varname"
        /\ parse_assignment(<<"varname", "DOT", "varname">>, t) = "EQUALS"
        /\ parse_assignment(<<"varname", "DOT", "varname", "EQUALS">>, t) = "expr"
        /\ parse_assignment(<<"varname", "DOT", "varname", "EQUALS", "expr">>, t) = "SEMICOLON"
        /\ parse_assignment(<<"varname", "DOT", "varname", "EQUALS", "expr", "SEMICOLON">>, t) = "return"
    BY DEF parse_assignment, Latest
  <2>2. m \in Symbols => Extended(g, m) \in dot_assigned
    BY <1>5, <2>1, ExtendedTuples, SymbolNames DEF dot_assigned
  <2>3. m = "return" => g = <<"varname", "DOT", "varname", "EQUALS", "expr", "SEMICOLON">>
    BY <1>5, <2>1 DEF dot_assigned
  <2> QED
    BY <1>1, <1>2, <2>2, <2>3 DEF assignment_begun, Sound
<1>6. CASE g \in arrow_assigned
  <2>1. /\ parse_assignment(<<"varname", "ARROW">>, t) = "varname"
        /\ parse_assignment(<<"varname", "ARROW", "varname">>, t) = "EQUALS"
        /\ parse_assignment(<<"varname", "ARROW", "varname", "EQUALS">>, t) = "expr"
        /\ parse_assignment(<<"varname", "ARROW", "varname", "EQUALS", "expr">>, t) = "SEMICOLON"
        /\ parse_assignment(<<"varname", "ARROW", "varname", "EQUALS", "expr", "SEMICOLON">>, t) = "return"
    BY DEF parse_assignment, Latest
  <2>2. m \in Symbols => Extended(g, m) \in arrow_assigned
    BY <1>6, <2>1, ExtendedTuples, SymbolNames DEF arrow_assigned
  <2>3. m = "return" => g = <<"varname", "ARROW", "varname", "EQUALS", "expr", "SEMICOLON">>
    BY <1>6, <2>1 DEF arrow_assigned
  <2> QED
    BY <1>1, <1>2, <2>2, <2>3 DEF assignment_begun, Sound
<1>7. CASE g \in star_name_assigned
  <2>1. /\ parse_assignment(<<"STAR", "varname">>, t) \in {"EQUALS", "DOT", "ARROW"}
        /\ parse_assignment(<<"STAR", "varname", "EQUALS">>, t) = "expr"
        /\ parse_assignment(<<"STAR", "varname", "EQUALS", "expr">>, t) = "SEMICOLON"
        /\ parse_assignment(<<"STAR", "varname", "EQUALS", "expr", "SEMICOLON">>, t) = "return"
    BY DEF parse_assignment, Latest
  <2>2. m \in Symbols => Extended(g, m) \in star_name_assigned \cup star_dot_assigned \cup star_arrow_assigned
    BY <1>7, <2>1, ExtendedTuples, SymbolNames DEF star_name_assigned, star_dot_assigned, star_arrow_assigned
  <2>3. m = "return" => g = <<"STAR", "varname", "EQUALS", "expr", "SEMICOLON">>
    BY <1>7, <2>1 DEF star_name_assigned
  <2> QED
    BY <1>1, <1>2, <2>2, <2>3 DEF assignment_begun, Sound
<1>8. CASE g \in star_dot_assigned
  <2>1. /\ parse_assignment(<<"STAR", "varname", "DOT">>, t) = "varname"
        /\ parse_assignment(<<"STAR", "varname", "DOT", "varname">>, t) = "EQUALS"
        /\ parse_assignment(<<"STAR", "varname", "DOT", "varname", "EQUALS">>, t) = "expr"
        /\ parse_assignment(<<"STAR", "varname", "DOT", "varname", "EQUALS", "expr">>, t) = "SEMICOLON"
        /\ parse_assignment(<<"STAR", "varname", "DOT", "varname", "EQUALS", "expr", "SEMICOLON">>, t) = "return"
    BY DEF parse_assignment, Latest
  <2>2. m \in Symbols => Extended(g, m) \in star_dot_assigned
    BY <1>8, <2>1, ExtendedTuples, SymbolNames DEF star_dot_assigned
  <2>3. m = "return" => g = <<"STAR", "varname", "DOT", "varname", "EQUALS", "expr", "SEMICOLON">>
    BY <1>8, <2>1 DEF star_dot_assigned
  <2> QED
    BY <1>1, <1>2, <2>2, <2>3 DEF assignment_begun, Sound
<1>9. CASE g \in star_arrow_assigned
  <2>1. /\ parse_assignment(<<"STAR", "varname", "ARROW">>, t) = "varname"
        /\ parse_assignment(<<"STAR", "varname", "ARROW", "varname">>, t) = "EQUALS"
        /\ parse_assignment(<<"STAR", "varname", "ARROW", "varname", "EQUALS">>, t) = "expr"
        /\ parse_assignment(<<"STAR", "varname", "ARROW", "varname", "EQUALS", "expr">>, t) = "SEMICOLON"
        /\ parse_assignment(<<"STAR", "varname", "ARROW", "varname", "EQUALS", "expr", "SEMICOLON">>, t) = "return"
    BY DEF parse_assignment, Latest
  <2>2. m \in Symbols => Extended(g, m) \in star_arrow_assigned
    BY <1>9, <2>1, ExtendedTuples, SymbolNames DEF star_arrow_assigned
  <2>3. m = "return" => g = <<"STAR", "varname", "ARROW", "varname", "EQUALS", "expr", "SEMICOLON">>
    BY <1>9, <2>1 DEF star_arrow_assigned
  <2> QED
    BY <1>1, <1>2, <2>2, <2>3 DEF assignment_begun, Sound
<1> QED
  BY <1>3, <1>4, <1>5, <1>6, <1>7, <1>8, <1>9 DEF assignment_begun

\* The else may be missing, a body or another if.
LEMMA IfStmtSound ==
  ASSUME NEW g \in if_stmt_begun, NEW t PROVE Sound("if_stmt", g, parse_if_stmt(g, t))
<1> DEFINE m == parse_if_stmt(g, t)
<1>1. Productions["if_stmt"] = {<<"IF", "expr", "body">>,
       <<"IF", "expr", "body", "ELSE", "body">>, <<"IF", "expr", "body", "ELSE", "if_stmt">>}
  BY DEF Productions
<1>2. Begun["if_stmt"] = if_stmt_begun
  BY DEF Begun
<1>3. /\ parse_if_stmt(<< >>, t) = "IF"
      /\ parse_if_stmt(<<"IF">>, t) = "expr"
      /\ parse_if_stmt(<<"IF", "expr">>, t) = "body"
      /\ parse_if_stmt(<<"IF", "expr", "body">>, t) \in {"ELSE", "return"}
      /\ parse_if_stmt(<<"IF", "expr", "body", "ELSE">>, t) \in {"body", "if_stmt"}
      /\ parse_if_stmt(<<"IF", "expr", "body", "ELSE", "body">>, t) = "return"
      /\ parse_if_stmt(<<"IF", "expr", "body", "ELSE", "if_stmt">>, t) = "return"
  BY DEF parse_if_stmt, InOrder
<1>4. m \in Symbols => Extended(g, m) \in if_stmt_begun
  BY <1>3, ExtendedTuples, SymbolNames DEF if_stmt_begun
<1>5. m = "return" => g \in {<<"IF", "expr", "body">>,
       <<"IF", "expr", "body", "ELSE", "body">>, <<"IF", "expr", "body", "ELSE", "if_stmt">>}
  BY <1>3 DEF if_stmt_begun
<1> QED
  BY <1>1, <1>2, <1>4, <1>5 DEF Sound

\* A loop is one sequence.
LEMMA WhileStmtSound ==
  ASSUME NEW g \in while_stmt_begun PROVE Sound("while_stmt", g, parse_while_stmt(g))
<1> DEFINE m == parse_while_stmt(g)
<1>1. Productions["while_stmt"] = {<<"WHILE", "expr", "body">>}
  BY DEF Productions
<1>2. Begun["while_stmt"] = while_stmt_begun
  BY DEF Begun
<1>3. /\ parse_while_stmt(<< >>) = "WHILE"
      /\ parse_while_stmt(<<"WHILE">>) = "expr"
      /\ parse_while_stmt(<<"WHILE", "expr">>) = "body"
      /\ parse_while_stmt(<<"WHILE", "expr", "body">>) = "return"
  BY DEF parse_while_stmt, InOrder
<1>4. m \in Symbols => Extended(g, m) \in while_stmt_begun
  BY <1>3, ExtendedTuples, SymbolNames DEF while_stmt_begun
<1>5. m = "return" => g \in {<<"WHILE", "expr", "body">>}
  BY <1>3 DEF while_stmt_begun
<1> QED
  BY <1>1, <1>2, <1>4, <1>5 DEF Sound

\* With a value or without.
LEMMA ReturnStmtSound ==
  ASSUME NEW g \in return_stmt_begun, NEW t PROVE Sound("return_stmt", g, parse_return_stmt(g, t))
<1> DEFINE m == parse_return_stmt(g, t)
<1>1. Productions["return_stmt"] = {<<"RETURN", "SEMICOLON">>, <<"RETURN", "expr", "SEMICOLON">>}
  BY DEF Productions
<1>2. Begun["return_stmt"] = return_stmt_begun
  BY DEF Begun
<1>3. /\ parse_return_stmt(<< >>, t) = "RETURN"
      /\ parse_return_stmt(<<"RETURN">>, t) \in {"SEMICOLON", "expr"}
      /\ parse_return_stmt(<<"RETURN", "SEMICOLON">>, t) = "return"
      /\ parse_return_stmt(<<"RETURN", "expr">>, t) = "SEMICOLON"
      /\ parse_return_stmt(<<"RETURN", "expr", "SEMICOLON">>, t) = "return"
  BY DEF parse_return_stmt, Latest
<1>4. m \in Symbols => Extended(g, m) \in return_stmt_begun
  BY <1>3, ExtendedTuples, SymbolNames DEF return_stmt_begun
<1>5. m = "return" => g \in {<<"RETURN", "SEMICOLON">>, <<"RETURN", "expr", "SEMICOLON">>}
  BY <1>3 DEF return_stmt_begun
<1> QED
  BY <1>1, <1>2, <1>4, <1>5 DEF Sound

\* A break is one sequence.
LEMMA BreakStmtSound ==
  ASSUME NEW g \in break_stmt_begun PROVE Sound("break_stmt", g, parse_break_stmt(g))
<1> DEFINE m == parse_break_stmt(g)
<1>1. Productions["break_stmt"] = {<<"BREAK", "SEMICOLON">>}
  BY DEF Productions
<1>2. Begun["break_stmt"] = break_stmt_begun
  BY DEF Begun
<1>3. /\ parse_break_stmt(<< >>) = "BREAK"
      /\ parse_break_stmt(<<"BREAK">>) = "SEMICOLON"
      /\ parse_break_stmt(<<"BREAK", "SEMICOLON">>) = "return"
  BY DEF parse_break_stmt, InOrder
<1>4. m \in Symbols => Extended(g, m) \in break_stmt_begun
  BY <1>3, ExtendedTuples, SymbolNames DEF break_stmt_begun
<1>5. m = "return" => g \in {<<"BREAK", "SEMICOLON">>}
  BY <1>3 DEF break_stmt_begun
<1> QED
  BY <1>1, <1>2, <1>4, <1>5 DEF Sound
-----------------------------------------------------------------------------
\* The rules of the grammar by name.
LEMMA RuleNames ==
  Rules = {"statement_list", "statement", "block_statement", "function_def", "function_header",
           "body", "args", "name_with_type", "type_def", "type_list", "var_def", "varname",
           "typename", "stars", "expr", "expr_list", "literal", "atom", "op", "preop",
           "call_stmt", "call_expr", "assignment", "if_stmt", "while_stmt", "return_stmt",
           "break_stmt"}
BY SMTT(60) DEF Rules, Productions

\* Each rule's beginnings by name; nothing recognised yet is one of them.
LEMMA BegunNames ==
  /\ Begun["statement_list"] = statement_list_begun /\ << >> \in statement_list_begun
  /\ Begun["statement"] = statement_begun /\ << >> \in statement_begun
  /\ Begun["block_statement"] = block_statement_begun /\ << >> \in block_statement_begun
  /\ Begun["function_def"] = function_def_begun /\ << >> \in function_def_begun
  /\ Begun["function_header"] = function_header_begun /\ << >> \in function_header_begun
  /\ Begun["body"] = body_begun /\ << >> \in body_begun
  /\ Begun["args"] = args_begun /\ << >> \in args_begun
  /\ Begun["name_with_type"] = name_with_type_begun /\ << >> \in name_with_type_begun
  /\ Begun["type_def"] = type_def_begun /\ << >> \in type_def_begun
  /\ Begun["type_list"] = type_list_begun /\ << >> \in type_list_begun
  /\ Begun["var_def"] = var_def_begun /\ << >> \in var_def_begun
  /\ Begun["varname"] = varname_begun /\ << >> \in varname_begun
  /\ Begun["typename"] = typename_begun /\ << >> \in typename_begun
  /\ Begun["stars"] = stars_begun /\ << >> \in stars_begun
  /\ Begun["expr"] = expr_begun /\ << >> \in expr_begun
  /\ Begun["expr_list"] = expr_list_begun /\ << >> \in expr_list_begun
  /\ Begun["literal"] = literal_begun /\ << >> \in literal_begun
  /\ Begun["atom"] = atom_begun /\ << >> \in atom_begun
  /\ Begun["op"] = op_begun /\ << >> \in op_begun
  /\ Begun["preop"] = preop_begun /\ << >> \in preop_begun
  /\ Begun["call_stmt"] = call_stmt_begun /\ << >> \in call_stmt_begun
  /\ Begun["call_expr"] = call_expr_begun /\ << >> \in call_expr_begun
  /\ Begun["assignment"] = assignment_begun /\ << >> \in assignment_begun
  /\ Begun["if_stmt"] = if_stmt_begun /\ << >> \in if_stmt_begun
  /\ Begun["while_stmt"] = while_stmt_begun /\ << >> \in while_stmt_begun
  /\ Begun["return_stmt"] = return_stmt_begun /\ << >> \in return_stmt_begun
  /\ Begun["break_stmt"] = break_stmt_begun /\ << >> \in break_stmt_begun
BY DEF Begun, statement_list_begun, statement_begun, block_statement_begun, function_def_begun,
  function_header_begun, body_begun, args_begun, name_with_type_begun, type_def_begun,
  type_list_begun, var_def_begun, varname_begun, typename_begun, stars_begun, expr_begun,
  expr_list_begun, literal_begun, atom_begun, op_begun, preop_begun, call_stmt_begun,
  call_expr_begun, assignment_begun, if_stmt_begun, while_stmt_begun, return_stmt_begun,
  break_stmt_begun, name_assigned

\* A function that has recognised nothing yet is at a beginning of its rule.
LEMMA NothingRecognised == \A fn \in Rules : << >> \in Begun[fn]
BY RuleNames, BegunNames

\* Every function the parser can be in keeps to its rule, whatever comes next.
LEMMA MoveSound ==
  ASSUME NEW fn \in Rules, NEW g \in Begun[fn], NEW t, NEW u
  PROVE  Sound(fn, g, Move(fn, g, t, u))
<1>1. CASE fn = "statement_list"
  BY <1>1, BegunNames, StatementListSound DEF Move
<1>2. CASE fn = "statement"
  BY <1>2, BegunNames, StatementSound DEF Move
<1>3. CASE fn = "block_statement"
  BY <1>3, BegunNames, BlockStatementSound DEF Move
<1>4. CASE fn = "function_def"
  BY <1>4, BegunNames, FunctionDefSound DEF Move
<1>5. CASE fn = "function_header"
  BY <1>5, BegunNames, FunctionHeaderSound DEF Move
<1>6. CASE fn = "body"
  BY <1>6, BegunNames, BodySound DEF Move
<1>7. CASE fn = "args"
  BY <1>7, BegunNames, ArgsSound DEF Move
<1>8. CASE fn = "name_with_type"
  BY <1>8, BegunNames, NameWithTypeSound DEF Move
<1>9. CASE fn = "type_def"
  BY <1>9, BegunNames, TypeDefSound DEF Move
<1>10. CASE fn = "type_list"
  BY <1>10, BegunNames, TypeListSound DEF Move
<1>11. CASE fn = "var_def"
  BY <1>11, BegunNames, VarDefSound DEF Move
<1>12. CASE fn = "varname"
  BY <1>12, BegunNames, VarnameSound DEF Move
<1>13. CASE fn = "typename"
  BY <1>13, BegunNames, TypenameSound DEF Move
<1>14. CASE fn = "stars"
  BY <1>14, BegunNames, StarsSound DEF Move
<1>15. CASE fn = "expr"
  BY <1>15, BegunNames, ExprSound DEF Move
<1>16. CASE fn = "expr_list"
  BY <1>16, BegunNames, ExprListSound DEF Move
<1>17. CASE fn = "literal"
  BY <1>17, BegunNames, LiteralSound DEF Move
<1>18. CASE fn = "atom"
  BY <1>18, BegunNames, AtomSound DEF Move
<1>19. CASE fn = "op"
  BY <1>19, BegunNames, OpSound DEF Move
<1>20. CASE fn = "preop"
  BY <1>20, BegunNames, PreopSound DEF Move
<1>21. CASE fn = "call_stmt"
  BY <1>21, BegunNames, CallStmtSound DEF Move
<1>22. CASE fn = "call_expr"
  BY <1>22, BegunNames, CallExprSound DEF Move
<1>23. CASE fn = "assignment"
  BY <1>23, BegunNames, AssignmentSound DEF Move
<1>24. CASE fn = "if_stmt"
  BY <1>24, BegunNames, IfStmtSound DEF Move
<1>25. CASE fn = "while_stmt"
  BY <1>25, BegunNames, WhileStmtSound DEF Move
<1>26. CASE fn = "return_stmt"
  BY <1>26, BegunNames, ReturnStmtSound DEF Move
<1>27. CASE fn = "break_stmt"
  BY <1>27, BegunNames, BreakStmtSound DEF Move
<1> QED
  BY RuleNames, <1>1, <1>2, <1>3, <1>4, <1>5, <1>6, <1>7, <1>8, <1>9, <1>10, <1>11, <1>12,
     <1>13, <1>14, <1>15, <1>16, <1>17, <1>18, <1>19, <1>20, <1>21, <1>22, <1>23, <1>24, <1>25,
     <1>26, <1>27
-----------------------------------------------------------------------------
(* The calls that have not returned, and what each has recognised.         *)

\* The symbols of v from one place to another.
SymbolsOf(v, from, to) == [k \in 1..(to - from) |-> v[from + k].sym]

\* What the i-th call has recognised ends where its callee began.
End(i) == IF i = 1 THEN Len(vals) ELSE calls[i - 1].base
Recognises(i) == SymbolsOf(vals, calls[i].base, End(i))

Calls == read \in Seq(Tokens) /\ calls \in Seq([fn : Rules, base : Nat, from : Nat])
Values == \E S : vals \in Seq(S)

\* A callee began behind its caller.
Nested == /\ \A i \in 1..Len(calls) : calls[i].base <= Len(vals)
          /\ \A i, j \in 1..Len(calls) : i <= j => calls[j].base <= calls[i].base

\* The innermost call is at a beginning of its rule; the others will be, with what they wait for.
OnTrack == \A i \in 1..Len(calls) :
             IF i = 1 THEN Recognises(i) \in Begun[calls[i].fn]
             ELSE Append(Recognises(i), calls[i - 1].fn) \in Begun[calls[i].fn]

\* The outermost call is of the whole text; when it has returned its list is all there is.
Outermost == /\ calls # << >> => calls[Len(calls)].fn = "statement_list" /\ calls[Len(calls)].base = 0
             /\ calls = << >> => Len(vals) = 1 /\ vals[1].sym = "statement_list"

IInv == Calls /\ Values /\ Nested /\ OnTrack /\ Outermost

Forest == [i \in 1..Len(vals) |-> vals[i].sym]
-----------------------------------------------------------------------------
(* Sequences of symbols.                                                   *)

\* One more value, and the symbols from anywhere before it are one more.
LEMMA SymbolsGrow ==
  ASSUME NEW S, NEW v \in Seq(S), NEW x, NEW b \in 0..Len(v)
  PROVE  SymbolsOf(Append(v, x), b, Len(v) + 1) = Append(SymbolsOf(v, b, Len(v)), x.sym)
<1> DEFINE T == S \cup {x}
           n == Len(v) - b
           old == SymbolsOf(v, b, Len(v))
           R == {w.sym : w \in T}
<1>1. v \in Seq(T) /\ Len(v) \in Nat /\ n \in Nat
  BY SeqMonotonic, LenProperties
<1>2. /\ Len(Append(v, x)) = Len(v) + 1 /\ Append(v, x)[Len(v) + 1] = x
      /\ \A i \in 1..Len(v) : Append(v, x)[i] = v[i] /\ v[i] \in T
  BY <1>1
<1>3. old \in Seq(R) /\ Len(old) = n /\ x.sym \in R /\ \A k \in 1..n : old[k] = v[b + k].sym
  BY <1>1, <1>2 DEF SymbolsOf
<1>4. /\ SymbolsOf(Append(v, x), b, Len(v) + 1) \in Seq(R)
      /\ Len(SymbolsOf(Append(v, x), b, Len(v) + 1)) = n + 1
  BY <1>1, <1>2 DEF SymbolsOf
<1>5. Append(old, x.sym) \in Seq(R) /\ Len(Append(old, x.sym)) = n + 1
  BY <1>1, <1>3
<1>6. \A k \in 1..(n + 1) : SymbolsOf(Append(v, x), b, Len(v) + 1)[k] = Append(old, x.sym)[k]
  <2> TAKE k \in 1..(n + 1)
  <2>1. SymbolsOf(Append(v, x), b, Len(v) + 1)[k] = Append(v, x)[b + k].sym
    BY <1>1 DEF SymbolsOf
  <2>2. CASE k = n + 1
    BY <1>1, <1>2, <1>3, <2>1, <2>2
  <2>3. CASE k \in 1..n
    <3>1. b + k \in 1..Len(v)
      BY <1>1, <2>3
    <3>2. Append(old, x.sym)[k] = old[k]
      BY <1>1, <1>3, <2>3
    <3> QED
      BY <1>2, <1>3, <2>1, <2>3, <3>1, <3>2
  <2>4. k = n + 1 \/ k \in 1..n
    BY <1>1
  <2> QED
    BY <2>2, <2>3, <2>4
<1> HIDE DEF old, n, R
<1> QED
  BY <1>4, <1>5, <1>6, SeqEqual DEF old, n

\* Cut off at c, a sequence has the same symbols up to there.
LEMMA SymbolsKept ==
  ASSUME NEW S, NEW v \in Seq(S), NEW T, NEW w \in Seq(T), NEW a \in Nat, NEW c \in Nat,
         c <= Len(v), \A i \in 1..c : w[i] = v[i]
  PROVE  SymbolsOf(w, a, c) = SymbolsOf(v, a, c)
BY DEF SymbolsOf
-----------------------------------------------------------------------------
(* The invariant.                                                          *)

\* The fields of a call.
LEMMA CallFields ==
  ASSUME Calls, NEW i \in 1..Len(calls)
  PROVE  calls[i].fn \in Rules /\ calls[i].base \in Nat
<1>1. calls[i] \in [fn : Rules, base : Nat, from : Nat]
  BY ElementOfSeq DEF Calls
<1> QED
  BY <1>1

\* The number of calls.
LEMMA CallCount == Calls => Len(calls) \in Nat /\ (calls # << >> => Len(calls) > 0)
BY DEF Calls

\* Where the innermost call is, seen from the invariant.
LEMMA Here ==
  ASSUME IInv, calls # << >>
  PROVE  /\ Len(calls) \in Nat \ {0} /\ Top = calls[1] /\ Top.fn \in Rules
         /\ Top.base \in 0..Len(vals) /\ Len(vals) \in Nat
         /\ Got = Recognises(1) /\ Sound(Top.fn, Got, Wanted)
<1>1. /\ Len(calls) \in Nat \ {0} /\ Top = calls[1] /\ Top.fn \in Rules /\ Top.base \in Nat
  <2>1. Calls /\ Len(calls) \in Nat \ {0}
    BY CallCount DEF IInv
  <2>2. Top = calls[1]
    BY <2>1 DEF Top, Calls
  <2> QED
    BY <2>1, <2>2, CallFields
<1>2. PICK S : vals \in Seq(S)
  BY DEF IInv, Values
<1>3. Len(vals) \in Nat /\ Top.base <= Len(vals)
  BY <1>1, <1>2 DEF IInv, Nested
<1>4. /\ Len(Parts) = Len(vals) - Top.base
      /\ \A i \in 1..Len(Parts) : Parts[i] = vals[Top.base + i]
  BY <1>1, <1>2, <1>3, SMTT(60) DEF Parts
<1>5. Got = Recognises(1)
  BY <1>1, <1>3, <1>4 DEF Got, Recognises, SymbolsOf, End
<1>6. Got \in Begun[Top.fn]
  BY <1>1, <1>5 DEF IInv, OnTrack
<1> QED
  <2>1. Sound(Top.fn, Got, Wanted)
    BY <1>1, <1>6, MoveSound DEF Wanted
  <2> QED
    BY <1>1, <1>3, <1>5, <2>1

\* The parser starts with an empty statement list.
LEMMA InitInv == Init => IInv
<1> SUFFICES ASSUME Init PROVE IInv
  OBVIOUS
<1>1. "statement_list" \in Rules
  BY RuleNames
<1>2. Len(calls) = 1 /\ calls[1] = [fn |-> "statement_list", base |-> 0, from |-> 1] /\ Len(vals) = 0
  BY DEF Init
<1>3. Calls
  BY <1>1 DEF Init, Calls
<1>4. Values
  <2>1. vals \in Seq({})
    BY DEF Init
  <2> QED
    BY <2>1 DEF Values
<1>5. Nested
  BY <1>2 DEF Nested
<1>6. OnTrack
  <2>1. Recognises(1) = << >>
    BY <1>2 DEF Recognises, SymbolsOf, End
  <2> QED
    BY <1>1, <1>2, <2>1, NothingRecognised DEF OnTrack
<1>7. Outermost
  BY <1>2 DEF Init, Outermost
<1> QED
  BY <1>3, <1>4, <1>5, <1>6, <1>7 DEF IInv

\* It is about the calls and their values only.
LEMMA SameInv == IInv /\ UNCHANGED <<read, calls, vals>> => IInv'
BY DEF IInv, Calls, Values, Nested, OnTrack, Outermost, Recognises, End, SymbolsOf

\* A token consumed continues what the innermost call has recognised.
LEMMA ConsumeInv == ASSUME IInv, Consume PROVE IInv'
<1>1. calls # << >> /\ Wanted \in Symbols /\ calls' = calls
  BY DEF Consume, Goes, Symbols
<1> DEFINE x == [sym |-> Wanted, val |-> Len(read) + 1]
           n == Len(vals)
<1>2. PICK S : vals \in Seq(S)
  BY DEF IInv, Values
<1>3. vals' = Append(vals, x) /\ x.sym = Wanted
  BY DEF Consume
<1> HIDE DEF x
<1>4. /\ vals' \in Seq(S \cup {x}) /\ n \in Nat /\ Len(vals') = n + 1
      /\ \A i \in 1..n : vals'[i] = vals[i]
  BY <1>2, <1>3
<1>5. Calls' /\ Values' /\ Outermost'
  <2>1. Values'
    BY <1>4 DEF Values
  <2>2. read' \in Seq(Tokens)
    BY DEF IInv, Calls, Consume, Goes
  <2> QED
    BY <1>1, <2>1, <2>2 DEF IInv, Calls, Outermost
<1>6. Nested'
  <2>1. \A i \in 1..Len(calls) : calls[i].base \in Nat /\ calls[i].base <= n
    BY CallFields DEF IInv, Nested
  <2> QED
    BY <1>1, <1>4, <2>1 DEF IInv, Nested
<1>7. OnTrack'
  <2> SUFFICES ASSUME NEW i \in 1..Len(calls)
               PROVE  IF i = 1 THEN Recognises(i)' \in Begun[calls[i].fn]
                      ELSE Append(Recognises(i)', calls[i - 1].fn) \in Begun[calls[i].fn]
    BY <1>1 DEF OnTrack
  <2>1. CASE i = 1
    <3>1. calls[1] = Top /\ Top.base \in 0..n /\ Recognises(1) = Got /\ Sound(Top.fn, Got, Wanted)
      BY <1>1, Here
    <3>2. Recognises(1)' = SymbolsOf(vals', Top.base, n + 1)
      BY <1>1, <1>4, <3>1 DEF Recognises, End
    <3>3. Recognises(1) = SymbolsOf(vals, Top.base, n)
      BY <3>1 DEF Recognises, End
    <3>4. Recognises(1)' = Append(Recognises(1), Wanted)
      BY <1>2, <1>3, <3>1, <3>2, <3>3, SymbolsGrow
    <3> QED
      BY <1>1, <2>1, <3>1, <3>4 DEF Sound, Extended
  <2>2. CASE i # 1
    <3>1. i - 1 \in 1..Len(calls) /\ calls[i - 1].base \in Nat /\ calls[i - 1].base <= n
          /\ calls[i].base \in Nat
      <4>1. i - 1 \in 1..Len(calls)
        BY <2>2, CallCount DEF IInv
      <4> QED
        BY <4>1, CallFields DEF IInv, Nested
    <3>2. Recognises(i) = SymbolsOf(vals, calls[i].base, calls[i - 1].base)
      BY <2>2 DEF Recognises, End
    <3>3. Recognises(i)' = SymbolsOf(vals', calls[i].base, calls[i - 1].base)
      BY <1>1, <2>2 DEF Recognises, End
    <3>4. \A k \in 1..calls[i - 1].base : vals'[k] = vals[k]
      BY <1>4, <3>1
    <3>5. Recognises(i)' = Recognises(i)
      BY <1>2, <1>4, <3>1, <3>2, <3>3, <3>4, SymbolsKept, SMTT(60)
    <3> QED
      BY <2>2, <3>5 DEF IInv, OnTrack
  <2> QED
    BY <2>1, <2>2
<1> QED
  BY <1>5, <1>6, <1>7 DEF IInv

\* A call waits for what its callee will be; the callee has recognised nothing.
LEMMA CallInv == ASSUME IInv, Call PROVE IInv'
<1> DEFINE f == Frame(Wanted)
           n == Len(calls)
<1>1. calls # << >> /\ Wanted \in Rules /\ calls' = <<f>> \o calls /\ vals' = vals
  BY DEF Call, Goes
<1>2. n \in Nat \ {0} /\ Len(vals) \in Nat
  BY <1>1, Here
<1>3. f.fn = Wanted /\ f.base = Len(vals) /\ f \in [fn : Rules, base : Nat, from : Nat]
  <2>1. Len(read) + 1 \in Nat
    BY DEF IInv, Calls
  <2> QED
    BY <1>1, <1>2, <2>1 DEF Frame
<1> HIDE DEF f
<1>4. Calls' /\ Len(calls') = n + 1 /\ calls'[1] = f /\ \A i \in 2..(n + 1) : calls'[i] = calls[i - 1]
  BY <1>1, <1>2, <1>3 DEF IInv, Calls, Call
<1>5. \A i \in 1..n : calls[i].base \in Nat /\ calls[i].base <= Len(vals)
  BY CallFields DEF IInv, Nested
<1>6. Nested'
  <2>1. \A i \in 1..(n + 1) : calls'[i].base <= Len(vals)
    BY <1>2, <1>3, <1>4, <1>5, SMTT(60)
  <2>2. ASSUME NEW i \in 1..(n + 1), NEW j \in 1..(n + 1), i <= j
        PROVE  calls'[j].base <= calls'[i].base
    <3>1. CASE i = 1
      BY <1>3, <1>4, <2>1, <3>1
    <3>2. CASE i # 1
      <4>1. i - 1 \in 1..n /\ j - 1 \in 1..n /\ i - 1 <= j - 1 /\ i \in 2..(n + 1) /\ j \in 2..(n + 1)
        BY <1>2, <2>2, <3>2
      <4>2. calls[j - 1].base <= calls[i - 1].base
        BY <4>1 DEF IInv, Nested
      <4> QED
        BY <1>4, <4>1, <4>2
    <3> QED
      BY <3>1, <3>2
  <2> QED
    BY <1>1, <1>4, <2>1, <2>2 DEF Nested
<1>7. OnTrack'
  <2> SUFFICES ASSUME NEW i \in 1..(n + 1)
               PROVE  IF i = 1 THEN Recognises(i)' \in Begun[calls'[i].fn]
                      ELSE Append(Recognises(i)', calls'[i - 1].fn) \in Begun[calls'[i].fn]
    BY <1>4 DEF OnTrack
  <2>1. CASE i = 1
    <3>1. Recognises(1)' = SymbolsOf(vals, Len(vals), Len(vals))
      BY <1>1, <1>3, <1>4 DEF Recognises, End
    <3>2. Recognises(1)' = << >>
      BY <1>2, <3>1 DEF SymbolsOf
    <3> QED
      BY <1>1, <1>3, <1>4, <2>1, <3>2, NothingRecognised
  <2>2. CASE i = 2
    <3>1. Recognises(2)' = SymbolsOf(vals, calls[1].base, Len(vals))
      BY <1>1, <1>2, <1>3, <1>4 DEF Recognises, End
    <3>2. Recognises(2)' = Got
      <4>1. Got = Recognises(1)
        BY <1>1, Here
      <4> QED
        BY <3>1, <4>1 DEF Recognises, End
    <3>3. Append(Got, Wanted) \in Begun[calls[1].fn]
      <4>1. Top = calls[1] /\ Sound(Top.fn, Got, Wanted)
        BY <1>1, Here
      <4> QED
        BY <1>1, <4>1 DEF Sound, Extended, Symbols
    <3>4. calls'[2].fn = calls[1].fn /\ calls'[1].fn = Wanted
      BY <1>2, <1>3, <1>4
    <3> QED
      BY <2>2, <3>2, <3>3, <3>4
  <2>3. CASE i > 2
    <3>1. i - 1 \in 2..n /\ i - 2 \in 1..n /\ i \in 2..(n + 1) /\ i - 1 \in 2..(n + 1)
      BY <1>2, <2>3
    <3>2. calls'[i] = calls[i - 1] /\ calls'[i - 1] = calls[i - 2]
      BY <1>4, <3>1
    <3>3. Recognises(i)' = SymbolsOf(vals, calls[i - 1].base, calls[i - 2].base)
      BY <1>1, <2>3, <3>2 DEF Recognises, End
    <3>4. Recognises(i - 1) = SymbolsOf(vals, calls[i - 1].base, calls[i - 2].base)
      BY <2>3, <3>1 DEF Recognises, End
    <3>5. Append(Recognises(i - 1), calls[i - 2].fn) \in Begun[calls[i - 1].fn]
      BY <2>3, <3>1 DEF IInv, OnTrack
    <3> QED
      BY <2>3, <3>2, <3>3, <3>4, <3>5
  <2> QED
    BY <2>1, <2>2, <2>3
<1>8. Values' /\ Outermost'
  <2>1. calls'[n + 1] = calls[n]
    BY <1>2, <1>4
  <2> QED
    BY <1>1, <1>2, <1>4, <2>1 DEF IInv, Values, Outermost
<1> QED
  BY <1>4, <1>6, <1>7, <1>8 DEF IInv

\* A call that returns is what its caller was waiting for.
LEMMA ReturnInv == ASSUME IInv, Return PROVE IInv'
<1> DEFINE x == [sym |-> Top.fn, val |-> Built(Top.fn, Parts, Top.from)]
           n == Len(calls)
           b == Top.base
           kept == SubSeq(vals, 1, b)
<1>1. calls # << >> /\ calls' = Tail(calls) /\ vals' = Append(kept, x) /\ x.sym = Top.fn
  BY DEF Return, Goes
<1> HIDE DEF x
<1>2. n \in Nat \ {0} /\ Len(vals) \in Nat /\ Top = calls[1] /\ b \in 0..Len(vals)
  BY <1>1, Here
<1>3. PICK S : vals \in Seq(S)
  BY DEF IInv, Values
<1>4. kept \in Seq(S) /\ Len(kept) = b /\ \A k \in 1..b : kept[k] = vals[k]
  BY <1>2, <1>3
<1> HIDE DEF kept
<1>5. /\ vals' \in Seq(S \cup {x}) /\ Len(vals') = b + 1 /\ vals'[b + 1] = x
      /\ \A k \in 1..b : vals'[k] = vals[k]
  <2>1. kept \in Seq(S \cup {x})
    BY <1>4, SeqMonotonic
  <2>2. \A k \in 1..b : vals'[k] = kept[k]
    BY <1>1, <1>2, <1>4, <2>1
  <2> QED
    BY <1>1, <1>2, <1>4, <2>1, <2>2
<1>6. Calls' /\ Len(calls') = n - 1 /\ \A i \in 1..(n - 1) : calls'[i] = calls[i + 1]
  BY <1>1, <1>2 DEF IInv, Calls, Return
<1>7. \A i \in 1..n : calls[i].base \in Nat /\ calls[i].base <= b
  <2>1. \A i \in 1..n : calls[i].base <= calls[1].base
    BY <1>2 DEF IInv, Nested
  <2> QED
    BY <1>2, <2>1, CallFields DEF IInv
<1>8. Nested'
  <2>1. \A i \in 1..(n - 1) : calls'[i].base <= b + 1
    <3> TAKE i \in 1..(n - 1)
    <3>1. i + 1 \in 1..n /\ calls'[i] = calls[i + 1]
      BY <1>2, <1>6
    <3> QED
      BY <1>2, <1>7, <3>1
  <2>2. ASSUME NEW i \in 1..(n - 1), NEW j \in 1..(n - 1), i <= j
        PROVE  calls'[j].base <= calls'[i].base
    <3>1. i + 1 \in 1..n /\ j + 1 \in 1..n /\ i + 1 <= j + 1
      BY <1>2, <2>2
    <3> QED
      BY <1>6, <3>1 DEF IInv, Nested
  <2> QED
    BY <1>5, <1>6, <2>1, <2>2 DEF Nested
<1>9. OnTrack'
  <2> SUFFICES ASSUME NEW i \in 1..(n - 1)
               PROVE  IF i = 1 THEN Recognises(i)' \in Begun[calls'[i].fn]
                      ELSE Append(Recognises(i)', calls'[i - 1].fn) \in Begun[calls'[i].fn]
    BY <1>6 DEF OnTrack
  <2>1. i + 1 \in 1..n /\ i \in 1..n /\ i + 1 # 1 /\ (i + 1) - 1 = i
    BY <1>2
  <2>2. Append(Recognises(i + 1), calls[i].fn) \in Begun[calls[i + 1].fn]
    BY <2>1 DEF IInv, OnTrack
  <2>3. Recognises(i + 1) = SymbolsOf(vals, calls[i + 1].base, calls[i].base)
    BY <2>1 DEF Recognises, End
  <2>4. calls'[i] = calls[i + 1]
    BY <1>6
  <2>5. CASE i = 1
    <3>1. Recognises(1)' = SymbolsOf(vals', calls[2].base, b + 1)
      BY <1>5, <2>4, <2>5 DEF Recognises, End
    <3>2. calls[2].base \in 0..b
      BY <1>7, <2>1, <2>5
    <3>3. Recognises(1)' = Append(SymbolsOf(kept, calls[2].base, b), Top.fn)
      BY <1>1, <1>4, <3>1, <3>2, SymbolsGrow
    <3>4. SymbolsOf(kept, calls[2].base, b) = SymbolsOf(vals, calls[2].base, b)
      BY <1>2, <1>3, <1>4, <3>2, SymbolsKept
    <3>5. Append(SymbolsOf(vals, calls[2].base, b), Top.fn) \in Begun[calls[2].fn]
      BY <1>2, <2>2, <2>3, <2>5
    <3>6. calls'[1] = calls[2]
      BY <2>4, <2>5
    <3> QED
      BY <2>5, <3>3, <3>4, <3>5, <3>6
  <2>6. CASE i # 1
    <3>1. i - 1 \in 1..(n - 1) /\ (i - 1) + 1 = i
      BY <1>2, <2>6
    <3>2. calls'[i - 1] = calls[i]
      BY <1>6, <3>1
    <3>3. Recognises(i)' = SymbolsOf(vals', calls[i + 1].base, calls[i].base)
      BY <2>4, <2>6, <3>2 DEF Recognises, End
    <3>4. calls[i].base \in Nat /\ calls[i].base <= b /\ calls[i + 1].base \in Nat
      BY <1>7, <2>1
    <3>5. \A k \in 1..calls[i].base : vals'[k] = vals[k]
      BY <1>2, <1>5, <3>4
    <3>6. SymbolsOf(vals', calls[i + 1].base, calls[i].base) = SymbolsOf(vals, calls[i + 1].base, calls[i].base)
      <4>1. calls[i].base <= Len(vals)
        BY <1>2, <3>4
      <4> QED
        BY <1>3, <1>5, <3>4, <3>5, <4>1, SymbolsKept
    <3> QED
      BY <2>2, <2>3, <2>4, <2>6, <3>2, <3>3, <3>6
  <2> QED
    BY <2>5, <2>6
<1>10. Values'
  BY <1>5 DEF Values
<1>11. Outermost'
  <2>1. CASE n = 1
    <3>1. calls' = << >> /\ Top.fn = "statement_list" /\ b = 0
      <4>1. calls' = << >>
        BY <1>2, <1>6, <2>1, EmptySeq DEF Calls
      <4> QED
        BY <1>1, <1>2, <2>1, <4>1 DEF IInv, Outermost
    <3> QED
      BY <1>1, <1>5, <3>1 DEF Outermost
  <2>2. CASE n > 1
    <3>1. n - 1 \in 1..(n - 1) /\ calls'[n - 1] = calls[n] /\ calls' # << >>
      BY <1>2, <1>6, <2>2
    <3> QED
      BY <1>1, <1>6, <3>1 DEF IInv, Outermost
  <2>3. n = 1 \/ n > 1
    <3>1. n \in Nat /\ n # 0
      BY <1>2
    <3> HIDE DEF n
    <3> QED
      BY <3>1
  <2> QED
    BY <2>1, <2>2, <2>3
<1> QED
  BY <1>6, <1>8, <1>9, <1>10, <1>11 DEF IInv

\* No step of the parser leaves the invariant.
LEMMA StepInv == IInv /\ [Next]_vars => IInv'
<1> SUFFICES ASSUME IInv, [Next]_vars PROVE IInv'
  OBVIOUS
<1>1. CASE Consume
  BY <1>1, ConsumeInv
<1>2. CASE Call
  BY <1>2, CallInv
<1>3. CASE Return
  BY <1>3, ReturnInv
<1>4. CASE Peek \/ SyntaxError \/ Refuse \/ parser_parse \/ Exit \/ UNCHANGED vars
  <2>1. UNCHANGED <<read, calls, vals>>
    BY <1>4 DEF Peek, SyntaxError, Refuse, parser_parse, Exit, vars
  <2> QED
    BY <2>1, SameInv
<1> QED
  BY <1>1, <1>2, <1>3, <1>4 DEF Next

\* The invariant holds of every text and at every step of the descent.
THEOREM Inductive == Spec => []IInv
<1> QED
  BY InitInv, StepInv, PTL DEF Spec
-----------------------------------------------------------------------------
(* The refinement.                                                         *)

\* The derivation is of the same grammar.
LEMMA SameGrammar ==
  /\ Recognised!Tokens = Tokens /\ Recognised!Rules = Rules
  /\ Recognised!Productions = Productions
<1>1. /\ Recognised!Operators = Operators /\ Recognised!PrefixOperators = PrefixOperators
      /\ Recognised!Literals = Literals
  BY DEF Recognised!Operators, Recognised!PrefixOperators, Recognised!Literals,
         Operators, PrefixOperators, Literals
<1>2. Recognised!Tokens = Tokens
  BY <1>1 DEF Recognised!Tokens, Tokens
<1>3. Recognised!Productions = Productions
  BY <1>1 DEF Recognised!Productions, Productions
<1> QED
  BY <1>2, <1>3 DEF Recognised!Rules, Rules

\* The steps of the derivation, said of the parser's values.
ForestShifts == \E t \in Tokens : read' = Append(read, t) /\ Forest' = Append(Forest, t)
ForestReduces ==
  /\ read' = read
  /\ \E rule \in Rules, from \in 0..Len(Forest) :
       /\ Forest' = Append(SubSeq(Forest, 1, from), rule)
       /\ SubSeq(Forest, from + 1, Len(Forest)) \in Productions[rule]

\* While the text is being parsed they are the derivation's.
LEMMA StepsAreTheDerivations ==
  ASSUME phase = "parse", phase' = phase
  PROVE  /\ ForestShifts => Recognised!Shift
         /\ ForestReduces => Recognised!Reduce
<1>1. ~(phase = "done") /\ UNCHANGED (phase = "done")
  OBVIOUS
<1>2. ForestShifts => Recognised!Shift
  BY <1>1, SameGrammar DEF ForestShifts, Recognised!Shift, Forest
<1>3. ForestReduces => Recognised!Reduce
  BY <1>1, SameGrammar DEF ForestReduces, Recognised!Reduce, Forest
<1> QED
  BY <1>2, <1>3

\* What the derivation calls the forest.
LEMMA ForestIs == Forest = SymbolsOf(vals, 0, Len(vals))
BY DEF Forest, SymbolsOf

\* The parts of a list of symbols.
LEMMA ForestParts ==
  ASSUME NEW S, vals \in Seq(S), NEW b \in 0..Len(vals)
  PROVE  /\ Len(Forest) = Len(vals)
         /\ SubSeq(Forest, 1, b) = SymbolsOf(vals, 0, b)
         /\ SubSeq(Forest, b + 1, Len(Forest)) = SymbolsOf(vals, b, Len(vals))
<1> DEFINE R == {w.sym : w \in S}
           n == Len(vals)
<1>1. n \in Nat /\ \A i \in 1..n : vals[i] \in S
  OBVIOUS
<1>2. Forest \in Seq(R) /\ Len(Forest) = n /\ \A i \in 1..n : Forest[i] = vals[i].sym
  BY <1>1 DEF Forest
<1>3. SubSeq(Forest, 1, b) = SymbolsOf(vals, 0, b)
  <2>1. /\ SubSeq(Forest, 1, b) \in Seq(R) /\ Len(SubSeq(Forest, 1, b)) = b
        /\ \A i \in 1..b : SubSeq(Forest, 1, b)[i] = vals[i].sym
    BY <1>1, <1>2
  <2>2. /\ SymbolsOf(vals, 0, b) \in Seq(R) /\ Len(SymbolsOf(vals, 0, b)) = b
        /\ \A i \in 1..b : SymbolsOf(vals, 0, b)[i] = vals[i].sym
    BY <1>1 DEF SymbolsOf
  <2> HIDE DEF R
  <2> QED
    BY <2>1, <2>2, SeqEqual
<1>4. SubSeq(Forest, b + 1, n) = SymbolsOf(vals, b, n)
  <2>1. /\ SubSeq(Forest, b + 1, n) \in Seq(R) /\ Len(SubSeq(Forest, b + 1, n)) = n - b
        /\ \A i \in 1..(n - b) : SubSeq(Forest, b + 1, n)[i] = vals[b + i].sym
    <3>1. b + 1 \in 1..(n + 1) /\ b \in Nat /\ n \in Nat
      BY <1>1
    <3>2. \A i \in 1..(n - b) : b + i \in 1..n /\ (b + 1) + i - 1 = b + i
      BY <3>1
    <3> HIDE DEF R, n
    <3> QED
      BY <1>2, <3>1, <3>2
  <2>2. /\ SymbolsOf(vals, b, n) \in Seq(R) /\ Len(SymbolsOf(vals, b, n)) = n - b
        /\ \A i \in 1..(n - b) : SymbolsOf(vals, b, n)[i] = vals[b + i].sym
    BY <1>1 DEF SymbolsOf
  <2> HIDE DEF R
  <2> QED
    BY <2>1, <2>2, SeqEqual
<1> QED
  BY <1>2, <1>3, <1>4

\* A token consumed is a shift.
LEMMA ConsumeShifts == ASSUME IInv, Consume PROVE Recognised!Shift
<1>1. Wanted \in Tokens /\ read' = Append(read, Wanted) /\ phase = "parse" /\ phase' = phase
  BY DEF Consume, Goes
<1> DEFINE x == [sym |-> Wanted, val |-> Len(read) + 1]
<1>2. PICK S : vals \in Seq(S)
  BY DEF IInv, Values
<1>3. vals' = Append(vals, x) /\ x.sym = Wanted
  BY DEF Consume
<1> HIDE DEF x
<1>4. Len(vals) \in Nat /\ Len(vals') = Len(vals) + 1
  BY <1>2, <1>3
<1>5. Forest' = Append(Forest, Wanted)
  <2>1. Forest' = SymbolsOf(vals', 0, Len(vals) + 1)
    BY <1>4 DEF Forest, SymbolsOf
  <2> QED
    BY <1>2, <1>3, <1>4, <2>1, ForestIs, SymbolsGrow
<1>6. ForestShifts
  BY <1>1, <1>5 DEF ForestShifts
<1> QED
  BY <1>1, <1>6, StepsAreTheDerivations

\* A call that returns reduces what it has recognised to its rule.
LEMMA ReturnReduces == ASSUME IInv, Return PROVE Recognised!Reduce
<1> DEFINE x == [sym |-> Top.fn, val |-> Built(Top.fn, Parts, Top.from)]
           b == Top.base
           kept == SubSeq(vals, 1, b)
<1>1. /\ calls # << >> /\ Wanted = "return" /\ vals' = Append(kept, x) /\ x.sym = Top.fn
      /\ phase = "parse" /\ phase' = phase /\ read' = read
  BY DEF Return, Goes
<1> HIDE DEF x
<1>2. /\ Top.fn \in Rules /\ b \in 0..Len(vals) /\ Len(vals) \in Nat
      /\ Got = Recognises(1) /\ Top = calls[1] /\ Got \in Productions[Top.fn]
  BY <1>1, Here DEF Sound
<1>3. PICK S : vals \in Seq(S)
  BY DEF IInv, Values
<1>4. kept \in Seq(S) /\ Len(kept) = b /\ \A k \in 1..b : kept[k] = vals[k]
  BY <1>2, <1>3
<1> HIDE DEF kept
<1>5. Len(vals') = b + 1
  BY <1>1, <1>2, <1>4
<1>6. Forest' = Append(SubSeq(Forest, 1, b), Top.fn)
  <2>1. Forest' = SymbolsOf(vals', 0, b + 1)
    BY <1>2, <1>5 DEF Forest, SymbolsOf
  <2>2. SymbolsOf(vals', 0, b + 1) = Append(SymbolsOf(kept, 0, b), Top.fn)
    <3>1. 0 \in 0..Len(kept)
      BY <1>2, <1>4
    <3> QED
      BY <1>1, <1>4, <3>1, SymbolsGrow
  <2>3. SymbolsOf(kept, 0, b) = SymbolsOf(vals, 0, b)
    BY <1>2, <1>4 DEF SymbolsOf
  <2> QED
    BY <1>2, <1>3, <2>1, <2>2, <2>3, ForestParts
<1>7. SubSeq(Forest, b + 1, Len(Forest)) = Got /\ Len(Forest) = Len(vals)
  <2>1. Got = SymbolsOf(vals, b, Len(vals))
    BY <1>2 DEF Recognises, End
  <2> QED
    BY <1>2, <1>3, <2>1, ForestParts
<1>8. ForestReduces
  BY <1>1, <1>2, <1>6, <1>7 DEF ForestReduces
<1> QED
  BY <1>1, <1>8, StepsAreTheDerivations

\* The parser accepts when one statement list is left.
LEMMA DoneAccepts == ASSUME IInv, parser_parse PROVE Recognised!Accept
<1>1. /\ phase = "parse" /\ phase' = "done" /\ read' = read /\ vals' = vals
      /\ Len(vals) = 1 /\ vals[1].sym = "statement_list"
  BY DEF parser_parse, IInv, Outermost
<1>2. Forest = <<"statement_list">>
  BY <1>1 DEF Forest
<1> QED
  BY <1>1, <1>2 DEF Recognised!Accept, Forest

\* The other steps leave the derivation as it is.
LEMMA OthersStutter ==
  ASSUME Peek \/ Call \/ SyntaxError \/ Refuse \/ Exit \/ UNCHANGED vars
  PROVE  UNCHANGED <<read, Forest, phase = "done">>
<1>1. UNCHANGED <<read, vals>>
  BY DEF Peek, Call, SyntaxError, Refuse, Exit, vars
<1>2. phase' = phase \/ (phase = "parse" /\ phase' # "done")
  BY DEF Peek, Call, SyntaxError, Refuse, Exit, vars, Goes, Refusals
<1> QED
  BY <1>1, <1>2 DEF Forest

\* The parser accepts programs of the grammar only, whatever the texts: every
\* step of the descent is a step of the derivation, or none (ParserImplementsGrammar).
THEOREM Descent == Spec => ParserImplementsGrammar
<1>1. Init => Recognised!Init
  <2> SUFFICES ASSUME Init PROVE Recognised!Init
    OBVIOUS
  <2>1. vals = << >> /\ read = << >> /\ phase = "parse"
    BY DEF Init
  <2>2. Forest = << >>
    BY <2>1 DEF Forest
  <2> QED
    BY <2>1, <2>2 DEF Recognised!Init, Forest
<1>2. IInv /\ [Next]_vars =>
        [Recognised!Shift \/ Recognised!Reduce \/ Recognised!Accept]_<<read, Forest, phase = "done">>
  <2> SUFFICES ASSUME IInv, [Next]_vars
               PROVE  \/ Recognised!Shift \/ Recognised!Reduce \/ Recognised!Accept
                      \/ UNCHANGED <<read, Forest, phase = "done">>
    OBVIOUS
  <2>1. CASE Consume
    BY <2>1, ConsumeShifts
  <2>2. CASE Return
    BY <2>2, ReturnReduces
  <2>3. CASE parser_parse
    BY <2>3, DoneAccepts
  <2>4. CASE Peek \/ Call \/ SyntaxError \/ Refuse \/ Exit \/ UNCHANGED vars
    BY <2>4, OthersStutter
  <2> QED
    BY <2>1, <2>2, <2>3, <2>4 DEF Next
<1> QED
  BY <1>1, <1>2, Inductive, PTL DEF Spec, ParserImplementsGrammar, Recognised!DerivationSpec, Forest
-----------------------------------------------------------------------------
(* What the parser peeks at, and the types.                                *)

Peeked == Tokens \cup {"EOF", "ERROR"}
Peeks == input \in Inputs /\ ahead \in Seq(Peeked) /\ Len(ahead) <= 2
Named == \A i \in 1..Len(vals) : vals[i].sym \in Tokens \cup Rules
Phases == {"parse", "done", "syntax_error"} \cup Refusals
Typed == Peeks /\ Named /\ phase \in Phases

\* The next token is one of the text, or its end.
LEMMA PeekTyped == ASSUME IInv, Typed, Peek PROVE Typed'
<1>1. Lookahead \in {1, 2}
  BY DEF Lookahead
<1>2. NextTokens \subseteq Peeked
  <2> DEFINE n == Len(read) + Len(ahead)
  <2>1. n \in Nat /\ input.start \in Seq(Tokens) /\ input.tokens \subseteq Tokens
    <3>1. input \in Inputs /\ Len(ahead) \in Nat
      BY DEF Typed, Peeks
    <3>2. Len(read) \in Nat
      BY DEF IInv, Calls
    <3>3. input.start \in Seq(Tokens) /\ input.tokens \subseteq Tokens
      BY <3>1, InputsAssumption, Zenon DEF InputsAssumption
    <3> QED
      BY <3>1, <3>2, <3>3
  <2>2. n < Len(input.start) => input.start[n + 1] \in Tokens
    <3>1. Len(input.start) \in Nat
      BY <2>1, LenProperties
    <3>2. n < Len(input.start) => n + 1 \in 1..Len(input.start)
      <4> HIDE DEF n
      <4> QED
        BY <2>1, <3>1
    <3> QED
      BY <2>1, <3>2, ElementOfSeq
  <2>3. NextTokens = CASE n < Len(input.start) -> {input.start[n + 1]}
                       [] n >= Len(input.start) /\ AtEnd  -> {"EOF"}
                       [] n >= Len(input.start) /\ ~AtEnd -> input.tokens \cup {"ERROR", "EOF"}
    BY DEF NextTokens
  <2>4. n < Len(input.start) \/ n >= Len(input.start)
    <3>1. n \in Nat /\ Len(input.start) \in Nat
      BY <2>1, LenProperties
    <3> HIDE DEF n
    <3> QED
      BY <3>1
  <2>5. n < Len(input.start) => ~(n >= Len(input.start))
    <3>1. n \in Nat /\ Len(input.start) \in Nat
      BY <2>1, LenProperties
    <3> HIDE DEF n
    <3> QED
      BY <3>1
  <2> HIDE DEF n
  <2> QED
    BY <2>1, <2>2, <2>3, <2>4, <2>5 DEF Peeked
<1>3. PICK t \in Peeked : ahead' = Append(ahead, t)
  BY <1>2 DEF Peek
<1>4. ahead' \in Seq(Peeked) /\ Len(ahead') = Len(ahead) + 1 /\ Len(ahead) \in Nat
  BY <1>3 DEF Typed, Peeks
<1>5. Len(ahead') <= 2
  BY <1>1, <1>4 DEF Peek
<1> QED
  BY <1>4, <1>5 DEF Peek, Typed, Peeks, Named, Phases, Refusals

\* A token consumed was the first of those peeked at.
LEMMA ConsumeTyped == ASSUME IInv, Typed, Consume PROVE Typed'
<1> DEFINE x == [sym |-> Wanted, val |-> Len(read) + 1]
<1>1. Lookahead \in {1, 2} /\ Len(ahead) >= Lookahead /\ Wanted \in Tokens
  BY DEF Lookahead, Consume, Goes
<1>2. ahead # << >> /\ Len(ahead) \in Nat
  BY <1>1 DEF Typed, Peeks
<1>3. ahead' \in Seq(Peeked) /\ Len(ahead') <= 2
  <2>1. ahead' = Tail(ahead)
    BY DEF Consume
  <2> QED
    BY <1>2, <2>1 DEF Typed, Peeks
<1>4. PICK S : vals \in Seq(S)
  BY DEF IInv, Values
<1>5. vals' = Append(vals, x) /\ x.sym = Wanted
  BY DEF Consume
<1> HIDE DEF x
<1>6. Named'
  <2>1. Len(vals) \in Nat /\ Len(vals') = Len(vals) + 1 /\ vals'[Len(vals) + 1] = x
        /\ \A i \in 1..Len(vals) : vals'[i] = vals[i]
    BY <1>4, <1>5
  <2> QED
    BY <1>1, <1>5, <2>1 DEF Typed, Named, Tokens, Rules
<1> QED
  BY <1>3, <1>6 DEF Consume, Typed, Peeks, Phases, Refusals

\* A call that returns leaves the symbol of its rule.
LEMMA ReturnTyped == ASSUME IInv, Typed, Return PROVE Typed'
<1> DEFINE x == [sym |-> Top.fn, val |-> Built(Top.fn, Parts, Top.from)]
           b == Top.base
           kept == SubSeq(vals, 1, b)
<1>1. calls # << >> /\ vals' = Append(kept, x) /\ x.sym = Top.fn
  BY DEF Return, Goes
<1> HIDE DEF x
<1>2. Top.fn \in Rules /\ b \in 0..Len(vals) /\ Len(vals) \in Nat
  BY <1>1, Here
<1>3. PICK S : vals \in Seq(S)
  BY DEF IInv, Values
<1>4. kept \in Seq(S) /\ Len(kept) = b /\ \A k \in 1..b : kept[k] = vals[k]
  BY <1>2, <1>3
<1> HIDE DEF kept
<1>5. Named'
  <2>1. Len(vals') = b + 1 /\ vals'[b + 1] = x /\ \A k \in 1..b : vals'[k] = vals[k]
    BY <1>1, <1>2, <1>4
  <2>2. \A k \in 1..b : vals[k].sym \in Tokens \cup Rules
    BY <1>2 DEF Typed, Named
  <2> QED
    BY <1>1, <1>2, <2>1, <2>2 DEF Named, Tokens, Rules
<1> QED
  BY <1>5 DEF Return, Typed, Peeks, Phases, Refusals

\* The other steps take no token and keep the values.
LEMMA OthersTyped ==
  ASSUME Typed, Call \/ SyntaxError \/ Refuse \/ parser_parse \/ Exit \/ UNCHANGED vars
  PROVE  Typed'
<1>1. UNCHANGED <<input, ahead, vals>>
  BY DEF Call, SyntaxError, Refuse, parser_parse, Exit, vars
<1>2. phase' \in Phases
  BY DEF Call, SyntaxError, Refuse, parser_parse, Exit, vars, Typed, Phases, Goes
<1> QED
  BY <1>1, <1>2 DEF Typed, Peeks, Named, Phases, Refusals

\* Whatever the texts, at most two tokens are ever peeked at, all calls are of
\* rules and all that is recognised are symbols of the grammar (TypeOK).
THEOREM Typing == Spec => []TypeOK
<1>1. Init => Typed
  BY DEF Init, Typed, Peeks, Named, Phases
<1>2. IInv /\ Typed /\ [Next]_vars => Typed'
  BY PeekTyped, ConsumeTyped, ReturnTyped, OthersTyped DEF Next
<1>3. IInv /\ Typed => TypeOK
  <2> SUFFICES ASSUME IInv, Typed PROVE TypeOK
    OBVIOUS
  <2>1. \A i \in 1..Len(calls) : calls[i].fn \in Rules /\ calls[i].base \in 0..Len(vals)
    <3> TAKE i \in 1..Len(calls)
    <3>1. calls[i].fn \in Rules /\ calls[i].base \in Nat /\ calls[i].base <= Len(vals)
      BY CallFields DEF IInv, Nested
    <3>2. Len(vals) \in Nat
      BY DEF IInv, Values
    <3> QED
      BY <3>1, <3>2
  <2> QED
    BY <2>1 DEF TypeOK, IInv, Calls, Typed, Peeks, Peeked, Named, Phases
<1> QED
  BY <1>1, <1>2, <1>3, Inductive, PTL DEF Spec
=============================================================================
