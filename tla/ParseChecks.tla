------------------------------ MODULE ParseChecks ------------------------------
(***************************************************************************)
(* What is made of the tree when the parser is done: verify_ast            *)
(* (src/src/ast/ast.c), parse_checks (src/src/ast/parse-checks.c), and the *)
(* properties that compare the tree with the text it was read from.        *)
(***************************************************************************)
EXTENDS Parser, SequencesExt

Children(node) == ToSet(node.children)

RECURSIVE ast_verify_helper(_)
ast_verify_helper(list) ==
  \A node \in ToSet(list) :
    ast_verify(node) /\ \A child \in Children(node) : ast_verify_helper(child)

\* mutant: a loop is forgotten below its body
RECURSIVE check_break_outside_loop_helper_near(_, _)
check_break_outside_loop_helper_near(list, in_loop) ==
  \A node \in ToSet(list) :
    /\ node.at = "Break" => in_loop
    /\ \A child \in Children(node) :
         check_break_outside_loop_helper_near(child, node.at = "While")
RECURSIVE check_break_outside_loop_helper(_, _)
check_break_outside_loop_helper(list, in_loop) ==
  \A node \in ToSet(list) :
    /\ node.at = "Break" => in_loop
    /\ \A child \in Children(node) :
         check_break_outside_loop_helper(child, in_loop \/ node.at = "While")

RECURSIVE check_return_outside_func_helper(_, _)
check_return_outside_func_helper(list, in_func) ==
  \A node \in ToSet(list) :
    /\ node.at = "Return" => in_func
    /\ \A child \in Children(node) :
         check_return_outside_func_helper(child, in_func \/ node.at = "Function")

RECURSIVE check_allowed_at_file_scope_helper(_, _)
check_allowed_at_file_scope_helper(list, at_file_scope) ==
  \A node \in ToSet(list) :
    /\ IF at_file_scope THEN node.at \in {"Function", "Type", "Variable"}
       ELSE /\ node.at # "Function"
            /\ node.at = "Type" => ast_Type_is_alias(node) \/ ast_Type_is_opaque(node)
    /\ \A child \in Children(node) : check_allowed_at_file_scope_helper(child, FALSE)

parse_checks(tree) ==
  CASE ~check_break_outside_loop_helper(tree, FALSE)  -> "break"
    [] ~check_return_outside_func_helper(tree, FALSE) -> "return"
    [] ~check_allowed_at_file_scope_helper(Head(tree).children[1], TRUE) -> "file scope"
    [] OTHER -> "ok"
-----------------------------------------------------------------------------
(* The grammar as a recogniser: what may still stand in a program after a  *)
(* text, as stacks of symbols.                                             *)

RECURSIVE Starters(_)
Starters(symbols) ==
  CASE symbols = << >>          -> {}
    [] symbols # << >> /\ Head(symbols) \in Tokens -> {Head(symbols)}
    [] symbols # << >> /\ Head(symbols) \in Rules ->
         UNION {Starters(p) : p \in Productions[Head(symbols)]}
           \cup (IF << >> \in Productions[Head(symbols)] THEN Starters(Tail(symbols)) ELSE {})
Fitting == [rule \in Rules |-> [t \in Tokens |->
              {p \in Productions[rule] : p = << >> \/ t \in Starters(p)}]]

RECURSIVE Past(_, _)
Past(stack, t) ==
  CASE stack = << >> -> {}
    [] stack # << >> /\ Head(stack) \in Tokens -> IF Head(stack) = t THEN {Tail(stack)} ELSE {}
    [] stack # << >> /\ Head(stack) \in Rules ->
         UNION {Past(p \o Tail(stack), t) : p \in Fitting[Head(stack)][t]}

RECURSIVE ToRead(_)
ToRead(text) == IF text = << >> THEN {<<"statement_list">>}
                ELSE UNION {Past(stack, Last(text)) : stack \in ToRead(Front(text))}

CanEnd(stack) == \A i \in 1..Len(stack) : stack[i] \in Rules /\ << >> \in Productions[stack[i]]

\* No program of the grammar is refused: where the parser reports a syntax
\* error, no program starts with what it has read and peeked at, or is that
\* if the text ends there (parse_block_statement and parse_atom predict from
\* two tokens, all others from one).
NeverRejectsASentence ==
  LET seen == read \o SelectSeq(ahead, LAMBDA t : t \in Tokens)
      ends == "EOF" \in ToSet(ahead)
  IN phase = "syntax_error" /\ "ERROR" \notin ToSet(ahead) =>
       ~\E stack \in ToRead(seen) : ends => CanEnd(stack)
-----------------------------------------------------------------------------
(* The texts a tree may have been read from.                               *)

Then(S, T) == {s \o t : s \in S, t \in T}
InTurn(texts) == FoldLeft(Then, {<< >>}, texts)
Tok(t) == {<<t>>}
Each(list, Text(_)) == [i \in 1..Len(list) |-> Text(list[i])]
\* A comma may follow the last item.
Listed(texts) ==
  IF texts = << >> THEN {<< >>}
  ELSE Then(FoldLeft(LAMBDA S, T : InTurn(<<S, Tok("COMMA"), T>>), Head(texts), Tail(texts)),
            {<< >>, <<"COMMA">>})
After(token, texts) == IF texts = << >> THEN {<< >>} ELSE Then(Tok(token), Head(texts))

TypenameText(n) == IF n.info.name = "type" THEN Tok("TYPE")
                   ELSE {<<"ID">> \o [i \in 1..n.info.ptr_level |-> "STAR"]}
FieldText(n) == InTurn(<<{<<"ID", "COLON">>}, TypenameText(n.children[2][1])>>)
AccessText(n) == IF n.at = "Identifier" THEN Tok("ID")
                 ELSE {<<"ID", IF n.info THEN "ARROW" ELSE "DOT", "ID">>}
NumberText(size, value) ==
  Tok(CASE size = 64 -> "NUMBER" [] size = 32 -> "CHAR_LITERAL" [] size = 0 -> "NULL"
        [] size = 1  -> IF value = 1 THEN "TRUE" ELSE "FALSE")

RECURSIVE ExprText(_), AtomText(_), CallText(_)
ExprText(n) ==
  LET lhs == AtomText(n.children[1][1])
      Op(set, Name(_)) == {<<t>> : t \in {t \in set : Name(t) = n.info}}
  IN CASE n.info = "NONE" -> lhs
       [] n.info # "NONE" /\ n.children[2] # Nothing ->
            InTurn(<<lhs, Op(Operators, OperatorOf), AtomText(n.children[2][1])>>)
       [] n.info # "NONE" /\ n.children[2] = Nothing ->
            Then(Op(PrefixOperators, PrefixOf), lhs)
AtomText(n) ==
  CASE n.at = "Number" -> NumberText(n.info.size, n.info.value)
    [] n.at = "String" -> Tok("STRING_LITERAL")
    [] n.at \in {"Identifier", "FieldAccess"} -> AccessText(n)
    [] n.at = "Expr"   -> InTurn(<<Tok("LPAREN"), ExprText(n.children[1][1]), Tok("RPAREN")>>)
    [] n.at = "Call"   -> CallText(n)
CallText(n) == InTurn(<<{<<"ID", "LPAREN">>}, Listed(Each(n.children[2], ExprText)), Tok("RPAREN")>>)

QualifierOf == [plain |-> << >>, extern |-> <<"EXTERN">>, export |-> <<"EXPORT">>]

RECURSIVE StatementText(_)
BlockText(block) ==
  InTurn(<<Tok("LCURLY")>> \o Each(block.children[1], StatementText) \o <<Tok("RCURLY")>>)
\* No else is an empty else, and `else if' an else with one if in its block.
ElseText(block) ==
  LET stmts == block.children[1]
  IN Then(Tok("ELSE"), BlockText(block))
       \cup (IF stmts = << >> THEN {<< >>} ELSE {})
       \cup (IF Len(stmts) = 1 /\ stmts[1].at = "Conditional"
             THEN Then(Tok("ELSE"), StatementText(stmts[1])) ELSE {})
StatementText(n) ==
  LET c(i) == n.children[i]
  IN CASE n.at = "Function" ->
            InTurn(<<{QualifierOf[n.info]}, {<<"FUNC", "ID", "LPAREN">>},
                     Listed(Each(c(2), FieldText)), {<<"RPAREN", "COLON">>}, TypenameText(c(3)[1]),
                     IF c(4) = Nothing THEN Tok("SEMICOLON") ELSE BlockText(c(4)[1])>>)
       [] n.at = "Type" ->   \* a type with no fields is an opaque one
            Then({<<"TYPE", "ID">>},
             (CASE ast_Type_is_opaque(n) -> {<<"SEMICOLON">>, <<"EQUALS", "LCURLY", "RCURLY">>}
                [] ~ast_Type_is_opaque(n) /\ ast_Type_is_alias(n) ->
                     InTurn(<<Tok("EQUALS"), TypenameText(c(2)[1]), Tok("SEMICOLON")>>)
                [] ~ast_Type_is_opaque(n) /\ ~ast_Type_is_alias(n) ->
                     InTurn(<<{<<"EQUALS", "LCURLY">>}>>
                              \o Each(c(2), LAMBDA f : Then(FieldText(f), Tok("SEMICOLON")))
                              \o <<Tok("RCURLY")>>)))
       [] n.at = "Variable" ->
            InTurn(<<{<<"LET", "ID">>}, After("COLON", Each(c(2), TypenameText)),
                     After("EQUALS", Each(c(3), ExprText)), Tok("SEMICOLON")>>)
       [] n.at = "Assignment" ->
            InTurn(<<IF n.info THEN Tok("STAR") ELSE {<< >>}, AccessText(c(1)[1]), Tok("EQUALS"),
                     ExprText(c(2)[1]), Tok("SEMICOLON")>>)
       [] n.at = "Conditional" ->
            InTurn(<<Tok("IF"), ExprText(c(1)[1]), BlockText(c(2)[1]), ElseText(c(3)[1])>>)
       [] n.at = "While" -> InTurn(<<Tok("WHILE"), ExprText(c(1)[1]), BlockText(c(2)[1])>>)
       [] n.at = "Return" ->
            InTurn(<<Tok("RETURN"), InTurn(Each(c(1), ExprText)), Tok("SEMICOLON")>>)
       [] n.at = "Break" -> {<<"BREAK", "SEMICOLON">>}
       [] n.at = "Call"  -> Then(CallText(n), Tok("SEMICOLON"))

\* The tokens of the names and literals of a tree, in the order of its children.
RECURSIVE Leaves(_)
Leaves(list) ==
  FlattenSeq(Each(list, LAMBDA n :
    IF n.at \in {"Identifier", "Typename", "Number", "String"} THEN <<n.loc>>
    ELSE FlattenSeq(Each(n.children, Leaves))))

\* A finished tree can be read back: it was built from the text consumed, up to
\* an empty else, `else if', a last comma and a type without fields; its names
\* and literals are those of the text, in order; and verify_ast accepts it.
\* (The constructors of ast.c take their children by position.)
TreeYieldsText ==
  phase = "done" =>
    /\ read \in InTurn(Each(ast[1].children[1], StatementText))
    /\ LET leaves == Leaves(ast)
       IN \A i, j \in 1..Len(leaves) : i < j => leaves[i] < leaves[j]
    /\ ast_verify_helper(ast)
-----------------------------------------------------------------------------
(* Where a token stands in a text, from its braces alone.                  *)

Count(t, i, j) == Cardinality({k \in i..j : read[k] = t})
\* The brace at k is open at i.
Encloses(k, i) == /\ read[k] = "LCURLY" /\ k < i
                  /\ \A m \in k..i : Count("LCURLY", k, m) > Count("RCURLY", k, m)
\* The brace at k opens the body of the statement at j.
Opens(k, j) == /\ j < k /\ read[k] = "LCURLY"
               /\ \A m \in j..k - 1 : read[m] \notin {"LCURLY", "SEMICOLON"}
Inside(i, keyword) ==
  \E j, k \in 1..i : read[j] = keyword /\ Opens(k, j) /\ Encloses(k, i)
AtFileScope(i) == ~\E k \in 1..i : Encloses(k, i)
StructType(i) == /\ i + 4 <= Len(read)
                 /\ SubSeq(read, i, i + 3) = <<"TYPE", "ID", "EQUALS", "LCURLY">>
                 /\ read[i + 4] # "RCURLY"
\* A statement that is neither a function nor a type nor a variable starts here.
Executable(i) == \/ read[i] \in {"IF", "WHILE", "RETURN", "BREAK"}
                 \/ read[i] \in {"ID", "STAR"} /\ (i = 1 \/ read[i - 1] \in {"SEMICOLON", "RCURLY"})
All == 1..Len(read)

\* parse_checks says of a tree what the nesting of its text says: breaks are
\* inside loops, returns inside functions, functions and types with fields at
\* file scope and nothing else but variables and other types there.
ChecksFollowNesting ==
  phase = "done" =>
    parse_checks(ast) =
      CASE \E i \in All : read[i] = "BREAK" /\ ~Inside(i, "WHILE") -> "break"
        [] ~(\E i \in All : read[i] = "BREAK" /\ ~Inside(i, "WHILE"))
             /\ \E i \in All : read[i] = "RETURN" /\ ~Inside(i, "FUNC") -> "return"
        [] OTHER -> IF \E i \in All : IF AtFileScope(i) THEN Executable(i)
                                      ELSE read[i] = "FUNC" \/ StructType(i)
                    THEN "file scope" ELSE "ok"
=============================================================================
