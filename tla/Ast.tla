---------------------------------- MODULE Ast ----------------------------------
(***************************************************************************)
(* The nodes of the syntax tree (src/src/ast/ast.c): constructors and      *)
(* verify_ast's check of a node.  A child is a list of nodes, the empty    *)
(* list for NULL.  `info' is int_value, or the value of a number; `loc' is *)
(* the token whose line is the node's location, 0 if it has none.          *)
(***************************************************************************)
EXTENDS Naturals, Sequences

Nothing == << >>   \* NULL

ast_allocate(at, children, info) == [at |-> at, children |-> children, info |-> info, loc |-> 0]
add_location(node, token) == [node EXCEPT !.loc = token]
ast_append(head, tail) == head \o tail
ast_is_type(list, at) == list # Nothing /\ Head(list).at = at

ast_build_Identifier == ast_allocate("Identifier", << >>, 0)
\* The name is the token, or the keyword "type" as a name.
ast_build_Typename2(name, ptr_level) ==
  ast_allocate("Typename", << >>, [name |-> name, ptr_level |-> ptr_level])
ast_build_FieldAccess(object, is_ptr, field) == ast_allocate("FieldAccess", <<object, field>>, is_ptr)
ast_build_Type(name, args) == ast_allocate("Type", <<name, args>>, FALSE)
ast_build_TypeAlias(name, alias) == ast_allocate("Type", <<name, alias>>, TRUE)
ast_build_OpaqueType(name) == ast_allocate("Type", <<name, Nothing>>, FALSE)
ast_build_Variable(name, type, expr) == ast_allocate("Variable", <<name, type, expr>>, 0)
ast_build_FunctionHeader(name, args, ret_type) ==
  ast_allocate("Function", <<name, args, ret_type, Nothing>>, "plain")
ast_build_Function(header, body) == [header EXCEPT !.children[4] = body]
ast_build_ExternFunction(func) == [func EXCEPT !.info = "extern"]
ast_build_ExportFunction(func) == [func EXCEPT !.info = "export"]
ast_build_Assignment(lhs, expr, is_ptr_access) ==
  ast_allocate("Assignment", <<lhs, expr>>, is_ptr_access)
ast_build_Return(expr) == ast_allocate("Return", <<expr>>, 0)
ast_build_Break == ast_allocate("Break", << >>, 0)
ast_build_Block(stmts) == ast_allocate("Block", <<stmts>>, 0)
ast_build_EmptyBlock == ast_build_Block(Nothing)
\* mutant: the bodies in the other order
ast_build_Conditional_swapped(condition, if_body, else_body) ==
  ast_allocate("Conditional", <<condition, else_body, if_body>>, 0)
ast_build_Conditional(condition, if_body, else_body) ==
  ast_allocate("Conditional", <<condition, if_body, else_body>>, 0)
ast_build_While(condition, body) == ast_allocate("While", <<condition, body>>, 0)
ast_build_Expr_binop(lhs, rhs, op) == ast_allocate("Expr", <<lhs, rhs>>, op)
ast_build_Expr_uop(lhs, op) == ast_build_Expr_binop(lhs, Nothing, op)
ast_build_Expr_plain(lhs) == ast_build_Expr_uop(lhs, "NONE")
ast_build_Call(name, args) == ast_allocate("Call", <<name, args>>, 0)
ast_build_Number(value, size) == ast_allocate("Number", << >>, [value |-> value, size |-> size])
ast_build_String(value) == ast_allocate("String", << >>, value)

\* The second child of a type: its fields, the alias, or nothing.
ast_Type_is_opaque(node) == node.children[2] = Nothing
ast_Type_is_alias(node) == node.info

IsNothingOr(list, at) == list = Nothing \/ ast_is_type(list, at)

(* ast_verify_X: a list is judged by its first node, X by the switch of     *)
(* ast_verify_helper.                                                      *)
ast_verify_FieldAccess(node) ==
  ast_is_type(node.children[1], "Identifier") /\ ast_is_type(node.children[2], "Identifier")
ast_verify_Type(node) ==
  /\ ast_is_type(node.children[1], "Identifier")
  /\ \/ ast_Type_is_opaque(node)
     \/ ast_is_type(node.children[2], IF ast_Type_is_alias(node) THEN "Typename" ELSE "Variable")
ast_verify_Variable(node) ==
  /\ ast_is_type(node.children[1], "Identifier")
  /\ IsNothingOr(node.children[2], "Typename") /\ IsNothingOr(node.children[3], "Expr")
ast_verify_Function(node) ==
  /\ ast_is_type(node.children[1], "Identifier") /\ IsNothingOr(node.children[2], "Variable")
  /\ ast_is_type(node.children[3], "Typename")
ast_verify_Assignment(node) ==
  /\ \E at \in {"Identifier", "FieldAccess"} : ast_is_type(node.children[1], at)
  /\ ast_is_type(node.children[2], "Expr")
ast_verify_Return(node) == IsNothingOr(node.children[1], "Expr")
ast_verify_Conditional(node) ==
  ast_is_type(node.children[1], "Expr") /\ \A i \in 2..3 : node.children[i] # Nothing
ast_verify_While(node) == ast_is_type(node.children[1], "Expr") /\ node.children[2] # Nothing
ast_verify_Expr(node) == node.children[1] # Nothing
ast_verify_Call(node) ==
  ast_is_type(node.children[1], "Identifier") /\ IsNothingOr(node.children[2], "Expr")

ast_verify(node) ==
  CASE node.at = "FieldAccess" -> ast_verify_FieldAccess(node)
    [] node.at = "Type"        -> ast_verify_Type(node)
    [] node.at = "Variable"    -> ast_verify_Variable(node)
    [] node.at = "Function"    -> ast_verify_Function(node)
    [] node.at = "Assignment"  -> ast_verify_Assignment(node)
    [] node.at = "Return"      -> ast_verify_Return(node)
    [] node.at = "Conditional" -> ast_verify_Conditional(node)
    [] node.at = "While"       -> ast_verify_While(node)
    [] node.at = "Expr"        -> ast_verify_Expr(node)
    [] node.at = "Call"        -> ast_verify_Call(node)
    [] node.at \in {"Identifier", "Typename", "Break", "Block", "Number", "String"} -> TRUE
=============================================================================
