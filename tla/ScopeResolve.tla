---------------------------- MODULE ScopeResolve ----------------------------
(***************************************************************************)
(* Scope resolution, src/src/ast/scope-resolve.c: the one pre-order walk   *)
(* over the AST that builds the scope table.  The program is not given: at *)
(* every step the walk meets some next statement, which is recorded in     *)
(* `nodes', so that the behaviours cover every program up to the bounds.   *)
(* The code generator (SymbolCodegen) then walks the same recorded nodes   *)
(* again, with the complete table.                                         *)
(*                                                                         *)
(* A node is identified by its index in `nodes' (the address of the        *)
(* AstNode), a scope by the node that opens it (ScopeResult.ast), the file *)
(* scope by 0, and a symbol by the node that appended it to the list of    *)
(* its scope; the order of indices is the order of the lists.              *)
(***************************************************************************)
EXTENDS Naturals, Sequences

CONSTANTS Names,        \* identifiers the program writes
          BuiltinTypes, \* the names install_builtins declares, in order
          Kinds,        \* the kinds of statement the program uses
          MaxNodes,     \* bound on the recorded nodes (closing braces apart)
          MaxParams     \* bound on the parameters of a function

ASSUME NamesAssumption == BuiltinTypes \in Seq(STRING) /\ Len(BuiltinTypes) > 0
\* install_builtins asserts that a builtin does not exist already.
ASSUME BuiltinsDistinct ==
  \A i, j \in 1..Len(BuiltinTypes) : BuiltinTypes[i] = BuiltinTypes[j] => i = j
ASSUME BoundsAssumption == MaxNodes \in Nat /\ MaxParams \in Nat

VARIABLES phase,   \* how far the compiler is, or how it ended
          nodes,   \* the statements met so far, in the order of the walk
          table,   \* symbol -> the type it denotes or has (0: a function)
          bodied,  \* function symbols whose AstNode has a body
          chain,   \* scope -> the scope and the scopes around it
          cur      \* the scope the walk is in

resolveVars == <<phase, nodes, table, bodied, chain, cur>>

TypeNames  == Names \cup {BuiltinTypes[i] : i \in 1..Len(BuiltinTypes)}
Linkages   == {"none", "extern", "export"}
TypeKinds  == {"builtin", "type", "opaque"}
VarKinds   == {"var", "let", "cast", "param"}
FuncKinds  == {"proto", "func"}
NodeKinds  == TypeKinds \cup VarKinds \cup FuncKinds
                \cup {"open", "close", "use", "call"}
Node == [kind : NodeKinds, name : TypeNames \cup {""}, of : TypeNames \cup {""},
         ext : Linkages, args : Nat, scope : Nat]

Here == Len(nodes) + 1
Syms == DOMAIN table
Scopes == DOMAIN chain

NewNode(k, n, of) == [kind |-> k, name |-> n, of |-> of,
                      ext |-> "none", args |-> 0, scope |-> cur]
-----------------------------------------------------------------------------
\* scope_lookup_name of one scope only: its entries of that name.  At file
\* scope there is at most one (UniqueInScope).
LookupLocal(s, n) == {y \in Syms : nodes[y].scope = s /\ nodes[y].name = n}

Visible(s, n) == {y \in Syms : nodes[y].scope \in chain[s] /\ nodes[y].name = n}

Nearer(y, z) == \/ nodes[z].scope < nodes[y].scope
                \/ nodes[z].scope = nodes[y].scope /\ y <= z

\* The first entry of the nearest scope that has one: a set with at most one
\* element, empty where the code returns NULL.
scope_lookup_name(s, n) ==
  {y \in Visible(s, n) : \A z \in Visible(s, n) : Nearer(y, z)}

\* mutant: what is no type is passed over
scope_get_Type_from_name_skips(s, n) ==
  {y \in Visible(s, n) : /\ nodes[y].kind \in TypeKinds
                         /\ \A z \in Visible(s, n) : nodes[z].kind \in TypeKinds => Nearer(y, z)}
scope_get_Type_from_name(s, n) ==
  {y \in scope_lookup_name(s, n) : nodes[y].kind \in TypeKinds}

\* The type of an initialiser that is an identifier: a type or a variable.
TypeOfIdentifier_file(s, n) ==   \* mutant: of the file scope
  {y \in LookupLocal(0, n) : nodes[y].kind \in TypeKinds \cup VarKinds}
TypeOfIdentifier(s, n) ==
  {y \in scope_lookup_name(s, n) : nodes[y].kind \in TypeKinds \cup VarKinds}

check_for_redefinition_vars(n) ==   \* mutant: functions and types are forgotten
  \E y \in LookupLocal(cur, n) : nodes[y].kind \in VarKinds
check_for_redefinition(n) == LookupLocal(cur, n) # {}
-----------------------------------------------------------------------------
\* install_builtins: the file scope starts with the builtin types.
Init ==
  /\ phase = "resolve"
  /\ nodes = [i \in 1..Len(BuiltinTypes) |->
                [kind |-> "builtin", name |-> BuiltinTypes[i], of |-> "",
                 ext |-> "none", args |-> 0, scope |-> 0]]
  /\ table = [i \in 1..Len(BuiltinTypes) |-> i]
  /\ bodied = {}
  /\ chain = [s \in {0} |-> {0}]
  /\ cur = 0

\* ERROR_ON_AST: the compiler exits with status 1.
Fail == phase' = "error" /\ UNCHANGED <<nodes, table, bodied, chain, cur>>

Walking == phase = "resolve" /\ Here <= MaxNodes

\* Append the node and its symbol, of type t, to the current scope.
Declare(node, t) ==
  /\ nodes' = Append(nodes, node)
  /\ table' = [y \in Syms \cup {Here} |-> IF y = Here THEN t ELSE table[y]]
  /\ UNCHANGED <<phase, bodied, chain, cur>>

\* let n : T;  (var)   let n = x;  (let)   let n = literal : T;  (cast)
build_ScopeSymbol_for_variable ==
  \E k \in {"var", "let", "cast"} \cap Kinds, n \in Names, of \in TypeNames :
    /\ Walking
    /\ LET typed == IF k = "let" THEN TypeOfIdentifier(cur, of)
                                 ELSE scope_get_Type_from_name(cur, of)
       IN \/ /\ check_for_redefinition(n) \/ typed = {}
             /\ Fail
          \/ /\ ~check_for_redefinition(n)
             /\ \E y \in typed : Declare(NewNode(k, n, of), table[y])

\* mutant: a name that is no type is no error, and leaves the alias as it was allocated
Target_lax(n, of) == IF of = n \/ scope_get_Type_from_name(cur, of) = {} THEN {Here}
                     ELSE {table[y] : y \in scope_get_Type_from_name(cur, of)}
\* What type n = of denotes: the alias itself, or what that name denotes so far.
Target(n, of) == IF of = n THEN {Here} ELSE {table[y] : y \in scope_get_Type_from_name(cur, of)}

\* type n = T;  (type)   type n;  (opaque)   The symbol is appended before
\* the definition is resolved, so an alias can name itself: it then denotes
\* its own, never completed, Type.
build_ScopeSymbol_for_type ==
  \E k \in {"type", "opaque"} \cap Kinds, n \in Names, of \in TypeNames :
    /\ Walking
    /\ k = "opaque" => of = n
    /\ \/ /\ check_for_redefinition(n) \/ Target(n, of) = {}
          /\ Fail
       \/ /\ ~check_for_redefinition(n)
          /\ \E t \in Target(n, of) : Declare(NewNode(k, n, of), t)

FuncNode(k, n, ext, ps) ==
  [kind |-> k, name |-> n, of |-> "", ext |-> ext, args |-> Len(ps), scope |-> cur]
ParamNodes(ps) ==
  [j \in 1..Len(ps) |-> [kind |-> "param", name |-> ps[j], of |-> "",
                         ext |-> "none", args |-> 0, scope |-> Here]]

\* The parameters become symbols of a new scope, the body's: as many as the
\* symbol was allocated for (room).  A definition with fewer leaves entries of
\* the array uninitialised, and the list of the scope is undefined; one with
\* more writes behind the array, which may do no harm.  The walk goes on in the
\* new scope.
add_body_to_func_sym(sym, room, params) ==
  LET last == Here + (IF params < room THEN params ELSE room)
  IN /\ bodied' = bodied \cup {sym}
     /\ table' = [y \in Syms \cup {sym} \cup Here + 1 .. last |->
                    IF y \in Syms THEN table[y] ELSE IF y = sym THEN 0 ELSE 1]
     /\ chain' = [s \in Scopes \cup {Here} |->
                    IF s = Here THEN chain[cur] \cup {Here} ELSE chain[s]]
     /\ cur' = Here
     /\ phase' \in CASE params < room -> {"undefined"}
                    [] params > room -> {phase, "undefined"}
                    [] OTHER         -> {phase}

build_ScopeSymbol_for_func ==
  \E k \in FuncKinds \cap Kinds, n \in Names, ext \in Linkages :
  \E m \in 0..MaxParams : \E ps \in [1..m -> Names] :
    /\ Walking
    /\ cur = 0
    /\ ext = "export" => k = "func"
    /\ ext = "extern" => k = "proto"
    /\ LET same  == LookupLocal(cur, n)
           known(b) == {y \in same : nodes[y].kind \in FuncKinds /\ (y \in bodied) = b}
       IN \/ /\ same = {}
             /\ nodes' = Append(nodes, FuncNode(k, n, ext, ps))
                           \o (IF k = "func" THEN ParamNodes(ps) ELSE << >>)
             /\ IF k = "func"
                THEN add_body_to_func_sym(Here, Len(ps), Len(ps))
                ELSE /\ table' = [y \in Syms \cup {Here} |->
                                    IF y = Here THEN 0 ELSE table[y]]
                     /\ UNCHANGED <<phase, bodied, chain, cur>>
          \/ /\ k = "proto" /\ known(TRUE) # {}
             /\ nodes' = Append(nodes, FuncNode(k, n, ext, ps))
             /\ UNCHANGED <<phase, table, bodied, chain, cur>>
          \/ /\ k = "func"
             /\ \E y \in known(FALSE) :
                  /\ nodes' = Append(nodes, FuncNode(k, n, ext, ps)) \o ParamNodes(ps)
                  /\ add_body_to_func_sym(y, nodes[y].args, Len(ps))
          \/ /\ same # {} /\ known(k = "proto") = {}
             /\ Fail

\* The block of an if or a while, and a closing brace.
EnterBlock ==
  /\ Walking
  /\ cur # 0 /\ "open" \in Kinds
  /\ nodes' = Append(nodes, NewNode("open", "", ""))
  /\ chain' = [s \in Scopes \cup {Here} |->
                 IF s = Here THEN chain[cur] \cup {Here} ELSE chain[s]]
  /\ cur' = Here
  /\ UNCHANGED <<phase, table, bodied>>

Parent(s) == {p \in chain[s] \ {s} : \A q \in chain[s] \ {s} : q <= p}

LeaveBlock ==
  /\ phase = "resolve" /\ cur # 0
  /\ nodes' = Append(nodes, NewNode("close", "", ""))
  /\ cur' \in Parent(cur)
  /\ UNCHANGED <<phase, table, bodied, chain>>

\* An identifier in an expression, a call: nothing is resolved yet.
scope_resolve_internal ==
  \E k \in {"use", "call"} \cap Kinds, n \in Names :
    /\ Walking
    /\ cur # 0
    /\ nodes' = Append(nodes, NewNode(k, n, ""))
    /\ UNCHANGED <<phase, table, bodied, chain, cur>>

ResolveNext ==
  \/ build_ScopeSymbol_for_variable
  \/ build_ScopeSymbol_for_type
  \/ build_ScopeSymbol_for_func
  \/ EnterBlock
  \/ LeaveBlock
  \/ scope_resolve_internal
=============================================================================
