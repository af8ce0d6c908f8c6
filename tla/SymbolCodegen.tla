---------------------------- MODULE SymbolCodegen ----------------------------
(***************************************************************************)
(* How the code generator uses the scope table: it walks the nodes of the  *)
(* program a second time (src/src/codegen/cg-inst.c, cg-function.c,        *)
(* cg-call.c, codegen-llvm.c), looks every name up in the table, complete  *)
(* by now, and emits references to the values it has created so far.       *)
(* Instructions, blocks and LLVM types are left out.                       *)
(***************************************************************************)
EXTENDS ScopeResolve

VARIABLES pc,     \* the node the second walk is at
          sr,     \* the scope the second walk is in
          vals,   \* symbols with an entry in current_values
          refs,   \* emitted references: node, symbol, type
          calls,  \* emitted calls: node, name of the LLVM function
          funs    \* LLVM functions: name -> linkage flag, body, parameters

cgVars == <<pc, sr, vals, refs, calls, funs>>
vars == <<resolveVars, cgVars>>

Node0 == nodes[pc]

Ref == [use : Nat, decl : Nat, type : Nat]
Call == [use : Nat, callee : TypeNames]
CgFunction == [external : BOOLEAN, body : BOOLEAN, args : Nat]
-----------------------------------------------------------------------------
CgInit ==
  /\ Init
  /\ pc = Len(nodes) + 1 /\ sr = 0
  /\ vals = {} /\ refs = {} /\ calls = {}
  /\ funs = [f \in {} |-> [external |-> FALSE, body |-> FALSE, args |-> 0]]

\* peblc's main calls codegen when scope_resolve has returned.
StartCodegen ==
  /\ phase = "resolve" /\ cur = 0
  /\ phase' = "codegen"
  /\ UNCHANGED <<nodes, table, bodied, chain, cur, cgVars>>

At(kinds) == phase = "codegen" /\ pc <= Len(nodes) /\ Node0.kind \in kinds

Stop(how) ==
  /\ phase' = how
  /\ UNCHANGED <<nodes, table, bodied, chain, cur, cgVars>>

Emit_lost(newVals, newRefs) ==   \* mutant: add_value is not called
  /\ pc' = pc + 1
  /\ refs' = refs \cup newRefs
  /\ UNCHANGED <<resolveVars, sr, vals, calls, funs>>
Emit(newVals, newRefs) ==
  /\ pc' = pc + 1
  /\ vals' = vals \cup newVals
  /\ refs' = refs \cup newRefs
  /\ UNCHANGED <<resolveVars, sr, calls, funs>>

\* get_llvm_type of a type: none for an opaque one, and no end to the search
\* for the base type of an alias that names itself.
NoLlvmType(t) ==
  \/ nodes[t].kind = "opaque" /\ Stop("error")
  \/ nodes[t].kind = "type" /\ Stop("spinning")

\* The symbol of an identifier, when it has a value.
get_value_unset(n) == scope_lookup_name(sr, n)   \* mutant: no check that it is there
get_value(n) == {y \in scope_lookup_name(sr, n) : y \in vals}

CgIdentifier ==
  /\ At({"use"})
  /\ \/ get_value(Node0.name) = {} /\ Stop("error")
     \/ \E y \in get_value(Node0.name) :
          Emit({}, {[use |-> pc, decl |-> y, type |-> table[y]]})

\* A variable: its type, its initialiser, and only then its own value.  A
\* global initialiser must be a constant.
CgVariable ==
  /\ At({"var", "let", "cast"})
  /\ \E sym \in scope_lookup_name(sr, Node0.name) :
       \/ NoLlvmType(table[sym])
       \/ /\ nodes[table[sym]].kind = "builtin"
          /\ \/ Node0.kind = "var" /\ Emit({sym}, {})
             \/ /\ Node0.kind = "let" /\ (sr = 0 \/ get_value(Node0.of) = {})
                /\ Stop("error")
             \/ /\ Node0.kind = "let" /\ sr # 0
                /\ \E y \in get_value(Node0.of) :
                     Emit({sym}, {[use |-> pc, decl |-> y, type |-> table[y]]})
             \/ /\ Node0.kind = "cast"
                /\ \/ scope_get_Type_from_name(sr, Node0.of) = {} /\ Stop("error")
                   \/ \E y \in scope_get_Type_from_name(sr, Node0.of) :
                        \/ NoLlvmType(table[y])
                        \/ /\ nodes[table[y]].kind = "builtin"
                           /\ Emit({sym}, {[use |-> pc, decl |-> y, type |-> table[y]]})

\* A type definition, the block of an if or a while, its end: the scopes the
\* walk may be in behind it.
ScopeAfter_stays(nd) == IF nd.kind = "open" THEN {pc} ELSE {sr}   \* mutant
ScopeAfter(nd) == CASE nd.kind = "open"  -> {pc}
                    [] nd.kind = "close" -> Parent(sr)
                    [] OTHER             -> {sr}

CgTypeOrBlock ==
  /\ At({"type", "opaque", "open", "close"})
  /\ pc' = pc + 1
  /\ sr' \in ScopeAfter(Node0)
  /\ UNCHANGED <<resolveVars, vals, refs, calls, funs>>

\* The LLVM function of a declaration: the first one of the name decides its
\* parameters and whether it is external.
codegen_function_prototype_export(nd) ==   \* mutant: export is forgotten
  IF nd.name \in DOMAIN funs
  THEN funs[nd.name]
  ELSE [external |-> nd.ext = "extern", body |-> FALSE, args |-> nd.args]
codegen_function_prototype(nd) ==
  IF nd.name \in DOMAIN funs
  THEN funs[nd.name]
  ELSE [external |-> nd.ext # "none", body |-> FALSE, args |-> nd.args]

AddFunction(nd, body) ==
  funs' = [f \in DOMAIN funs \cup {nd.name} |->
             IF f = nd.name
             THEN [codegen_function_prototype(nd) EXCEPT !.body = @ \/ body]
             ELSE funs[f]]

CgPrototype ==
  /\ At({"proto"})
  /\ AddFunction(Node0, FALSE)
  /\ pc' = pc + 1
  /\ UNCHANGED <<resolveVars, sr, vals, refs, calls>>

\* codegen_function with a body: every parameter is looked up by name from
\* the scope of the body and gets a value on the stack.
codegen_function ==
  /\ At({"func"})
  /\ LET params == pc + 1 .. pc + Node0.args
         found  == UNION {scope_lookup_name(pc, nodes[j].name) : j \in params}
     IN \/ /\ \E j \in params : scope_lookup_name(pc, nodes[j].name) = {}
           /\ Stop("error")
        \/ /\ \A j \in params : scope_lookup_name(pc, nodes[j].name) # {}
           \* LLVMGetParam past the parameters of the first declaration
           /\ codegen_function_prototype(Node0).args < Node0.args
           /\ Stop("undefined")
        \/ /\ \A j \in params : scope_lookup_name(pc, nodes[j].name) # {}
           /\ codegen_function_prototype(Node0).args >= Node0.args
           /\ AddFunction(Node0, TRUE)
           /\ vals' = vals \cup found
           /\ pc' = pc + Node0.args + 1
           /\ sr' = pc
           /\ UNCHANGED <<resolveVars, refs, calls>>

\* The symbol must exist; the function called is the LLVM function of that
\* name, whatever the symbol is.
Callable_symbol(n) == scope_lookup_name(sr, n) # {}   \* mutant
Callable(n) == scope_lookup_name(sr, n) # {} /\ n \in DOMAIN funs

codegen_call ==
  /\ At({"call"})
  /\ \/ ~Callable(Node0.name) /\ Stop("error")
     \/ /\ Callable(Node0.name)
        /\ calls' = calls \cup {[use |-> pc, callee |-> Node0.name]}
        /\ pc' = pc + 1
        /\ UNCHANGED <<resolveVars, sr, vals, refs, funs>>

\* set_linkage, the last step: with a main, whatever has a body and is not
\* marked external becomes internal.
IsExternal(f) == \/ "main" \notin DOMAIN funs
                 \/ funs[f].external
                 \/ ~funs[f].body

FinishCodegen == phase = "codegen" /\ pc > Len(nodes) /\ Stop("done")

Ended == {"done", "error", "undefined"}
Exit == phase \in Ended /\ UNCHANGED vars
Spin == phase = "spinning" /\ UNCHANGED vars   \* Type_get_base_type's loop

Next ==
  \/ ResolveNext /\ UNCHANGED cgVars
  \/ StartCodegen
  \/ CgIdentifier
  \/ CgVariable
  \/ CgTypeOrBlock
  \/ CgPrototype
  \/ codegen_function
  \/ codegen_call
  \/ FinishCodegen
  \/ Exit
  \/ Spin

Spec == CgInit /\ [][Next]_vars

\* The compiler is one sequential process: it takes its next step.
FairSpec == Spec /\ WF_vars(Next)
-----------------------------------------------------------------------------
\* What lexical scoping says, from the text of the program alone: the name at
\* node u denotes the nearest declaration before u in the scopes around u.
Declares(d) == nodes[d].kind \in TypeKinds \cup VarKinds \cup FuncKinds
UsedName(u) == IF nodes[u].kind \in {"use", "call"} THEN nodes[u].name ELSE nodes[u].of
InReach(d, u) == /\ d < u /\ Declares(d)
                 /\ nodes[d].name = UsedName(u)
                 /\ nodes[d].scope \in chain[nodes[u].scope]
Denotes(u, d) == /\ InReach(d, u)
                 /\ \A z \in 1..Len(nodes) : InReach(z, u) => Nearer(d, z)

\* Every value the code generator refers to is the one lexical scoping names,
\* although it looks the name up in the table of the whole program, later
\* declarations included (cg-inst.c:111-129, cg-helpers.c:12-20).
BindingIsLexical ==
  \A r \in refs : nodes[r.use].kind # "cast" => Denotes(r.use, r.decl)

\* The type scope resolution infers for a variable from an identifier, with
\* the table built so far, is the type of the value the code generator stores
\* in it, found with the complete table.
InferredTypeAgrees ==
  \A r \in refs : nodes[r.use].kind = "let" => r.type = table[r.use]

\* A cast changes its meaning between the two walks only when its function
\* declares the type name again after the cast.
CastCapturedOnlyByLaterAlias ==
  \A r \in refs : nodes[r.use].kind = "cast" =>
    \/ Denotes(r.use, r.decl) /\ r.type = table[r.use]
    \/ r.decl > r.use /\ nodes[r.decl].scope # 0

\* No list of symbols holds a name twice, parameters apart, which no one
\* checks: a body that completes a prototype, or a variable, a type and a
\* function of one name, share one entry or are refused.
UniqueInScope ==
  \A y, z \in Syms :
    /\ nodes[y].scope = nodes[z].scope /\ nodes[y].name = nodes[z].name
    /\ y # z
    => nodes[y].kind = "param" /\ nodes[z].kind = "param"

\* The two walks agree on the scope they are in.
WalksAgree ==
  phase = "codegen" /\ pc <= Len(nodes) => nodes[pc].scope = sr

\* A call that is emitted reaches a function declared before the call in the
\* file; calling a function declared only later is an error.
CalleeDeclaredBefore ==
  \A c \in calls : \E d \in 1 .. c.use - 1 :
    nodes[d].kind \in FuncKinds /\ nodes[d].name = c.callee

\* A module is only written when every parameter and variable has a value.
DoneHasValues ==
  phase = "done" =>
    \A y \in Syms : nodes[y].kind \in VarKinds =>
      y \in vals \/ \E z \in vals : nodes[z].kind = "param"
                      /\ nodes[z].scope = nodes[y].scope /\ nodes[z].name = nodes[y].name

\* Exported functions are visible to other modules (the code breaks it).
ExportIsExternal ==
  phase = "done" =>
    \A d \in 1..Len(nodes) : nodes[d].ext = "export" => IsExternal(nodes[d].name)

\* They are when no prototype of theirs comes first, whatever else is declared.
ExportWithoutPrototype ==
  phase = "done" =>
    \A d \in 1..Len(nodes) :
      /\ nodes[d].ext = "export"
      /\ \A e \in 1 .. d - 1 : nodes[e].kind = "proto" => nodes[e].name # nodes[d].name
      => IsExternal(nodes[d].name)

\* The variable the second walk is at has, or is cast to, an alias that the program
\* declares to be of itself.
Circular ==
  \E d \in 1..Len(nodes) :
    /\ nodes[d].kind = "type" /\ nodes[d].of = nodes[d].name
    /\ Node0.kind \in VarKinds
    /\ \/ \E y \in scope_lookup_name(sr, Node0.name) : table[y] = d
       \/ Node0.kind = "cast" /\ \E y \in scope_get_Type_from_name(sr, Node0.of) : table[y] = d

\* Every compilation ends, in a module or in an error, unless a variable is given a type
\* that is an alias of itself: Type_get_base_type then follows it for ever (Type.c:86-92).
\* No longer chain of aliases closes, though an alias is in the table before what it
\* stands for is looked up (scope-resolve.c), and types are declared again in functions.
CompilationEnds == <>(phase \in Ended \/ (phase = "spinning" /\ Circular))
=============================================================================
