--------------------------------- MODULE Types ---------------------------------
(***************************************************************************)
(* Types (src/src/ast/Type.c), their declaration (scope-resolve.c) and the *)
(* LLVM type the generator makes of one (cg-helpers.c).  A Type is an      *)
(* entry of the table with a number of stars; an alias or a field refers   *)
(* to a Type, a struct perhaps to itself.                                  *)
(***************************************************************************)
EXTENDS Integers, Sequences, FiniteSets

CONSTANTS Width,         \* of a builtin type, in bits
          MaxStars,      \* bound: pointers to pointers
          Programs       \* bound: the lists of type declarations tried

VARIABLES program,  \* the declarations not yet resolved
          types,  \* the Types, by their names
          names,  \* what a name of the scope of the expressions stands for
          phase   \* "declare", "expression", "stored", or how the compiler ended

Builtins == {"void", "int64", "int8", "bool", "char"}

\* What is in the table under no name: a type of the body, and what is no type.
Inner == "type of the body"
Nameless == {Inner, "no type", "dangling type"}

Typename == [name : STRING, stars : 0..MaxStars]
Declaration == [name : STRING \ Nameless, kind : {"opaque", "alias", "typedef"},
                scope : {"file", "body"}, of : Typename,
                fields : Seq([name : STRING, type : Typename]), uses : SUBSET STRING]
\* A body declares aliases (parse_checks); bound: of one body, and one at most.
WellDeclared(p) ==
  /\ \A i \in 1..Len(p) :
       /\ p[i].scope = "body" => p[i].kind = "alias"
       /\ p[i].kind = "alias" => p[i].of.name \in p[i].uses
       /\ \A j \in 1..Len(p[i].fields) : p[i].fields[j].type.name \in p[i].uses
  /\ \A i, j \in 1..Len(p) : p[i].scope = "body" /\ p[j].scope = "body" => i = j
TypesAssumption == /\ Width \in [Builtins -> Nat] /\ MaxStars \in Nat \ {0}
                   /\ Width["void"] = 0 /\ Width["bool"] = 1
                   /\ \A b \in Builtins \ {"void", "bool"} : Width[b] > 1
                   /\ \A b \in Builtins \ {"int64"} : Width[b] < Width["int64"]
                   /\ \A p \in Programs : p \in Seq(Declaration) /\ WellDeclared(p)
ASSUME TypesAssumption
-----------------------------------------------------------------------------
Type(name) == [name |-> name, stars |-> 0]
AllTypes == [name : DOMAIN types, stars : 0..MaxStars]
Type_get_ptr_type(t) == [t EXCEPT !.stars = @ + 1]

\* Follow alias chains.
BaseOf[name \in DOMAIN types] ==
  LET alias_of == types[name].of
  IN IF types[name].kind # "alias" THEN Type(name)
     ELSE IF alias_of.stars > 0 THEN alias_of ELSE BaseOf[alias_of.name]
Type_get_base_type(t) == IF t.stars > 0 THEN t ELSE BaseOf[t.name]

KindOf(t) == IF t.stars > 0 THEN "pointer" ELSE types[t.name].kind
Type_is_pointer(t) == KindOf(Type_get_base_type(t)) = "pointer"
Type_get_pointee_type(t) == [Type_get_base_type(t) EXCEPT !.stars = @ - 1]

Equal[pair \in AllTypes \X AllTypes] ==
  LET b1 == Type_get_base_type(pair[1])
      b2 == Type_get_base_type(pair[2])
  IN IF Type_is_pointer(b1) /\ Type_is_pointer(b2)
     THEN Equal[<<Type_get_pointee_type(b1), Type_get_pointee_type(b2)>>]
     ELSE KindOf(b1) = KindOf(b2) /\ b1.name = b2.name
Type_eq(t1, t2) == Equal[<<t1, t2>>]

IsBuiltin(t, set) == Type_get_base_type(t) \in {Type(name) : name \in set}
Type_is_integer(t) == IsBuiltin(t, {"int64", "int8", "char"})
Type_is_signed(t) == Type_is_integer(t)
Type_is_void(t) == IsBuiltin(t, {"void"})
Type_is_boolean(t) == IsBuiltin(t, {"bool"})
Type_ptr_size == Width["int64"]
\* Asked only of pointers and builtins: the sizes of structs are left out.
Type_get_size(t) == IF Type_is_pointer(t) THEN Type_ptr_size ELSE types[Type_get_base_type(t).name].size
\* Of a struct, not of an alias of one.
Type_is_typedef(t) == KindOf(t) = "typedef"

Type_int_type(size) == Type(CHOOSE b \in Builtins : Width[b] = size)
FieldPlaces(t, field) == {i \in 1..Len(types[t.name].fields) : types[t.name].fields[i].name = field}
\* The first field of the name; field names may repeat.
Type_get_TypeField(t, field) ==
  types[t.name].fields[CHOOSE i \in FieldPlaces(t, field) :
                         \A j \in FieldPlaces(t, field) : i <= j]

scope_get_Type_from_name(name) == Type(names[name])
scope_lookup_typename(typename) == [typename EXCEPT !.name = names[@]]
-----------------------------------------------------------------------------
(* Declarations.                                                           *)

Struct(fields) == [kind |-> "typedef", size |-> 0, fields |-> fields, of |-> Type("void")]
Alias(t) == [kind |-> "alias", size |-> 0, fields |-> << >>, of |-> t]
Opaque == [kind |-> "opaque", size |-> -1, fields |-> << >>, of |-> Type("void")]
Builtin(size) == [kind |-> "builtin", size |-> size, fields |-> << >>, of |-> Type("void")]

install_builtins ==
  [name \in Builtins \cup {"int", "string"} |->
     CASE name \in Builtins -> Builtin(Width[name])
       [] name = "int"      -> Alias(Type("int64"))
       [] name = "string"   -> Alias(Type_get_ptr_type(Type("char")))]

Init == /\ program \in Programs
        /\ types = install_builtins
        /\ names = [name \in DOMAIN install_builtins |-> name]
        /\ phase = "declare"

\* A declaration in the body of the function hides a type of the file.
Key(d) == IF d.scope = "file" THEN d.name ELSE Inner
With(f, key, value) == [k \in DOMAIN f \cup {key} |-> IF k = key THEN value ELSE f[k]]

\* A struct is in the table before its fields are looked up.
build_ScopeSymbol_for_type ==
  LET d == Head(program)
      Known == DOMAIN names \cup (IF d.kind = "typedef" THEN {d.name} ELSE {})
      with == With(names, d.name, Key(d))
      Found(t) == [t EXCEPT !.name = with[@]]
  IN /\ phase = "declare" /\ program # << >>
     /\ program' = Tail(program)
     /\ IF (d.scope = "file" /\ d.name \in DOMAIN names) \/ ~(d.uses \subseteq Known)
        THEN phase' = "refused" /\ UNCHANGED <<types, names>>
        ELSE /\ types' = With(types, Key(d),
                  CASE d.kind = "opaque"  -> Opaque
                    [] d.kind = "alias"   -> Alias(scope_lookup_typename(d.of))
                    [] d.kind = "typedef" ->
                         Struct([i \in 1..Len(d.fields) |->
                                   [name |-> d.fields[i].name, type |-> Found(d.fields[i].type)]]))
             /\ names' = with /\ UNCHANGED phase
-----------------------------------------------------------------------------
(* LLVM types.                                                             *)

LLVM(kind, width, name) == [kind |-> kind, width |-> width, name |-> name]
IntType(width) == LLVM("int", width, "")
PointerType == LLVM("ptr", 0, "")
VoidType == LLVM("void", 0, "")
\* What get_llvm_type does not return from; undefined: a struct that LLVM has no such field for.
Failure(how) == LLVM(how, 0, "")
Failures == {"refused", "endless", "undefined"}

Within(name, i) == Type_get_base_type(types[name].fields[i].type)
FieldLLVM(llvm, name, i) ==
  IF Within(name, i).stars > 0 THEN PointerType
  ELSE IF Within(name, i).name = name THEN Failure("endless") ELSE llvm[Within(name, i).name]

\* A struct first asks for the types of its fields, in order, though it may exist already.
StructLLVM(llvm, name) ==
  LET Field(i) == FieldLLVM(llvm, name, i)
      places == 1..Len(types[name].fields)
      Failing == {i \in places : Field(i).kind \in Failures}
  IN IF Failing # {} THEN Field(CHOOSE i \in Failing : \A j \in Failing : i <= j)
     ELSE IF \E i \in places : Field(i).kind = "void" THEN Failure("undefined")
     ELSE LLVM("struct", 0, name)
NameLLVM(llvm, name) ==
  CASE types[name].kind = "builtin" -> IF name = "void" THEN VoidType ELSE IntType(types[name].size)
    [] types[name].kind = "opaque"  -> Failure("refused")
    [] OTHER -> StructLLVM(llvm, name)
LLVMOf[name \in DOMAIN types] == NameLLVM(LLVMOf, name)
get_llvm_type(t) ==
  LET base == Type_get_base_type(t)
  IN IF base.stars > 0 THEN PointerType ELSE LLVMOf[base.name]
=============================================================================
