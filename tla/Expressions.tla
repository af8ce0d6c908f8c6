------------------------------ MODULE Expressions ------------------------------
(***************************************************************************)
(* One expression of a function's body, grown an operator at a time.  Each *)
(* is typed twice, by scope_get_Type_from_ast (scope-resolve.c) before it  *)
(* is generated and by the generator itself (cg-operator.c, cg-helpers.c,  *)
(* cg-inst.c), and the two are never compared.  Beside the value the       *)
(* generated instructions compute runs the value the operators mean.       *)
(***************************************************************************)
EXTENDS Types

CONSTANTS Samples,    \* bound: the values a variable or literal of each width is tried with
          Mentioned   \* bound: the typenames expressions are made with

VARIABLES expr,   \* the expression so far
          last,   \* the operation that made the compiler stop
          stored  \* what the program puts into a variable at the end
vars == <<program, types, names, phase, expr, last, stored>>

\* 2^n
TwoTo[n \in Nat] == IF n = 0 THEN 1 ELSE 2 * TwoTo[n - 1]

ExpressionsAssumption ==
  /\ \A b \in Builtins : Samples[Width[b]] \subseteq 0..(TwoTo[Width[b]] - 1)
  /\ Mentioned \subseteq [name : STRING, stars : 0..(MaxStars - 1)]
ASSUME ExpressionsAssumption

Arithmetic == {"PLUS", "MINUS", "MULT", "DIVIDE"}
Comparisons == {"LT", "GT", "LTEQ", "GTEQ", "EQ", "NEQ"}
BinaryOps == Arithmetic \cup Comparisons \cup {"AND", "OR"}
UnaryOps == {"MINUS", "NOT", "TAKE_ADDRESS", "PTR_DEREFERENCE"}
-----------------------------------------------------------------------------
(* Values: a bit pattern and, of an address of a temporary, what is there. *)

Plain(num) == [num |-> num, slot |-> << >>]
Signed(bits, width) == IF 2 * bits >= TwoTo[width] THEN bits - TwoTo[width] ELSE bits

Bits(t) == IF Type_is_pointer(t) THEN Type_ptr_size
           ELSE IF KindOf(Type_get_base_type(t)) = "builtin" THEN Type_get_size(t) ELSE 0
\* Between a pattern and what it stands for: numbers are signed, a bool is 0 or 1.
Meaning(t, v) == [v EXCEPT !.num = IF Type_is_boolean(t) THEN @ ELSE Signed(@, Bits(t))]
Pattern(t, v) == [v EXCEPT !.num = @ % TwoTo[Bits(t)]]

\* Sizes, in bits and without padding; a struct in itself has none.
Total(c) == LET sum[i \in 0..Len(c)] == IF i = 0 THEN 0 ELSE c[i] + sum[i - 1] IN sum[Len(c)]
FieldSize(size, name, i) ==
  IF Within(name, i).stars > 0 THEN Type_ptr_size
  ELSE IF Within(name, i).name = name THEN 0 ELSE size[Within(name, i).name]
NameSize(size, name) ==
  IF types[name].kind = "builtin" THEN types[name].size
  ELSE Total([i \in 1..Len(types[name].fields) |-> FieldSize(size, name, i)])
SizeOf[name \in DOMAIN types] == NameSize(SizeOf, name)
Bytes(cg) == CASE cg.kind = "int" -> cg.width
               [] cg.kind = "ptr" -> Type_ptr_size
               [] cg.kind = "struct" -> SizeOf[cg.name]

\* What memory nothing is known of may hold.
Contents(cg) == {Plain(n) : n \in CASE cg.kind = "int" -> Samples[cg.width]
                                    [] cg.kind = "ptr" -> {1}
                                    [] OTHER -> {0}}
-----------------------------------------------------------------------------
(* The type the scope gives an expression.                                 *)

NoType == Type("no type")           \* an error is reported
DanglingType == Type("dangling type")    \* a field that is not there is dereferenced

\* definitions/expression-types.def: "" is any type, "*" any pointer.
Rule(ops, lhs, rhs, res, gen) == [ops |-> ops, lhs |-> lhs, rhs |-> rhs, res |-> res, gen |-> gen]
BINARY_EXPR == << Rule({"PLUS", "MINUS"}, "int64", "*", "", "addrOffset"),
                  Rule({"PLUS", "MINUS"}, "*", "int64", "", "addrOffset"),
                  Rule(Arithmetic, "", "", "", "sintBOp"),
                  Rule({"AND"}, "", "", "bool", "booleanAnd"),
                  Rule({"OR"}, "", "", "bool", "booleanOr"),
                  Rule(Comparisons, "", "", "bool", "compare"),
                  Rule({"CAST"}, "", "", "", "cast") >>

\* The names are looked up where the expression stands.
typesMatch(t, typename) ==
  \/ typename = ""
  \/ typename = "*" /\ Type_is_pointer(t)
  \/ typename \in Builtins /\ Type_eq(t, scope_get_Type_from_name(typename))

RuleFor(op, lhs, rhs) ==
  LET Fits(i) == /\ op \in BINARY_EXPR[i].ops
                 /\ typesMatch(lhs, BINARY_EXPR[i].lhs) /\ typesMatch(rhs, BINARY_EXPR[i].rhs)
  IN BINARY_EXPR[CHOOSE i \in 1..Len(BINARY_EXPR) : Fits(i) /\ \A j \in 1..(i - 1) : ~Fits(j)]

\* mutant: an offset and a pointer make an offset.
determine_result_type_binop_left(op, lhs, rhs) ==
  CASE op = "CAST" -> rhs
    [] op \in Arithmetic /\ (Type_is_integer(lhs) \/ Type_is_pointer(lhs)) -> lhs
    [] OTHER -> NoType

determine_result_type_binop(op, lhs, rhs) ==
  CASE op = "CAST" -> rhs
    [] op \in {"PLUS", "MINUS"} /\ Type_is_integer(lhs) /\ Type_is_pointer(rhs) -> rhs
    [] op \in {"PLUS", "MINUS"} /\ Type_is_pointer(lhs) /\ Type_is_integer(rhs) -> lhs
    [] op \in Arithmetic /\ Type_eq(lhs, rhs) /\ Type_is_integer(lhs) -> lhs
    [] OTHER -> NoType

scope_get_Type_from_binop(op, lhs, rhs) ==
  IF NoType \in {lhs, rhs} THEN NoType
  ELSE LET rule == RuleFor(op, lhs, rhs)
       IN IF rule.res # "" THEN scope_get_Type_from_name(rule.res)
          ELSE determine_result_type_binop(op, lhs, rhs)

\* mutant: the type of what a pointer points at is the pointer's.
determine_result_type_uop_unpeeled(op, operand) ==
  CASE op = "MINUS" /\ Type_is_integer(operand) -> operand
    [] op = "TAKE_ADDRESS" -> Type_get_ptr_type(operand)
    [] op = "PTR_DEREFERENCE" /\ Type_is_pointer(operand) -> operand
    [] OTHER -> NoType

determine_result_type_uop(op, operand) ==
  CASE op = "MINUS" /\ Type_is_integer(operand) -> operand
    [] op = "TAKE_ADDRESS" -> Type_get_ptr_type(operand)
    [] op = "PTR_DEREFERENCE" /\ Type_is_pointer(operand) -> Type_get_pointee_type(operand)
    [] OTHER -> NoType

scope_get_Type_from_uop(op, operand) ==
  CASE operand = NoType -> NoType
    [] operand # NoType /\ op = "NOT" -> scope_get_Type_from_name("bool")
    [] OTHER -> determine_result_type_uop(op, operand)

\* The object may be a pointer to a struct, but neither an alias of one.
scope_get_Type_from_FieldAccess(object, field) ==
  IF object = NoType THEN NoType
  ELSE LET objectType == IF Type_is_pointer(object) THEN Type_get_pointee_type(object) ELSE object
       IN IF ~Type_is_typedef(objectType) THEN NoType
          ELSE IF FieldPlaces(objectType, field) = {} THEN DanglingType
          ELSE Type_get_TypeField(objectType, field).type
-----------------------------------------------------------------------------
(* Expressions, and how generating one may end.                            *)

\* refused: an error message; assertion, unimplemented: the compiler stops itself;
\* undefined: instructions LLVM gives no meaning; dangling, endless: the compiler crashes.
Outcome(how, scope, type, cg, value, want) ==
  [how |-> how, scope |-> scope, type |-> type, cg |-> cg, value |-> value, want |-> want,
   const |-> FALSE, new |-> FALSE]
Expression(scope, type, cg, value, want) == Outcome("ok", scope, type, cg, value, want)
Ends(how) == Outcome(how, NoType, NoType, VoidType, Plain(0), Plain(0))

\* A stack slot of the LLVM type of t.
allocate_stack_for_temp(t, value, want) ==
  LET cg == get_llvm_type(t)
  IN CASE cg.kind \in Failures -> Ends(cg.kind)
       [] cg.kind = "void" -> Ends("undefined")
       [] OTHER -> Expression(NoType, t, cg, value, want)

Truncated(a, b) == LET Abs(n) == IF n < 0 THEN -n ELSE n
                       q == Abs(a) \div Abs(b)
                   IN IF (a < 0) = (b < 0) THEN q ELSE -q

\* What an operator means: of two numbers, of an address and a number of elements.
Ordinal(t, n) == IF Type_is_boolean(t) THEN -n ELSE n   \* true is the one-bit number -1
Arith(op, a, b) == CASE op = "PLUS" -> a + b [] op = "MINUS" -> a - b
                     [] op = "MULT" -> a * b [] op = "DIVIDE" -> Truncated(a, b)
Holds(op, a, b) == CASE op = "LT" -> a < b [] op = "GT" -> a > b [] op = "LTEQ" -> a <= b
                     [] op = "GTEQ" -> a >= b [] op = "EQ" -> a = b [] op = "NEQ" -> a # b
Truth(b) == Plain(IF b THEN 1 ELSE 0)
Wrapped(t, n) == Meaning(t, Pattern(t, Plain(n)))

\* sdiv is undefined by zero, and of the least number by minus one.
Defined(op, l, r) ==
  (op = "DIVIDE" /\ Type_is_integer(l.type) /\ Type_eq(l.type, r.type)) =>
     /\ r.want.num # 0
     /\ r.want.num = -1 => Wrapped(l.type, -l.want.num).num = -l.want.num
-----------------------------------------------------------------------------
(* The generators of cg-operator.c.                                        *)

sintBOp(op, l, r, resType) ==
  LET a == l.value.num   b == r.value.num   w == l.cg.width
      resVal == CASE op = "PLUS" -> a + b [] op = "MINUS" -> a - b + TwoTo[w]
                  [] op = "MULT" -> a * b
                  [] op = "DIVIDE" -> Truncated(Signed(a, w), Signed(b, w)) + TwoTo[w]
  IN CASE ~(/\ Type_is_signed(l.type) /\ Type_is_signed(r.type) /\ Type_is_signed(resType)
            /\ Type_eq(l.type, r.type)) -> Ends("assertion")
       [] OTHER -> allocate_stack_for_temp(resType, Plain(resVal % TwoTo[w]),
                                           Wrapped(resType, Arith(op, l.want.num, r.want.num)))

intNegate(l, resType) ==
  CASE ~(Type_is_integer(l.type) /\ Type_is_integer(resType) /\ Type_eq(l.type, resType)) ->
         Ends("assertion")
    [] OTHER -> allocate_stack_for_temp(resType,
                  Plain((TwoTo[l.cg.width] - l.value.num) % TwoTo[l.cg.width]),
                  Wrapped(resType, -l.want.num))

\* A call of a void function leaves poison.
Usable(e) == e.cg.kind \in {"int", "ptr"} /\ ~Type_is_void(e.type)

\* mutant: a pointer is compared as it is.
compare_unconverted(op, l, r, resType) ==
  LET Number(e) == Signed(e.value.num, IF e.cg.kind = "ptr" THEN Type_ptr_size ELSE e.cg.width)
  IN IF ~(l.cg = r.cg /\ Usable(l) /\ Usable(r)) THEN Ends("undefined")
     ELSE IF get_llvm_type(resType).kind # "int" THEN Ends("assertion")
     ELSE allocate_stack_for_temp(resType, Truth(Holds(op, Number(l), Number(r))),
                     Truth(Holds(op, Ordinal(l.type, l.want.num), Ordinal(r.type, r.want.num))))

\* A pointer compared with anything but a pointer becomes an int64; addresses are signed.
compare(op, l, r, resType) ==
  LET bothPointers == l.cg.kind = "ptr" /\ r.cg.kind = "ptr"
      Compared(e) == IF e.cg.kind = "ptr" /\ ~bothPointers THEN IntType(Type_ptr_size) ELSE e.cg
      Number(e) == Signed(e.value.num, IF e.cg.kind = "ptr" THEN Type_ptr_size ELSE e.cg.width)
  IN IF ~(Compared(l) = Compared(r) /\ Usable(l) /\ Usable(r)) THEN Ends("undefined")
     ELSE IF get_llvm_type(resType).kind # "int" THEN Ends("assertion")
     ELSE allocate_stack_for_temp(resType, Truth(Holds(op, Number(l), Number(r))),
                     Truth(Holds(op, Ordinal(l.type, l.want.num), Ordinal(r.type, r.want.num))))

\* The result is in place before the right operand, which may be skipped.
booleanAndOr(op, l, r, resType) ==
  LET initial == IF op = "OR" THEN 1 ELSE 0
      lhsCond == l.value.num # 0
      skipped == IF op = "OR" THEN lhsCond ELSE ~lhsCond
  IN IF ~Type_is_boolean(resType) THEN Ends("assertion")
     ELSE IF ~(Usable(l) /\ Usable(r)) THEN Ends("undefined")
     ELSE allocate_stack_for_temp(resType,
            IF skipped THEN Plain(initial) ELSE Truth(r.value.num # 0),
            Truth(IF op = "OR" THEN l.want.num # 0 \/ r.want.num # 0
                               ELSE l.want.num # 0 /\ r.want.num # 0))

booleanNot(l, resType) ==
  IF ~Usable(l) THEN Ends("undefined")
  ELSE IF get_llvm_type(resType).kind # "int" THEN Ends("assertion")
  ELSE allocate_stack_for_temp(resType, Truth(l.value.num = 0), Truth(l.want.num = 0))

\* One element per unit of the offset; only the address itself is known to hold anything.
Offset(address, k, size) ==
  IF k = 0 THEN address ELSE Plain((address.num + k * size) % TwoTo[Type_ptr_size])

addrOffset(op, l, r) ==
  LET ptr == IF Type_is_pointer(Type_get_base_type(l.type)) THEN l ELSE r
      offset == IF ptr = l THEN r ELSE l
      pointee == get_llvm_type(Type_get_pointee_type(ptr.type))
      k == Signed(offset.value.num, offset.cg.width)
      size == Bytes(get_llvm_type(Type_get_pointee_type(ptr.type)))
  IN IF ~Type_is_pointer(ptr.type) THEN Ends("assertion")
     ELSE IF op # "PLUS" THEN Ends("unimplemented")
     ELSE CASE pointee.kind \in Failures -> Ends(pointee.kind)
            [] pointee.kind = "void" -> Ends("undefined")
            [] OTHER -> allocate_stack_for_temp(Type_get_base_type(ptr.type),
                          Offset(ptr.value, k, Bytes(pointee)),
                          Meaning(ptr.type, Offset(Pattern(ptr.type, ptr.want), offset.want.num, size)))

getValueAtAddress(l, content) ==
  LET pointee == Type_get_pointee_type(l.type)
      At(v) == IF v.slot # << >> /\ v.slot[1].cg = get_llvm_type(pointee) THEN v.slot[1].at ELSE content
  IN IF ~Type_is_pointer(l.type) THEN Ends("assertion")
     ELSE allocate_stack_for_temp(pointee, At(l.value), Meaning(pointee, At(l.want)))

\* The address of the copy, or of the variable, the operand is in.  Of an address kept
\* there the number is remembered and not what is at it.
StackAddress == TwoTo[Type_ptr_size - 1]
AddressOf(cg, v) == [num |-> StackAddress, slot |-> << [cg |-> cg, at |-> Plain(v.num)] >>]

getAddressOfValue(l) ==
  LET t == Type_get_ptr_type(l.type)
  IN allocate_stack_for_temp(t, AddressOf(l.cg, l.value),
                             Meaning(t, AddressOf(l.cg, Pattern(l.type, l.want))))

IntCast(v, from, to, sourceIsSigned) ==
  Plain((IF sourceIsSigned THEN Signed(v.num, from) ELSE v.num) % TwoTo[to])

\* What build_cast makes of the value; NULL where it knows no cast.
NULL == Plain(-1)
\* mutant: a bool is extended as the signed number of one bit it is compared as.
build_cast_signed(valueType, v, newType) ==
  LET from == Bits(valueType)   to == Bits(newType)
  IN CASE Type_eq(valueType, newType) -> v
       [] ~Type_eq(valueType, newType) /\ Type_is_boolean(newType) -> Truth(v.num # 0)
       [] OTHER -> IntCast(v, from, to, ~Type_is_pointer(valueType))

build_cast(valueType, v, newType) ==
  LET from == Bits(valueType)   to == Bits(newType)
      int == Type_is_integer(valueType)   bool == Type_is_boolean(valueType)
      ptr == Type_is_pointer(valueType)
  IN IF Type_eq(valueType, newType) \/ (ptr /\ Type_is_pointer(newType)) THEN v
     ELSE CASE int /\ Type_is_integer(newType) ->
                 IF from = to THEN v ELSE IntCast(v, from, to, Type_is_signed(valueType))
            [] ptr /\ Type_is_integer(newType) -> IntCast(v, from, to, FALSE)
            [] int /\ Type_is_pointer(newType) -> IntCast(v, from, to, Type_is_signed(valueType))
            [] (int \/ bool) /\ Type_is_boolean(newType) -> Truth(v.num # 0)
            [] bool /\ Type_is_integer(newType) -> IntCast(v, from, to, Type_is_signed(valueType))
            [] OTHER -> NULL

\* What a cast means: the number as the new type has it, or whether it is one other than 0.
Converted(from, to, v) ==
  CASE Type_eq(from, to) \/ (Type_is_pointer(from) /\ Type_is_pointer(to)) -> v
    [] ~Type_eq(from, to) /\ Type_is_boolean(to) -> Truth(v.num # 0)
    [] OTHER -> Wrapped(to, v.num)

cast(l, newType) ==
  LET failing == get_llvm_type(newType).kind
      casted == build_cast(l.type, l.value, newType)
  IN CASE failing \in Failures -> Ends(failing)
       [] failing \notin Failures /\ casted = NULL -> Ends("refused")
       [] OTHER -> allocate_stack_for_temp(newType, casted, Converted(l.type, newType, l.want))

\* A field of a struct or of what a pointer points at (cg-inst.c).
codegen_FieldAccess(l, field, content) ==
  LET base == Type_get_base_type(l.type)
      objectType == IF Type_is_pointer(base) THEN Type_get_pointee_type(base) ELSE base
      failing == get_llvm_type(objectType).kind
      t == Type_get_TypeField(objectType, field).type
  IN IF ~Type_is_typedef(objectType) \/ FieldPlaces(objectType, field) = {} THEN Ends("refused")
     ELSE IF failing \in Failures THEN Ends(failing)
     ELSE allocate_stack_for_temp(t, content, Meaning(t, content))
-----------------------------------------------------------------------------
(* Expressions of one node and their operators.                            *)

codegenBinaryOperator(op, l, r) ==
  LET scope == scope_get_Type_from_binop(op, l.scope, r.scope)
      gen == RuleFor(op, l.scope, r.scope).gen
      res == CASE scope = NoType -> Ends("refused")
               [] scope # NoType /\ gen = "addrOffset" -> addrOffset(op, l, r)
               [] scope # NoType /\ gen = "sintBOp" -> sintBOp(op, l, r, scope)
               [] scope # NoType /\ gen = "compare" -> compare(op, l, r, scope)
               [] scope # NoType /\ gen \in {"booleanAnd", "booleanOr"} ->
                    booleanAndOr(op, l, r, scope)
  IN [res EXCEPT !.scope = scope, !.new = scope # NoType /\ gen = "addrOffset" /\ (l.new \/ r.new)]

codegenUnaryOperator(op, l, content) ==
  LET scope == scope_get_Type_from_uop(op, l.scope)
      res == CASE scope = NoType -> Ends("refused")
               [] scope # NoType /\ op = "MINUS" -> intNegate(l, scope)
               [] scope # NoType /\ op = "NOT" -> booleanNot(l, scope)
               [] scope # NoType /\ op = "TAKE_ADDRESS" -> getAddressOfValue(l)
               [] scope # NoType /\ op = "PTR_DEREFERENCE" -> getValueAtAddress(l, content)
  IN [res EXCEPT !.scope = scope, !.new = l.new /\ op \in {"TAKE_ADDRESS", "PTR_DEREFERENCE"}]

codegenCast(l, newType) ==
  LET scope == scope_get_Type_from_binop("CAST", l.scope, newType)
      res == CASE scope = NoType -> Ends("refused")
               [] OTHER -> cast(l, newType)
  IN [res EXCEPT !.scope = scope, !.const = l.const]

\* A literal has a type of the file's scope, whatever its name stands for in the body.
Number(size, n) ==
  LET t == Type_int_type(size)
  IN [allocate_stack_for_temp(t, Plain(n), Meaning(t, Plain(n))) EXCEPT !.scope = t, !.const = TRUE]
Null == LET t == Type_get_ptr_type(Type("void"))
        IN [allocate_stack_for_temp(t, Plain(0), Plain(0)) EXCEPT !.scope = t, !.const = TRUE]
\* A pointer, to characters of the size of what char is, that is said to be a string: nothing can
\* be done with it where string is no pointer or char has no size.
String == LET t == scope_get_Type_from_name("string")
              char == scope_get_Type_from_name("char")
              base == Type_get_base_type(char)
              size == IF Type_is_typedef(base) THEN SizeOf[base.name] ELSE Type_get_size(char)
              pointer == IF get_llvm_type(t) = PointerType /\ size > 0
                         THEN allocate_stack_for_temp(t, Plain(1), Plain(1)) ELSE Ends("undefined")
          IN [pointer EXCEPT !.scope = t, !.type = t, !.const = TRUE]
Variable(t, content) ==
  [allocate_stack_for_temp(t, content, Meaning(t, content)) EXCEPT !.scope = t, !.type = t]
VoidCall == Expression(Type("void"), Type("void"), PointerType, Plain(0), Plain(0))

Needs(t, e) == LET kind == get_llvm_type(t).kind
               IN CASE kind \in Failures -> [Ends(kind) EXCEPT !.type = t]
                    [] kind = "void" -> [Ends("undefined") EXCEPT !.type = t]
                    [] OTHER -> e
\* An int64 that is said to be an int: nothing can be done with it where int is another type.
Sizeof(t) ==
  LET int == scope_get_Type_from_name("int")
      bytes == Bytes(get_llvm_type(t))
      size == [allocate_stack_for_temp(int, Plain(bytes % TwoTo[Width["int64"]]),
                                       Wrapped(Type("int64"), bytes))
               EXCEPT !.scope = Type("int64")]
  IN Needs(t, IF get_llvm_type(int) = IntType(Width["int64"]) THEN size
              ELSE [Ends("undefined") EXCEPT !.type = t])
\* The scope is told of a void*.
New(t) ==
  LET p == Type_get_ptr_type(t)
  IN Needs(t, [allocate_stack_for_temp(p, Plain(1), Plain(1))
               EXCEPT !.scope = Type_get_ptr_type(Type("void")), !.new = TRUE])
-----------------------------------------------------------------------------
Typenames == {scope_lookup_typename(t) : t \in {t \in Mentioned : t.name \in DOMAIN names}}
ContentsOf(t) == LET cg == get_llvm_type(t) IN IF cg.kind \in Failures THEN {Plain(0)} ELSE Contents(cg)

Literals == {"int64", "char", "bool"}
Constants == (UNION {{Number(w, n) : n \in Samples[w]} : w \in {Width[b] : b \in Literals}})
             \cup {Null, String}
Variables(ts) == UNION {{Variable(t, c) : c \in ContentsOf(t)} : t \in ts}
Atoms == Constants \cup {VoidCall} \cup Variables(Typenames)
         \cup {Sizeof(t) : t \in Typenames} \cup {New(t) : t \in Typenames}
Fields == (UNION {{types[n].fields[i].name : i \in 1..Len(types[n].fields)} : n \in DOMAIN types})
          \cup {"unknown"}

NoOperation == [op |-> "none", lhs |-> Type("void"), rhs |-> Type("void")]
NothingStored == [declared |-> Type("void"), from |-> Type("void"), inferred |-> FALSE,
                  held |-> Plain(0), meant |-> Plain(0)]
InitExpressions == /\ Init
                   /\ expr = VoidCall /\ last = NoOperation /\ stored = NothingStored

\* The expression becomes e, unless the compiler ends at the operation.
Becomes(e, op, lhs, rhs) ==
  /\ UNCHANGED <<program, types, names, stored>>
  /\ IF e.how = "ok" THEN phase' = "expression" /\ expr' = e /\ UNCHANGED last
     ELSE /\ phase' = e.how /\ last' = [op |-> op, lhs |-> lhs, rhs |-> rhs]
          /\ expr' = VoidCall

Declare == /\ build_ScopeSymbol_for_type
           /\ UNCHANGED <<expr, last, stored>>

Atom == /\ phase = "declare" /\ program = << >>
        /\ \E a \in Atoms : Becomes(a, "atom", a.type, a.type)

\* bound: the other operand, constants, and variables of the types no constant has.
Operands == {a \in Constants \cup Variables(Typenames \ {c.type : c \in Constants}) : a.how = "ok"}
Binary ==
  /\ phase = "expression"
  /\ \E a \in Operands, op \in BinaryOps : \E pair \in {<<expr, a>>, <<a, expr>>} :
       /\ Defined(op, pair[1], pair[2])
       /\ Becomes(codegenBinaryOperator(op, pair[1], pair[2]), op, pair[1].type, pair[2].type)

Unary ==
  /\ phase = "expression"
  /\ \E op \in UnaryOps :
       /\ op = "TAKE_ADDRESS" => expr.type.stars < MaxStars /\ expr.scope.stars < MaxStars
       /\ \E c \in IF Type_is_pointer(expr.type) THEN ContentsOf(Type_get_pointee_type(expr.type))
                   ELSE {Plain(0)} :
            Becomes(codegenUnaryOperator(op, expr, c), op, expr.type, expr.type)

Cast ==
  /\ phase = "expression"
  /\ \E t \in Typenames : Becomes(codegenCast(expr, t), "CAST", expr.type, t)

\* Where the scope is asked for the type, of an operand or an inferred variable, it is asked
\* before anything is generated.
FieldAccess ==
  /\ phase = "expression"
  /\ \E field \in Fields :
       LET scope == scope_get_Type_from_FieldAccess(expr.scope, field)
           found == codegen_FieldAccess(expr, field, Plain(0))
       IN \/ scope = DanglingType /\ Becomes(Ends("dangling"), "field", expr.type, expr.type)
          \/ \E c \in IF found.how = "ok" THEN ContentsOf(found.type) ELSE {Plain(0)} :
               Becomes([codegen_FieldAccess(expr, field, c) EXCEPT !.scope = scope],
                       "field", expr.type, expr.type)

Stores(t, inferred) ==
  LET cg == get_llvm_type(t)
      held == IF cg = expr.cg THEN expr.value ELSE NULL   \* other bytes than the variable has
  IN CASE cg.kind \in Failures -> Becomes(Ends(cg.kind), "store", t, expr.type)
       [] cg.kind = "void" -> Becomes(expr, "store", t, expr.type)    \* nothing is stored
       [] OTHER -> /\ phase' = "stored" /\ expr' = VoidCall
                   /\ stored' = [declared |-> t, from |-> expr.type, inferred |-> inferred,
                                 held |-> held, meant |-> Pattern(expr.type, expr.want)]
                   /\ UNCHANGED <<program, types, names, last>>

\* let v = e
LetInferred ==
  /\ phase = "expression"
  /\ CASE expr.scope = NoType -> Becomes(Ends("refused"), "let", expr.type, expr.type)
       [] OTHER -> Stores(expr.scope, TRUE)

\* let v: t = e; v = e, *p = e and o.f = e of an lvalue of the type.
Store == /\ phase = "expression" /\ \E t \in Typenames : Stores(t, FALSE)

\* The same let at file scope, where only a constant may be stored.
Global ==
  /\ phase = "expression"
  /\ \E t \in Typenames :
       CASE ~expr.const -> Becomes(Ends("refused"), "global", t, expr.type)
         [] expr.const /\ get_llvm_type(t).kind \notin Failures
              /\ get_llvm_type(t) # expr.cg -> Becomes(Ends("undefined"), "global", t, expr.type)
         [] OTHER -> Stores(t, FALSE)

Next == Declare \/ Atom \/ Binary \/ Unary \/ Cast \/ FieldAccess \/ LetInferred \/ Store \/ Global
Spec == InitExpressions /\ [][Next]_vars
-----------------------------------------------------------------------------
(* Properties.                                                             *)

\* The types the compiler looks up where the expression stands.
LookedUp == {"bool", "char", "int", "int64", "string"}
Shadowed(set) == \E name \in set : names[name] # name

\* Nothing compares the two types of an expression (codegenBinaryOperator chooses by the
\* scope's and the generators go by their own), yet they are equal, and the LLVM type is
\* theirs: except of what new() returns, which the scope takes for a void*, and of a field
\* only the generator can reach.
TypesAgree ==
  phase = "expression" =>
    /\ expr.scope = NoType \/ expr.new \/ Type_eq(expr.scope, expr.type)
    /\ ~Type_is_void(expr.type) => expr.cg = get_llvm_type(expr.type)

\* The instructions compute what the operators mean: numbers are signed and wrap at the width
\* of their type, a cast keeps the number when it fits, a bool is 0 or 1, an address moves by
\* elements, and an address taken leads back to the value.
Computes ==
  phase = "expression" => expr.value = Pattern(expr.type, expr.want)

Pointee(t) == Type_get_pointee_type(t)
Sized(t) == get_llvm_type(t).kind \in {"int", "ptr", "struct"}
Scalar(t) == Sized(t) /\ get_llvm_type(t).kind # "struct"

\* Operand types a program would expect the operator to accept.
Sensible(op, lhs, rhs) ==
  LET same == Type_eq(lhs, rhs)   number == Type_is_integer(lhs)
      pointers == Type_is_pointer(lhs) /\ Type_is_pointer(rhs)
      word(t) == Type_eq(t, Type("int64"))
  IN CASE op \in Arithmetic /\ same /\ number -> TRUE
       [] op = "PLUS" /\ ~same -> \/ Type_is_pointer(lhs) /\ Sized(Pointee(lhs)) /\ word(rhs)
                                  \/ Type_is_pointer(rhs) /\ Sized(Pointee(rhs)) /\ word(lhs)
       [] op \in Comparisons -> \/ same /\ Scalar(lhs)
                                \/ pointers
                                \/ Type_is_pointer(lhs) /\ word(rhs)
                                \/ Type_is_pointer(rhs) /\ word(lhs)
       [] op \in {"AND", "OR"} -> Scalar(lhs) /\ Scalar(rhs)
       [] op = "NOT" -> Scalar(lhs)
       [] op = "PTR_DEREFERENCE" -> Type_is_pointer(lhs) /\ Sized(Pointee(lhs))
       [] op = "CAST" -> Sized(rhs)
       [] op \in {"TAKE_ADDRESS", "let"} -> TRUE
       [] op = "field" -> Type_is_pointer(lhs) => Sized(Pointee(lhs))
       [] op \in {"store", "global", "atom"} -> same /\ Sized(lhs)
       [] OTHER -> FALSE

\* Operands of sensible types never stop the compiler by an assertion, a part it lacks or
\* instructions without a meaning, unless the body gives bool, char, int, int64 or string
\* another meaning.  Only a struct that has a field of its own type sends get_llvm_type round for ever.
SensibleIsGenerated ==
  /\ phase \in {"assertion", "unimplemented", "undefined"} =>
       Shadowed(LookedUp) \/ ~Sensible(last.op, last.lhs, last.rhs)
  /\ phase = "endless" =>
       \E n \in DOMAIN types : \E i \in 1..Len(types[n].fields) :
         Type_get_base_type(types[n].fields[i].type) = Type(n)

\* A variable whose type is inferred, or declared as the type the expression has, holds the
\* value: the store takes the LLVM type of the expression, the slot that of the variable.
InferredHolds ==
  phase = "stored"
    /\ (stored.inferred \/ Type_eq(stored.declared, stored.from)) => stored.held = stored.meant
=============================================================================
