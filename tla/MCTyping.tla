-------------------------------- MODULE MCTyping -------------------------------
(* Types and expressions of programs of one to three type declarations. *)
EXTENDS Expressions

Widths == [void |-> 0, bool |-> 1, int8 |-> 2, char |-> 3, int64 |-> 4]
\* Two operands of each width, the sign bit set in one: as the expression grows it takes
\* all values.
Values == [w \in 0..4 |-> CASE w = 0 -> {0} [] w = 1 -> {0, 1} [] w = 2 -> {1, 2}
                            [] w = 3 -> {2, 7} [] w = 4 -> {4, 15}]

T(name, stars) == [name |-> name, stars |-> stars]
Decl(name, kind, of, fields) ==
  [name |-> name, kind |-> kind, scope |-> "file", of |-> of, fields |-> fields,
   uses |-> {of.name} \cup {fields[i].type.name : i \in 1..Len(fields)}]
Field(name, t) == [name |-> name, type |-> t]

Pair == Decl("A", "typedef", T("void", 0), << Field("f", T("int8", 0)), Field("g", T("int64", 0)) >>)
Opaquely == Decl("A", "opaque", T("void", 0), << >>)
Nested == Decl("B", "typedef", T("void", 0), << Field("f", T("A", 0)), Field("g", T("char", 0)) >>)
InBody(name, of) == [Decl(name, "alias", T(of, 0), << >>) EXCEPT !.scope = "body"]

Named == {T(name, 0) : name \in {"void", "int64", "int8", "bool", "char", "int", "A", "B", "C"}}
         \cup {T(name, 1) : name \in {"void", "int8", "char", "A"}}

Lists == {
  << Opaquely, Nested, Decl("C", "typedef", T("void", 0), << Field("f", T("C", 0)) >>) >>,
  << Pair, Decl("B", "alias", T("A", 0), << >>), Decl("C", "alias", T("char", 1), << >>) >>,
  << Decl("A", "typedef", T("void", 0), << Field("f", T("A", 1)), Field("g", T("int8", 0)) >>), Nested >>,
  << InBody("bool", "int") >>, << InBody("int", "int8") >>, << InBody("int64", "int8") >>,
  << InBody("string", "int8") >>, << InBody("char", "void") >>,
  << Pair, Opaquely >>, << Nested >>,
  << Decl("A", "typedef", T("void", 0), << Field("f", T("void", 0)) >>) >> }
=============================================================================
