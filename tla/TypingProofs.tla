----------------------------- MODULE TypingProofs ------------------------------
(***************************************************************************)
(* The two typings of an expression agree, whatever types are declared.    *)
(* The first part shows that the table of types is well founded, so that   *)
(* chains of aliases end, the functions defined along them exist, and      *)
(* equality of types is what its name says; the second that every operator *)
(* keeps the two types of an expression equal; the third that operands of  *)
(* sensible types never stop the compiler without an error to report; the  *)
(* fourth that the instructions compute what the operators mean, at widths *)
(* of any size.                                                            *)
(***************************************************************************)
EXTENDS Expressions, TLAPS, FiniteSetTheorems, WellFoundedInduction

EntryOver(T) == [kind : {"builtin", "alias", "opaque", "typedef"}, size : Int,
                 fields : Seq([name : STRING, type : T]), of : T]
Entry == EntryOver(AllTypes)

\* The table of types and the scope that looks things up in it.
Table ==
  /\ types \in [DOMAIN types -> Entry]
  /\ Builtins \cup {"int", "string"} \subseteq DOMAIN types
  /\ DOMAIN types \cap Nameless \subseteq {Inner}
  /\ \A n \in DOMAIN types : types[n].kind = "builtin" <=> n \in Builtins
  /\ \A b \in Builtins : types[b].size = Width[b]
  /\ types["int"] = Alias(Type("int64")) /\ types["string"] = Alias(Type_get_ptr_type(Type("char")))
  /\ \A n \in DOMAIN types : types[n].kind = "alias" => types[n].fields = << >>
Scope ==
  /\ names \in [DOMAIN names -> DOMAIN types]
  /\ Builtins \cup {"int", "string"} \subseteq DOMAIN names
  /\ DOMAIN types \subseteq DOMAIN names \cup {Inner}
  /\ DOMAIN names \cap Nameless = {}

\* The types can be numbered such that an alias, and a struct, comes after what it is made of;
\* between an alias and its type there is room for the stars.
Ordered(rank, top) ==
  /\ top \in Nat /\ rank \in [DOMAIN types -> 0..top]
  /\ \A n \in DOMAIN types :
       /\ types[n].kind = "alias" => rank[types[n].of.name] + MaxStars < rank[n]
       /\ \A i \in 1..Len(types[n].fields) :
            types[n].fields[i].type.name # n => rank[types[n].fields[i].type.name] < rank[n]
WellFounded == \E top \in Nat : \E rank \in [DOMAIN types -> 0..top] : Ordered(rank, top)

\* The declarations to come can not take the place of one there is.
ToCome ==
  /\ program \in Seq(Declaration) /\ WellDeclared(program)
  /\ \A i \in 1..Len(program) : program[i].scope = "body" => Inner \notin DOMAIN types

TypesInv == Table /\ Scope /\ WellFounded /\ ToCome
-----------------------------------------------------------------------------
\* A set of numbers has a least one.
LEMMA LeastNumber ==
  ASSUME NEW T, T \subseteq Nat, T # {}
  PROVE  \E x \in T : \A y \in T : x <= y
<1>1. PICK n : n \in T
  OBVIOUS
<1> DEFINE S == 0..n
           U == {0..m : m \in T \cap S}
           R == StrictSubsetOrdering(S)
<1>2. n \in Nat /\ IsFiniteSet(S)
  BY <1>1, FS_Interval
<1>3. IsWellFoundedOn(R, SUBSET S)
  BY <1>2, FS_StrictSubsetOrderingWellFounded, FS_FiniteSubsetsOfFinite
<1>4. U \subseteq SUBSET S /\ U # {}
  BY <1>1, <1>2
<1>5. PICK u \in U : \A v \in U : ~(<<v, u>> \in R)
  <2> HIDE DEF R, U, S
  <2> QED
    BY <1>3, <1>4, WFMin
<1>6. PICK m \in T \cap S : u = 0..m
  OBVIOUS
<1>7. ASSUME NEW y \in T, ~(m <= y)
      PROVE  FALSE
  <2>1. y \in T \cap S /\ y \in Nat /\ m \in Nat /\ y < m
    BY <1>2, <1>6, <1>7
  <2>2. 0..y \in U /\ 0..y \subseteq 0..m /\ m \notin 0..y /\ m \in 0..m
    BY <2>1
  <2>3. <<0..y, u>> \in R
    BY <1>2, <1>6, <2>1, <2>2 DEF StrictSubsetOrdering
  <2> QED
    BY <1>5, <2>2, <2>3
<1>8. QED
  BY <1>6, <1>7

\* What holds of all elements if it holds of each one after the ones of lower rank.
LEMMA ByRank ==
  ASSUME NEW S, NEW rank, \A x \in S : rank[x] \in Nat, NEW G,
         \A x \in S : (\A y \in S : rank[y] < rank[x] => y \in G) => x \in G
  PROVE  S \subseteq G
<1> DEFINE T == {rank[x] : x \in S \ G}
<1> SUFFICES ASSUME T # {} PROVE FALSE
  OBVIOUS
<1>1. T \subseteq Nat
  OBVIOUS
<1>2. PICK r \in T : \A q \in T : r <= q
  <2> HIDE DEF T
  <2> QED
    BY <1>1, LeastNumber
<1>3. PICK x \in S \ G : rank[x] = r
  OBVIOUS
<1>4. ASSUME NEW y \in S, rank[y] < rank[x] PROVE y \in G
  <2>1. y \notin G => rank[y] \in T
    OBVIOUS
  <2>2. rank[y] \in Nat /\ rank[x] \in Nat
    OBVIOUS
  <2> HIDE DEF T
  <2> QED
    BY <1>2, <1>3, <1>4, <2>1, <2>2
<1> QED
  BY <1>3, <1>4

\* A function computed at an element from what it is at one of lower rank exists.
Computed(A, S, D, p, c) == A = [x \in S |-> IF x \in D THEN A[p[x]] ELSE c[x]]
LEMMA Descends ==
  ASSUME NEW S, NEW top \in Nat, NEW rank \in [S -> 0..top], NEW D, NEW p, NEW c,
         \A x \in S : x \in D => p[x] \in S /\ rank[p[x]] < rank[x]
  PROVE  \E A : Computed(A, S, D, p, c)
<1> DEFINE Right(A, x) == A[x] = IF x \in D THEN A[p[x]] ELSE c[x]
           G == {m \in Nat : \E A : \A x \in S : rank[x] < m => Right(A, x)}
           Stages == 0 .. top + 1
           id == [m \in Stages |-> m]
<1>1. ASSUME NEW m \in Stages, \A k \in Stages : id[k] < id[m] => k \in G
      PROVE  m \in G
  <2>1. CASE m = 0
    BY <2>1
  <2>2. CASE m # 0
    <3>1. m - 1 \in Stages /\ id[m - 1] < id[m]
      BY <2>2
    <3>2. m - 1 \in G
      BY <1>1, <3>1
    <3>3. PICK A : \A x \in S : rank[x] < m - 1 => Right(A, x)
      BY <3>2
    <3> DEFINE B == [x \in S |-> IF rank[x] < m - 1 THEN A[x]
                                 ELSE IF x \in D THEN A[p[x]] ELSE c[x]]
    <3>4. ASSUME NEW x \in S, rank[x] < m PROVE Right(B, x)
      <4>1. B[x] = IF x \in D THEN A[p[x]] ELSE c[x]
        BY <3>3
      <4>2. x \in D => p[x] \in S /\ rank[p[x]] < m - 1
        BY <3>1, <3>4
      <4>3. x \in D => B[p[x]] = A[p[x]]
        BY <4>2
      <4> HIDE DEF B
      <4> QED
        BY <4>1, <4>3
    <3> HIDE DEF B, Right
    <3> QED
      BY <3>4
  <2> QED
    BY <2>1, <2>2
<1>2. \A m \in Stages : id[m] \in Nat
  OBVIOUS
<1>3. top + 1 \in G
  <2>1. Stages \subseteq G
    <3> HIDE DEF G, id, Stages
    <3> QED
      BY <1>1, <1>2, ByRank
  <2> HIDE DEF G, id
  <2> QED
    BY <2>1
<1>4. PICK A : \A x \in S : rank[x] < top + 1 => Right(A, x)
  BY <1>3
<1> DEFINE B == [x \in S |-> A[x]]
<1>5. ASSUME NEW x \in S PROVE B[x] = IF x \in D THEN B[p[x]] ELSE c[x]
  BY <1>4
<1>6. B = [x \in S |-> B[x]]
  OBVIOUS
<1>7. B = [x \in S |-> IF x \in D THEN B[p[x]] ELSE c[x]]
  <2> HIDE DEF B
  <2> QED
    BY <1>5, <1>6
<1> QED
  BY <1>7 DEF Computed
-----------------------------------------------------------------------------
\* The base of a name is what it is defined by.
LEMMA BaseIs ==
  ASSUME Table, WellFounded, NEW n \in DOMAIN types
  PROVE  BaseOf[n] = IF types[n].kind # "alias" THEN Type(n)
                     ELSE IF types[n].of.stars > 0 THEN types[n].of ELSE BaseOf[types[n].of.name]
<1>1. PICK top \in Nat : \E rank \in [DOMAIN types -> 0..top] : Ordered(rank, top)
  BY DEF WellFounded
<1>2. PICK rank \in [DOMAIN types -> 0..top] : Ordered(rank, top)
  BY <1>1
<1> DEFINE D == {m \in DOMAIN types : types[m].kind = "alias" /\ ~(types[m].of.stars > 0)}
           p == [m \in DOMAIN types |-> types[m].of.name]
           c == [m \in DOMAIN types |-> IF types[m].kind # "alias" THEN Type(m) ELSE types[m].of]
<1>3. \A m \in DOMAIN types : m \in D => p[m] \in DOMAIN types /\ rank[p[m]] < rank[m]
  <2>1. \A m \in DOMAIN types : types[m].of.name \in DOMAIN types
    BY DEF Table, Entry, EntryOver, AllTypes
  <2>2. MaxStars \in Nat
    BY TypesAssumption DEF TypesAssumption
  <2>3. ASSUME NEW m \in DOMAIN types, types[m].kind = "alias"
        PROVE  rank[types[m].of.name] < rank[m]
    <3>1. rank[types[m].of.name] + MaxStars < rank[m]
      BY <1>2, <2>3 DEF Ordered
    <3>2. rank[types[m].of.name] \in Nat /\ rank[m] \in Nat
      BY <2>1
    <3> QED
      BY <2>2, <3>1, <3>2
  <2> QED
    BY <2>1, <2>3
<1>4. PICK A : A = [m \in DOMAIN types |-> IF m \in D THEN A[p[m]] ELSE c[m]]
  <2> DEFINE S == DOMAIN types
  <2>1. rank \in [S -> 0..top] /\ \A m \in S : m \in D => p[m] \in S /\ rank[p[m]] < rank[m]
    BY <1>3
  <2> HIDE DEF D, p, c, S
  <2>2. \E A : Computed(A, S, D, p, c)
    BY <2>1, Descends
  <2> QED
    BY <2>2 DEF Computed, S
<1>5. A = [m \in DOMAIN types |->
             IF types[m].kind # "alias" THEN Type(m)
             ELSE IF types[m].of.stars > 0 THEN types[m].of ELSE A[types[m].of.name]]
  BY <1>4
<1>6. BaseOf = [m \in DOMAIN types |->
             IF types[m].kind # "alias" THEN Type(m)
             ELSE IF types[m].of.stars > 0 THEN types[m].of ELSE BaseOf[types[m].of.name]]
  BY <1>5 DEF BaseOf
<1> QED
  BY <1>6

\* The base of a type is a type that is no alias, and lies no higher.
Weight(rank, t) == rank[t.name] + t.stars
LEMMA BaseAt ==
  ASSUME Table, NEW top, NEW rank, Ordered(rank, top), NEW n \in DOMAIN types
  PROVE  /\ BaseOf[n] \in AllTypes
         /\ BaseOf[n].stars = 0 => types[BaseOf[n].name].kind # "alias"
         /\ Weight(rank, BaseOf[n]) <= rank[n]
<1> DEFINE G == {m \in DOMAIN types : /\ BaseOf[m] \in AllTypes
                                      /\ BaseOf[m].stars = 0 => types[BaseOf[m].name].kind # "alias"
                                      /\ Weight(rank, BaseOf[m]) <= rank[m]}
<1>1. WellFounded /\ MaxStars \in Nat
  BY TypesAssumption DEF WellFounded, Ordered, TypesAssumption
<1>2. ASSUME NEW m \in DOMAIN types, \A k \in DOMAIN types : rank[k] < rank[m] => k \in G
      PROVE  m \in G
  <2>1. types[m].of \in AllTypes /\ types[m].of.name \in DOMAIN types /\ types[m].of.stars \in 0..MaxStars
    BY DEF Table, Entry, EntryOver, AllTypes
  <2>2. rank[m] \in Nat /\ rank[types[m].of.name] \in Nat
    BY <2>1 DEF Ordered
  <2>3. CASE types[m].kind # "alias"
    <3>1. BaseOf[m] = Type(m)
      BY <1>1, <2>3, BaseIs
    <3>2. Type(m) \in AllTypes /\ Type(m).name = m /\ Type(m).stars = 0
      BY <1>1 DEF Type, AllTypes
    <3>3. Weight(rank, Type(m)) <= rank[m]
      BY <2>2, <3>2 DEF Weight
    <3> QED
      BY <2>3, <3>1, <3>2, <3>3
  <2>4. CASE types[m].kind = "alias" /\ types[m].of.stars > 0
    <3>1. BaseOf[m] = types[m].of
      BY <1>1, <2>4, BaseIs
    <3>2. Weight(rank, types[m].of) <= rank[m]
      BY <1>1, <2>1, <2>2, <2>4 DEF Weight, Ordered
    <3> QED
      BY <2>1, <2>4, <3>1, <3>2
  <2>5. CASE types[m].kind = "alias" /\ ~(types[m].of.stars > 0)
    <3> DEFINE k == types[m].of.name
    <3>1. BaseOf[m] = BaseOf[k]
      BY <1>1, <2>5, BaseIs
    <3>2. rank[k] < rank[m]
      BY <1>1, <2>1, <2>2, <2>5 DEF Ordered
    <3>3. k \in G
      BY <1>2, <2>1, <3>2
    <3>4. Weight(rank, BaseOf[k]) \in Int
      <4>1. BaseOf[k].name \in DOMAIN types /\ BaseOf[k].stars \in Int
        BY <1>1, <3>3 DEF AllTypes
      <4> QED
        BY <4>1 DEF Weight, Ordered
    <3> QED
      BY <2>2, <3>1, <3>2, <3>3, <3>4
  <2> QED
    BY <2>3, <2>4, <2>5
<1>3. \A m \in DOMAIN types : rank[m] \in Nat
  BY DEF Ordered
<1>4. DOMAIN types \subseteq G
  <2> HIDE DEF G
  <2> QED
    BY <1>2, <1>3, ByRank
<1> QED
  BY <1>4

\* A base is its own base.
LEMMA BaseType ==
  ASSUME Table, WellFounded, NEW t \in AllTypes
  PROVE  LET b == Type_get_base_type(t) IN
         /\ b \in AllTypes /\ Type_get_base_type(b) = b
         /\ b.stars = 0 => types[b.name].kind # "alias"
         /\ t.stars > 0 => b = t
<1>1. PICK top \in Nat : \E rank \in [DOMAIN types -> 0..top] : Ordered(rank, top)
  BY DEF WellFounded
<1>2. PICK rank \in [DOMAIN types -> 0..top] : Ordered(rank, top)
  BY <1>1
<1>3. t.name \in DOMAIN types /\ t.stars \in Nat
  BY TypesAssumption DEF AllTypes, TypesAssumption
<1> DEFINE b == Type_get_base_type(t)
<1>4. CASE t.stars > 0
  BY <1>4 DEF Type_get_base_type
<1>5. CASE t.stars = 0
  <2>1. b = BaseOf[t.name]
    BY <1>5 DEF Type_get_base_type
  <2>2. b \in AllTypes /\ (b.stars = 0 => types[b.name].kind # "alias")
    BY <1>2, <1>3, <2>1, BaseAt
  <2> HIDE DEF b
  <2>3. b.name \in DOMAIN types /\ b.stars \in Nat /\ b = [name |-> b.name, stars |-> b.stars]
    BY <2>2, TypesAssumption DEF AllTypes, TypesAssumption
  <2>4. CASE b.stars > 0
    BY <1>5, <2>2, <2>4 DEF Type_get_base_type, b
  <2>5. CASE b.stars = 0
    <3>1. BaseOf[b.name] = Type(b.name)
      BY <2>2, <2>3, <2>5, BaseIs
    <3>2. Type(b.name) = b
      BY <2>3, <2>5 DEF Type
    <3> QED
      BY <1>5, <2>2, <2>5, <3>1, <3>2 DEF Type_get_base_type, b
  <2> QED
    BY <2>3, <2>4, <2>5
<1> QED
  BY <1>3, <1>4, <1>5

LEMMA PointerIs ==
  ASSUME Table, WellFounded, NEW t \in AllTypes
  PROVE  LET b == Type_get_base_type(t) IN
         /\ Type_is_pointer(t) <=> b.stars > 0
         /\ Type_is_pointer(b) <=> Type_is_pointer(t)
         /\ Type_is_pointer(t) \in BOOLEAN
         /\ ~Type_is_pointer(t) => b = Type(b.name) /\ KindOf(b) = types[b.name].kind
<1> DEFINE b == Type_get_base_type(t)
<1>1. b \in AllTypes /\ Type_get_base_type(b) = b
  BY BaseType
<1> HIDE DEF b
<1>2. b.name \in DOMAIN types /\ b.stars \in Nat /\ b = [name |-> b.name, stars |-> b.stars]
  BY <1>1, TypesAssumption DEF AllTypes, TypesAssumption
<1>3. types[b.name].kind # "pointer"
  BY <1>2 DEF Table, Entry, EntryOver
<1>4. Type_is_pointer(t) <=> b.stars > 0
  BY <1>3 DEF Type_is_pointer, KindOf, b
<1>5. Type_is_pointer(b) <=> b.stars > 0
  BY <1>1, <1>3 DEF Type_is_pointer, KindOf
<1>6. Type_is_pointer(t) \in BOOLEAN
  BY DEF Type_is_pointer
<1>7. ~(b.stars > 0) => b = Type(b.name) /\ KindOf(b) = types[b.name].kind
  BY <1>2 DEF Type, KindOf
<1> QED
  BY <1>4, <1>5, <1>6, <1>7 DEF b

LEMMA PointeeIs ==
  ASSUME Table, WellFounded, NEW t \in AllTypes, Type_is_pointer(t)
  PROVE  LET b == Type_get_base_type(t) IN
         /\ Type_get_pointee_type(t) = [name |-> b.name, stars |-> b.stars - 1]
         /\ Type_get_pointee_type(t) \in AllTypes
         /\ Type_get_pointee_type(b) = Type_get_pointee_type(t)
<1> DEFINE b == Type_get_base_type(t)
<1>1. b \in AllTypes /\ Type_get_base_type(b) = b /\ b.stars > 0
  BY BaseType, PointerIs
<1> HIDE DEF b
<1>2. b.name \in DOMAIN types /\ b.stars \in 0..MaxStars /\ b = [name |-> b.name, stars |-> b.stars]
  BY <1>1 DEF AllTypes
<1>3. MaxStars \in Nat
  BY TypesAssumption DEF TypesAssumption
<1>4. [b EXCEPT !.stars = @ - 1] = [name |-> b.name, stars |-> b.stars - 1]
  BY <1>2
<1>5. Type_get_pointee_type(t) = [name |-> b.name, stars |-> b.stars - 1]
  BY <1>4 DEF Type_get_pointee_type, b
<1>6. Type_get_pointee_type(b) = [name |-> b.name, stars |-> b.stars - 1]
  BY <1>1, <1>4 DEF Type_get_pointee_type
<1>7. [name |-> b.name, stars |-> b.stars - 1] \in AllTypes
  BY <1>1, <1>2, <1>3 DEF AllTypes
<1> QED
  BY <1>5, <1>6, <1>7 DEF b

\* What a pointer points at is lower than the pointer.
LEMMA PointeeLower ==
  ASSUME Table, NEW top, NEW rank, Ordered(rank, top), NEW t \in AllTypes, Type_is_pointer(t)
  PROVE  /\ Weight(rank, t) \in 0 .. top + MaxStars
         /\ Weight(rank, Type_get_pointee_type(t)) < Weight(rank, t)
<1> DEFINE b == Type_get_base_type(t)
           q == Type_get_pointee_type(t)
<1>1. WellFounded
  BY DEF WellFounded, Ordered
<1>2. b \in AllTypes /\ b.stars > 0 /\ q = [name |-> b.name, stars |-> b.stars - 1]
  BY <1>1, BaseType, PointerIs, PointeeIs
<1>3. MaxStars \in Nat /\ top \in Nat
  BY TypesAssumption DEF TypesAssumption, Ordered
<1>4. rank[t.name] \in 0..top /\ rank[b.name] \in 0..top /\ t.stars \in 0..MaxStars /\ b.stars \in 0..MaxStars
  <2> HIDE DEF b
  <2> QED
    BY <1>2 DEF Ordered, AllTypes
<1>5. Weight(rank, b) <= Weight(rank, t)
  <2>1. CASE t.stars > 0
    <3>1. b = t
      BY <2>1 DEF Type_get_base_type
    <3> HIDE DEF b
    <3> QED
      BY <1>3, <1>4, <3>1 DEF Weight
  <2>2. CASE t.stars = 0
    <3>1. b = BaseOf[t.name] /\ t.name \in DOMAIN types
      BY <2>2 DEF Type_get_base_type, AllTypes
    <3>2. Weight(rank, BaseOf[t.name]) <= rank[t.name]
      BY <3>1, BaseAt
    <3> HIDE DEF b
    <3> QED
      BY <2>2, <1>3, <1>4, <3>1, <3>2 DEF Weight
  <2> QED
    BY <1>3, <1>4, <2>1, <2>2
<1> HIDE DEF b, q
<1>6. Weight(rank, q) < Weight(rank, b)
  BY <1>2, <1>3, <1>4 DEF Weight
<1>7. Weight(rank, q) \in Int /\ Weight(rank, b) \in Int /\ Weight(rank, t) \in 0 .. top + MaxStars
  BY <1>2, <1>3, <1>4 DEF Weight
<1> QED
  BY <1>5, <1>6, <1>7 DEF q

\* Equality of types is what it is defined by.
LEMMA EqualIs ==
  ASSUME Table, WellFounded, NEW s \in AllTypes, NEW t \in AllTypes
  PROVE  LET b1 == Type_get_base_type(s)
             b2 == Type_get_base_type(t)
         IN Type_eq(s, t) = IF Type_is_pointer(s) /\ Type_is_pointer(t)
                            THEN Type_eq(Type_get_pointee_type(s), Type_get_pointee_type(t))
                            ELSE KindOf(b1) = KindOf(b2) /\ b1.name = b2.name
<1>1. PICK top \in Nat : \E rank \in [DOMAIN types -> 0..top] : Ordered(rank, top)
  BY DEF WellFounded
<1>2. PICK rank \in [DOMAIN types -> 0..top] : Ordered(rank, top)
  BY <1>1
<1> DEFINE S == AllTypes \X AllTypes
           most == top + MaxStars
           b(u) == Type_get_base_type(u)
           w == [x \in S |-> Weight(rank, x[1])]
           D == {x \in S : Type_is_pointer(b(x[1])) /\ Type_is_pointer(b(x[2]))}
           p == [x \in S |-> <<Type_get_pointee_type(b(x[1])), Type_get_pointee_type(b(x[2]))>>]
           c == [x \in S |-> KindOf(b(x[1])) = KindOf(b(x[2])) /\ b(x[1]).name = b(x[2]).name]
<1>3. MaxStars \in Nat /\ most \in Nat
  BY TypesAssumption DEF TypesAssumption
<1>4. w \in [S -> 0..most]
  <2>1. ASSUME NEW u \in AllTypes PROVE Weight(rank, u) \in 0..most
    <3>1. u.name \in DOMAIN types /\ u.stars \in 0..MaxStars
      BY DEF AllTypes
    <3>2. rank[u.name] \in 0..top
      BY <3>1
    <3> QED
      BY <1>3, <3>1, <3>2 DEF Weight
  <2> HIDE DEF most
  <2> QED
    BY <2>1
<1>5. ASSUME NEW x \in S, x \in D PROVE p[x] \in S /\ w[p[x]] < w[x]
  <2>1. x[1] \in AllTypes /\ x[2] \in AllTypes
    OBVIOUS
  <2>2. Type_is_pointer(x[1]) /\ Type_is_pointer(x[2])
    BY <1>5, <2>1, PointerIs
  <2>3. p[x] = <<Type_get_pointee_type(x[1]), Type_get_pointee_type(x[2])>>
    BY <2>1, <2>2, PointeeIs
  <2>4. Type_get_pointee_type(x[1]) \in AllTypes /\ Type_get_pointee_type(x[2]) \in AllTypes
    BY <2>1, <2>2, PointeeIs
  <2>5. Weight(rank, Type_get_pointee_type(x[1])) < Weight(rank, x[1])
    BY <1>2, <2>1, <2>2, PointeeLower
  <2> HIDE DEF p
  <2> QED
    BY <2>3, <2>4, <2>5
<1>6. PICK A : Computed(A, S, D, p, c)
  <2> HIDE DEF S, most, w, D, p, c
  <2> QED
    BY <1>3, <1>4, <1>5, Descends
<1>7. Equal = [pair \in AllTypes \X AllTypes |->
                 LET b1 == Type_get_base_type(pair[1])
                     b2 == Type_get_base_type(pair[2])
                 IN IF Type_is_pointer(b1) /\ Type_is_pointer(b2)
                    THEN Equal[<<Type_get_pointee_type(b1), Type_get_pointee_type(b2)>>]
                    ELSE KindOf(b1) = KindOf(b2) /\ b1.name = b2.name]
  <2>1. A = [pair \in AllTypes \X AllTypes |->
                 LET b1 == Type_get_base_type(pair[1])
                     b2 == Type_get_base_type(pair[2])
                 IN IF Type_is_pointer(b1) /\ Type_is_pointer(b2)
                    THEN A[<<Type_get_pointee_type(b1), Type_get_pointee_type(b2)>>]
                    ELSE KindOf(b1) = KindOf(b2) /\ b1.name = b2.name]
    BY <1>6 DEF Computed
  <2> QED
    BY <2>1 DEF Equal
<1>8. <<s, t>> \in AllTypes \X AllTypes
  OBVIOUS
<1>9. Type_eq(s, t) = IF Type_is_pointer(b(s)) /\ Type_is_pointer(b(t))
                      THEN Type_eq(Type_get_pointee_type(b(s)), Type_get_pointee_type(b(t)))
                      ELSE KindOf(b(s)) = KindOf(b(t)) /\ b(s).name = b(t).name
  BY <1>7, <1>8 DEF Type_eq
<1>10. /\ Type_is_pointer(b(s)) <=> Type_is_pointer(s)
       /\ Type_is_pointer(b(t)) <=> Type_is_pointer(t)
  BY PointerIs
<1>11. Type_is_pointer(s) /\ Type_is_pointer(t) =>
         /\ Type_get_pointee_type(b(s)) = Type_get_pointee_type(s)
         /\ Type_get_pointee_type(b(t)) = Type_get_pointee_type(t)
  BY PointeeIs
<1> QED
  BY <1>9, <1>10, <1>11
-----------------------------------------------------------------------------
\* What holds of every type that holds of what it points at.
LEMMA ByPointee ==
  ASSUME Table, WellFounded, NEW G,
         \A t \in AllTypes : (Type_is_pointer(t) => Type_get_pointee_type(t) \in G) => t \in G
  PROVE  AllTypes \subseteq G
<1>1. PICK top \in Nat : \E rank \in [DOMAIN types -> 0..top] : Ordered(rank, top)
  BY DEF WellFounded
<1>2. PICK rank \in [DOMAIN types -> 0..top] : Ordered(rank, top)
  BY <1>1
<1> DEFINE S == AllTypes
           w == [t \in S |-> Weight(rank, t)]
<1>3. ASSUME NEW t \in S PROVE w[t] \in Nat
  <2>1. t.name \in DOMAIN types /\ t.stars \in 0..MaxStars /\ MaxStars \in Nat
    BY TypesAssumption DEF AllTypes, TypesAssumption
  <2>2. rank[t.name] \in 0..top
    BY <2>1
  <2> QED
    BY <2>1, <2>2 DEF Weight
<1>4. ASSUME NEW t \in S, \A u \in S : w[u] < w[t] => u \in G
      PROVE  t \in G
  <2>1. ASSUME Type_is_pointer(t) PROVE Type_get_pointee_type(t) \in G
    <3>1. Type_get_pointee_type(t) \in S
      BY <2>1, PointeeIs
    <3>2. Weight(rank, Type_get_pointee_type(t)) < Weight(rank, t)
      BY <1>2, <2>1, PointeeLower
    <3> QED
      BY <1>4, <3>1, <3>2
  <2> QED
    BY <2>1
<1> HIDE DEF w, S
<1>5. S \subseteq G
  BY <1>3, <1>4, ByRank
<1> QED
  BY <1>5 DEF S

LEMMA EqBoolean ==
  ASSUME Table, WellFounded, NEW s \in AllTypes, NEW t \in AllTypes
  PROVE  Type_eq(s, t) \in BOOLEAN
<1> DEFINE G == {u \in AllTypes : \A v \in AllTypes : Type_eq(u, v) \in BOOLEAN}
<1>1. ASSUME NEW u \in AllTypes, Type_is_pointer(u) => Type_get_pointee_type(u) \in G
      PROVE  u \in G
  <2> SUFFICES ASSUME NEW v \in AllTypes PROVE Type_eq(u, v) \in BOOLEAN
    OBVIOUS
  <2>1. CASE Type_is_pointer(u) /\ Type_is_pointer(v)
    <3>1. Type_get_pointee_type(v) \in AllTypes
      BY <2>1, PointeeIs
    <3>2. Type_eq(u, v) = Type_eq(Type_get_pointee_type(u), Type_get_pointee_type(v))
      BY <2>1, EqualIs
    <3> QED
      BY <1>1, <2>1, <3>1, <3>2
  <2>2. CASE ~(Type_is_pointer(u) /\ Type_is_pointer(v))
    <3> DEFINE k == KindOf(Type_get_base_type(u)) = KindOf(Type_get_base_type(v))
                      /\ Type_get_base_type(u).name = Type_get_base_type(v).name
    <3>1. Type_eq(u, v) = k
      BY <2>2, EqualIs
    <3> QED
      BY <3>1
  <2> QED
    BY <2>1, <2>2
<1>2. AllTypes \subseteq G
  <2> HIDE DEF G
  <2> QED
    BY <1>1, ByPointee
<1> QED
  BY <1>2

\* Equal types are both pointers, and what they point at is equal, or neither is.
LEMMA EqUnfolds ==
  ASSUME Table, WellFounded, NEW s \in AllTypes, NEW t \in AllTypes
  PROVE  Type_eq(s, t) <=>
           \/ /\ Type_is_pointer(s) /\ Type_is_pointer(t)
              /\ Type_eq(Type_get_pointee_type(s), Type_get_pointee_type(t))
           \/ /\ ~Type_is_pointer(s) /\ ~Type_is_pointer(t)
              /\ Type_get_base_type(s) = Type_get_base_type(t)
<1> DEFINE b1 == Type_get_base_type(s)
           b2 == Type_get_base_type(t)
<1>1. CASE Type_is_pointer(s) /\ Type_is_pointer(t)
  <2>1. Type_get_pointee_type(s) \in AllTypes /\ Type_get_pointee_type(t) \in AllTypes
    BY <1>1, PointeeIs
  <2>2. Type_eq(s, t) = Type_eq(Type_get_pointee_type(s), Type_get_pointee_type(t))
    BY <1>1, EqualIs
  <2> QED
    BY <1>1, <2>1, <2>2, EqBoolean
<1>2. CASE ~(Type_is_pointer(s) /\ Type_is_pointer(t))
  <2>1. Type_eq(s, t) <=> KindOf(b1) = KindOf(b2) /\ b1.name = b2.name
    BY <1>2, EqualIs, EqBoolean
  <2>2. /\ Type_is_pointer(s) <=> Type_is_pointer(b1)
        /\ Type_is_pointer(t) <=> Type_is_pointer(b2)
        /\ ~Type_is_pointer(s) => b1 = Type(b1.name)
        /\ ~Type_is_pointer(t) => b2 = Type(b2.name)
        /\ Type_get_base_type(b1) = b1 /\ Type_get_base_type(b2) = b2
    BY PointerIs, BaseType
  <2>3. /\ Type_is_pointer(s) <=> KindOf(b1) = "pointer"
        /\ Type_is_pointer(t) <=> KindOf(b2) = "pointer"
    BY DEF Type_is_pointer
  <2> HIDE DEF b1, b2
  <2>4. CASE ~Type_is_pointer(s) /\ ~Type_is_pointer(t)
    BY <2>1, <2>2, <2>4 DEF b1, b2
  <2>5. CASE ~(~Type_is_pointer(s) /\ ~Type_is_pointer(t))
    BY <1>2, <2>1, <2>3, <2>5
  <2> QED
    BY <2>4, <2>5
<1> QED
  BY <1>1, <1>2

LEMMA EqReflexive ==
  ASSUME Table, WellFounded, NEW t \in AllTypes
  PROVE  Type_eq(t, t)
<1> DEFINE G == {u \in AllTypes : Type_eq(u, u)}
<1>1. ASSUME NEW u \in AllTypes, Type_is_pointer(u) => Type_get_pointee_type(u) \in G
      PROVE  u \in G
  BY <1>1, EqUnfolds
<1>2. AllTypes \subseteq G
  <2> HIDE DEF G
  <2> QED
    BY <1>1, ByPointee
<1> QED
  BY <1>2

LEMMA EqSymmetric ==
  ASSUME Table, WellFounded, NEW s \in AllTypes, NEW t \in AllTypes, Type_eq(s, t)
  PROVE  Type_eq(t, s)
<1> DEFINE G == {u \in AllTypes : \A v \in AllTypes : Type_eq(u, v) => Type_eq(v, u)}
<1>1. ASSUME NEW u \in AllTypes, Type_is_pointer(u) => Type_get_pointee_type(u) \in G
      PROVE  u \in G
  <2> SUFFICES ASSUME NEW v \in AllTypes, Type_eq(u, v) PROVE Type_eq(v, u)
    OBVIOUS
  <2>1. Type_is_pointer(v) => Type_get_pointee_type(v) \in AllTypes
    BY PointeeIs
  <2> QED
    BY <1>1, <2>1, EqUnfolds
<1>2. AllTypes \subseteq G
  <2> HIDE DEF G
  <2> QED
    BY <1>1, ByPointee
<1> QED
  BY <1>2

LEMMA EqTransitive ==
  ASSUME Table, WellFounded, NEW s \in AllTypes, NEW t \in AllTypes, NEW u \in AllTypes,
         Type_eq(s, t), Type_eq(t, u)
  PROVE  Type_eq(s, u)
<1> DEFINE G == {x \in AllTypes : \A y, z \in AllTypes : Type_eq(x, y) /\ Type_eq(y, z) => Type_eq(x, z)}
<1>1. ASSUME NEW x \in AllTypes, Type_is_pointer(x) => Type_get_pointee_type(x) \in G
      PROVE  x \in G
  <2> SUFFICES ASSUME NEW y \in AllTypes, NEW z \in AllTypes, Type_eq(x, y), Type_eq(y, z)
               PROVE  Type_eq(x, z)
    OBVIOUS
  <2>1. /\ Type_is_pointer(y) => Type_get_pointee_type(y) \in AllTypes
        /\ Type_is_pointer(z) => Type_get_pointee_type(z) \in AllTypes
    BY PointeeIs
  <2>2. CASE Type_is_pointer(x)
    <3>1. Type_is_pointer(y) /\ Type_is_pointer(z)
      BY <2>2, EqUnfolds
    <3>2. /\ Type_eq(Type_get_pointee_type(x), Type_get_pointee_type(y))
          /\ Type_eq(Type_get_pointee_type(y), Type_get_pointee_type(z))
      BY <2>2, <3>1, EqUnfolds
    <3>3. Type_eq(Type_get_pointee_type(x), Type_get_pointee_type(z))
      BY <1>1, <2>1, <2>2, <3>1, <3>2
    <3> QED
      BY <2>2, <3>1, <3>3, EqUnfolds
  <2>3. CASE ~Type_is_pointer(x)
    BY <2>3, EqUnfolds
  <2> QED
    BY <2>2, <2>3
<1>2. AllTypes \subseteq G
  <2> HIDE DEF G
  <2> QED
    BY <1>1, ByPointee
<1> QED
  BY <1>2

\* A type equals its base, whatever stars the base has; pointers to equal types are equal.
LEMMA EqOfBase ==
  ASSUME Table, WellFounded, NEW t \in AllTypes
  PROVE  Type_eq(t, Type_get_base_type(t))
<1> DEFINE b == Type_get_base_type(t)
<1>1. b \in AllTypes /\ Type_get_base_type(b) = b
  BY BaseType
<1>2. Type_is_pointer(b) <=> Type_is_pointer(t)
  BY PointerIs
<1>3. Type_is_pointer(t) =>
        Type_get_pointee_type(t) \in AllTypes /\ Type_get_pointee_type(b) = Type_get_pointee_type(t)
  BY PointeeIs
<1>4. Type_is_pointer(t) => Type_eq(Type_get_pointee_type(t), Type_get_pointee_type(t))
  BY <1>3, EqReflexive
<1> QED
  BY <1>1, <1>2, <1>3, <1>4, EqUnfolds

LEMMA PtrTypeIs ==
  ASSUME Table, WellFounded, NEW t \in AllTypes, t.stars < MaxStars
  PROVE  LET q == Type_get_ptr_type(t) IN
         q \in AllTypes /\ Type_is_pointer(q) /\ Type_get_pointee_type(q) = t
           /\ q = [name |-> t.name, stars |-> t.stars + 1]
<1> DEFINE q == Type_get_ptr_type(t)
<1>1. /\ t.name \in DOMAIN types /\ t.stars \in 0..MaxStars /\ MaxStars \in Nat
      /\ t = [name |-> t.name, stars |-> t.stars]
  BY TypesAssumption DEF AllTypes, TypesAssumption
<1>2. q = [name |-> t.name, stars |-> t.stars + 1]
  BY <1>1 DEF Type_get_ptr_type
<1> HIDE DEF q
<1>3. q \in AllTypes /\ q.stars > 0
  BY <1>1, <1>2 DEF AllTypes
<1>4. Type_get_base_type(q) = q
  BY <1>3, BaseType
<1>5. Type_is_pointer(q)
  BY <1>3, <1>4, PointerIs
<1>6. Type_get_pointee_type(q) = [name |-> q.name, stars |-> q.stars - 1]
  BY <1>3, <1>4, <1>5, PointeeIs
<1>7. q.name = t.name /\ q.stars - 1 = t.stars
  BY <1>1, <1>2
<1> QED
  BY <1>1, <1>2, <1>3, <1>5, <1>6, <1>7 DEF q

LEMMA EqOfPointers ==
  ASSUME Table, WellFounded, NEW s \in AllTypes, NEW t \in AllTypes,
         s.stars < MaxStars, t.stars < MaxStars, Type_eq(s, t)
  PROVE  Type_eq(Type_get_ptr_type(s), Type_get_ptr_type(t))
<1>1. /\ Type_get_ptr_type(s) \in AllTypes /\ Type_is_pointer(Type_get_ptr_type(s))
      /\ Type_get_pointee_type(Type_get_ptr_type(s)) = s
  BY PtrTypeIs
<1>2. /\ Type_get_ptr_type(t) \in AllTypes /\ Type_is_pointer(Type_get_ptr_type(t))
      /\ Type_get_pointee_type(Type_get_ptr_type(t)) = t
  BY PtrTypeIs
<1> QED
  BY <1>1, <1>2, EqUnfolds
-----------------------------------------------------------------------------
\* A field is of the type itself, or of one of lower rank, unless a pointer.
LEMMA FieldLower ==
  ASSUME Table, NEW top, NEW rank, Ordered(rank, top), NEW n \in DOMAIN types,
         NEW i \in 1..Len(types[n].fields)
  PROVE  /\ types[n].fields[i].type \in AllTypes
         /\ Within(n, i) \in AllTypes
         /\ Within(n, i).stars = 0 /\ Within(n, i).name # n => rank[Within(n, i).name] < rank[n]
<1> DEFINE t == types[n].fields[i].type
           b == Within(n, i)
<1>1. WellFounded
  BY DEF WellFounded, Ordered
<1>2. t \in AllTypes
  <2> DEFINE fs == types[n].fields
             F == [name : STRING, type : AllTypes]
  <2>1. fs \in Seq(F)
    BY DEF Table, Entry, EntryOver
  <2> HIDE DEF fs, F
  <2>2. fs[i] \in F
    BY <2>1 DEF fs
  <2> QED
    BY <2>2 DEF fs, F
<1>3. b \in AllTypes /\ (t.stars > 0 => b = t)
  BY <1>1, <1>2, BaseType DEF Within
<1>4. /\ t.name \in DOMAIN types /\ t.stars \in Nat /\ rank[t.name] \in Nat /\ rank[n] \in Nat
      /\ b.name \in DOMAIN types /\ b.stars \in Nat /\ rank[b.name] \in Nat
  BY <1>2, <1>3, TypesAssumption DEF Ordered, AllTypes, TypesAssumption
<1>5. ASSUME b.stars = 0, b.name # n PROVE rank[b.name] < rank[n]
  <2>1. t.stars = 0
    BY <1>3, <1>4, <1>5
  <2>2. b = BaseOf[t.name]
    BY <2>1 DEF Within, Type_get_base_type
  <2>3. Weight(rank, b) <= rank[t.name]
    BY <1>4, <2>2, BaseAt
  <2>4. rank[b.name] <= rank[t.name]
    <3> HIDE DEF b, t
    <3> QED
      BY <1>4, <1>5, <2>3 DEF Weight
  <2>5. t.name # n
    <3>1. SUFFICES ASSUME t.name = n PROVE FALSE
      OBVIOUS
    <3>2. types[n].kind # "alias"
      <4>1. types[n].kind = "alias" => Len(types[n].fields) = 0
        BY DEF Table
      <4> QED
        BY <4>1
    <3>3. BaseOf[n] = Type(n)
      BY <1>1, <3>2, BaseIs
    <3> QED
      BY <1>5, <2>2, <3>1, <3>3 DEF Type
  <2>6. rank[t.name] < rank[n]
    BY <2>5 DEF Ordered
  <2> HIDE DEF b, t
  <2> QED
    BY <1>4, <2>4, <2>6
<1> QED
  BY <1>2, <1>3, <1>5

\* It depends on names of lower rank alone.
LEMMA BodySame ==
  ASSUME Table, NEW top, NEW rank, Ordered(rank, top), NEW n \in DOMAIN types, NEW A, NEW B,
         \A k \in DOMAIN types : rank[k] < rank[n] => A[k] = B[k]
  PROVE  NameLLVM(A, n) = NameLLVM(B, n)
<1>1. ASSUME NEW i \in 1..Len(types[n].fields)
      PROVE  FieldLLVM(A, n, i) = FieldLLVM(B, n, i)
  <2>1. Within(n, i) \in AllTypes
        /\ (Within(n, i).stars = 0 /\ Within(n, i).name # n => rank[Within(n, i).name] < rank[n])
    BY FieldLower
  <2>2. Within(n, i).name \in DOMAIN types /\ Within(n, i).stars \in Nat
    BY <2>1, TypesAssumption DEF AllTypes, TypesAssumption
  <2> QED
    BY <2>1, <2>2 DEF FieldLLVM
<1> DEFINE places == 1..Len(types[n].fields)
           F == {i \in places : FieldLLVM(A, n, i).kind \in Failures}
           first == CHOOSE i \in F : \A j \in F : i <= j
<1>2. F = {i \in places : FieldLLVM(B, n, i).kind \in Failures}
  BY <1>1
<1>3. (\E i \in places : FieldLLVM(A, n, i).kind = "void")
        <=> (\E i \in places : FieldLLVM(B, n, i).kind = "void")
  BY <1>1
<1>4. ASSUME F # {} PROVE FieldLLVM(A, n, first) = FieldLLVM(B, n, first)
  <2>1. F \subseteq places /\ F \subseteq Nat
    OBVIOUS
  <2> HIDE DEF F, places
  <2>2. \E i \in F : \A j \in F : i <= j
    BY <1>4, <2>1, LeastNumber
  <2>3. first \in places
    BY <2>1, <2>2
  <2> HIDE DEF first
  <2> QED
    BY <1>1, <2>3 DEF places
<1>5. StructLLVM(A, n) = StructLLVM(B, n)
  <2>1. StructLLVM(A, n) = IF F # {} THEN FieldLLVM(A, n, first)
          ELSE IF \E i \in places : FieldLLVM(A, n, i).kind = "void" THEN Failure("undefined")
          ELSE LLVM("struct", 0, n)
    BY DEF StructLLVM
  <2>2. StructLLVM(B, n) = IF F # {} THEN FieldLLVM(B, n, first)
          ELSE IF \E i \in places : FieldLLVM(B, n, i).kind = "void" THEN Failure("undefined")
          ELSE LLVM("struct", 0, n)
    <3> DEFINE E == {i \in places : FieldLLVM(B, n, i).kind \in Failures}
    <3>1. StructLLVM(B, n) = IF E # {} THEN FieldLLVM(B, n, CHOOSE i \in E : \A j \in E : i <= j)
            ELSE IF \E i \in places : FieldLLVM(B, n, i).kind = "void" THEN Failure("undefined")
            ELSE LLVM("struct", 0, n)
      BY DEF StructLLVM
    <3>2. E = F
      BY <1>2
    <3> HIDE DEF E, F, places
    <3> QED
      BY <3>1, <3>2
  <2> HIDE DEF F, first, places
  <2> QED
    BY <1>3, <1>4, <2>1, <2>2
<1> QED
  BY <1>5 DEF NameLLVM

\* The LLVM type of a name is what it is defined by.
LEMMA LLVMIs ==
  ASSUME Table, WellFounded, NEW n \in DOMAIN types
  PROVE  LLVMOf[n] = NameLLVM(LLVMOf, n)
<1>1. PICK top \in Nat : \E rank \in [DOMAIN types -> 0..top] : Ordered(rank, top)
  BY DEF WellFounded
<1>2. PICK rank \in [DOMAIN types -> 0..top] : Ordered(rank, top)
  BY <1>1
<1> DEFINE S == DOMAIN types
           Right(A, x) == A[x] = NameLLVM(A, x)
           G == {m \in Nat : \E A : \A x \in S : rank[x] < m => Right(A, x)}
           Stages == 0 .. top + 1
           id == [m \in Stages |-> m]
<1>3. ASSUME NEW m \in Stages, \A k \in Stages : id[k] < id[m] => k \in G
      PROVE  m \in G
  <2>1. CASE m = 0
    BY <2>1
  <2>2. CASE m # 0
    <3>1. m - 1 \in Stages /\ id[m - 1] < id[m] /\ m - 1 \in Nat
      BY <2>2
    <3>2. m - 1 \in G
      BY <1>3, <3>1
    <3>3. PICK A : \A x \in S : rank[x] < m - 1 => Right(A, x)
      BY <3>2
    <3> DEFINE B == [x \in S |-> IF rank[x] < m - 1 THEN A[x] ELSE NameLLVM(A, x)]
    <3>4. ASSUME NEW x \in S, rank[x] < m PROVE Right(B, x)
      <4>1. B[x] = NameLLVM(A, x)
        BY <3>3
      <4>2. \A k \in S : rank[k] < rank[x] => rank[k] < m - 1
        <5>1. \A k \in S : rank[k] \in Nat
          OBVIOUS
        <5> QED
          BY <3>1, <3>4, <5>1
      <4>3. \A k \in S : rank[k] < rank[x] => A[k] = B[k]
        BY <4>2
      <4> HIDE DEF B
      <4>4. NameLLVM(A, x) = NameLLVM(B, x)
        BY <1>2, <4>3, BodySame
      <4> QED
        BY <4>1, <4>4
    <3> HIDE DEF B, Right
    <3> QED
      BY <3>4
  <2> QED
    BY <2>1, <2>2
<1>4. \A m \in Stages : id[m] \in Nat
  OBVIOUS
<1>5. top + 1 \in G
  <2>1. Stages \subseteq G
    <3> HIDE DEF G, id, Stages
    <3> QED
      BY <1>3, <1>4, ByRank
  <2> HIDE DEF G, id
  <2> QED
    BY <2>1
<1>6. PICK A : \A x \in S : rank[x] < top + 1 => Right(A, x)
  BY <1>5
<1> DEFINE B == [x \in S |-> A[x]]
<1>7. ASSUME NEW x \in S PROVE B[x] = NameLLVM(B, x)
  <2>1. A[x] = NameLLVM(A, x)
    BY <1>6
  <2>2. \A k \in S : A[k] = B[k]
    OBVIOUS
  <2> HIDE DEF B
  <2>3. NameLLVM(A, x) = NameLLVM(B, x)
    BY <1>2, <2>2, BodySame
  <2> QED
    BY <2>1, <2>2, <2>3
<1>8. B = [x \in S |-> NameLLVM(B, x)]
  <2>1. B = [x \in S |-> B[x]]
    OBVIOUS
  <2> HIDE DEF B
  <2> QED
    BY <1>7, <2>1
<1>9. LLVMOf = [x \in DOMAIN types |-> NameLLVM(LLVMOf, x)]
  <2> HIDE DEF B
  <2> QED
    BY <1>8 DEF LLVMOf
<1> QED
  BY <1>9

LEMMA LLVMParts ==
  /\ \A k, w, n : LLVM(k, w, n).kind = k /\ LLVM(k, w, n).width = w
  /\ PointerType.kind = "ptr" /\ VoidType.kind = "void"
  /\ \A how : Failure(how).kind = how
  /\ \A w : IntType(w).kind = "int" /\ IntType(w).width = w
BY DEF LLVM, PointerType, VoidType, Failure, IntType

\* What kinds of LLVM types there are of what kinds of types.
LEMMA KindLLVM ==
  ASSUME Table, WellFounded, NEW n \in DOMAIN types
  PROVE  /\ n = "void" => LLVMOf[n] = VoidType
         /\ n \in Builtins \ {"void"} => LLVMOf[n] = IntType(Width[n])
         /\ n \notin Builtins => LLVMOf[n].kind \in Failures \cup {"struct", "ptr"}
         /\ n \notin Builtins => LLVMOf[n].kind # "ptr"
<1>1. LLVMOf[n] = NameLLVM(LLVMOf, n)
  BY LLVMIs
<1>2. CASE n \in Builtins
  <2>1. types[n].kind = "builtin" /\ types[n].size = Width[n]
    BY <1>2 DEF Table
  <2> QED
    BY <1>1, <1>2, <2>1 DEF NameLLVM
<1>3. CASE n \notin Builtins
  <2>1. types[n].kind # "builtin"
    BY <1>3 DEF Table
  <2>2. CASE types[n].kind = "opaque"
    <3>1. LLVMOf[n] = Failure("refused")
      BY <1>1, <2>1, <2>2 DEF NameLLVM
    <3> QED
      BY <1>3, <3>1, LLVMParts DEF Failures, Builtins
  <2>3. CASE types[n].kind # "opaque"
    <3>1. LLVMOf[n] = StructLLVM(LLVMOf, n)
      BY <1>1, <2>1, <2>3 DEF NameLLVM
    <3> DEFINE places == 1..Len(types[n].fields)
               F == {i \in places : FieldLLVM(LLVMOf, n, i).kind \in Failures}
               first == CHOOSE i \in F : \A j \in F : i <= j
    <3>2. CASE F # {}
      <4>1. F \subseteq places /\ F \subseteq Nat
        OBVIOUS
      <4>2. first \in F
        <5> HIDE DEF F, places
        <5>1. \E i \in F : \A j \in F : i <= j
          BY <3>2, <4>1, LeastNumber
        <5> QED
          BY <5>1
      <4>3. LLVMOf[n] = FieldLLVM(LLVMOf, n, first)
        BY <3>1, <3>2 DEF StructLLVM
      <4>4. LLVMOf[n].kind \in Failures
        <5> HIDE DEF first
        <5> QED
          BY <4>2, <4>3
      <4> QED
        BY <1>3, <4>4 DEF Failures, Builtins
    <3>3. CASE F = {}
      <4>1. LLVMOf[n] \in {Failure("undefined"), LLVM("struct", 0, n)}
        BY <3>1, <3>3 DEF StructLLVM
      <4> QED
        BY <1>3, <4>1, LLVMParts DEF Failures, Builtins
    <3> QED
      BY <3>2, <3>3
  <2> QED
    BY <2>2, <2>3
<1> QED
  BY <1>2, <1>3 DEF Builtins

\* The LLVM type of a type.
LEMMA LLVMOfType ==
  ASSUME Table, WellFounded, NEW t \in AllTypes
  PROVE  LET g == get_llvm_type(t) IN
         /\ g.kind = "void" <=> Type_is_void(t)
         /\ g.kind = "ptr" <=> Type_is_pointer(t)
         /\ Type_is_pointer(t) => g = PointerType
         /\ g.kind \in Failures \cup {"int", "ptr", "struct", "void"}
         /\ g = IntType(Width["int64"]) <=> Type_get_base_type(t) = Type("int64")
<1> DEFINE b == Type_get_base_type(t)
           g == get_llvm_type(t)
<1>1. b \in AllTypes /\ (Type_is_pointer(t) <=> b.stars > 0) /\ (~Type_is_pointer(t) => b = Type(b.name))
  BY BaseType, PointerIs
<1>2. g = IF b.stars > 0 THEN PointerType ELSE LLVMOf[b.name]
  BY DEF get_llvm_type
<1>3. Type_is_void(t) <=> b = Type("void")
  BY DEF Type_is_void, IsBuiltin
<1> HIDE DEF b, g
<1>4. b.name \in DOMAIN types /\ b.stars \in Nat
  BY <1>1, TypesAssumption DEF AllTypes, TypesAssumption
<1>5. CASE b.stars > 0
  <2>1. b # Type("void") /\ b # Type("int64")
    BY <1>4, <1>5 DEF Type
  <2>2. g = PointerType
    BY <1>2, <1>5
  <2> QED
    BY <1>1, <1>3, <1>5, <2>1, <2>2, LLVMParts DEF Failures, b, g
<1>6. CASE ~(b.stars > 0)
  <2>1. g = LLVMOf[b.name] /\ b = Type(b.name) /\ ~Type_is_pointer(t)
    BY <1>1, <1>2, <1>6
  <2>2. b = Type("void") <=> b.name = "void"
    BY <2>1 DEF Type
  <2>3. b = Type("int64") <=> b.name = "int64"
    BY <2>1 DEF Type
  <2>4. CASE b.name = "void"
    <3>1. g = VoidType
      BY <1>4, <2>1, <2>4, KindLLVM
    <3> QED
      BY <1>3, <2>1, <2>2, <2>3, <2>4, <3>1, LLVMParts DEF Failures, b, g
  <2>5. CASE b.name \in Builtins \ {"void"}
    <3>1. g = IntType(Width[b.name])
      BY <1>4, <2>1, <2>5, KindLLVM
    <3>2. b.name # "int64" => Width[b.name] # Width["int64"]
      BY <2>5, TypesAssumption DEF TypesAssumption
    <3>3. g = IntType(Width["int64"]) <=> b.name = "int64"
      BY <3>1, <3>2, LLVMParts
    <3> QED
      BY <1>3, <2>1, <2>2, <2>3, <2>5, <3>1, <3>3, LLVMParts DEF Failures, b, g
  <2>6. CASE b.name \notin Builtins
    <3>1. g.kind \in Failures \cup {"struct", "ptr"} /\ g.kind # "ptr"
      BY <1>4, <2>1, <2>6, KindLLVM
    <3>2. b.name # "void" /\ b.name # "int64"
      BY <2>6 DEF Builtins
    <3>3. g # IntType(Width["int64"]) /\ g.kind # "void"
      BY <3>1, LLVMParts DEF Failures
    <3> QED
      BY <1>3, <2>1, <2>2, <2>3, <3>1, <3>2, <3>3 DEF b, g
  <2> QED
    BY <2>4, <2>5, <2>6
<1> QED
  BY <1>5, <1>6

\* Equal types have one LLVM type.
LEMMA EqLLVM ==
  ASSUME Table, WellFounded, NEW s \in AllTypes, NEW t \in AllTypes, Type_eq(s, t)
  PROVE  get_llvm_type(s) = get_llvm_type(t)
<1>1. CASE Type_is_pointer(s) /\ Type_is_pointer(t)
  BY <1>1, LLVMOfType
<1>2. CASE Type_get_base_type(s) = Type_get_base_type(t)
  BY <1>2 DEF get_llvm_type
<1> QED
  BY <1>1, <1>2, EqUnfolds
-----------------------------------------------------------------------------
\* The entries there are.
LEMMA EntryParts ==
  /\ \A w : /\ Builtin(w).kind = "builtin" /\ Builtin(w).size = w /\ Builtin(w).fields = << >>
            /\ Builtin(w).of = Type("void")
  /\ \A t : /\ Alias(t).kind = "alias" /\ Alias(t).fields = << >> /\ Alias(t).of = t
  /\ Opaque.kind = "opaque" /\ Opaque.fields = << >> /\ Opaque.of = Type("void")
  /\ \A fs : Struct(fs).kind = "typedef" /\ Struct(fs).fields = fs /\ Struct(fs).of = Type("void")
BY DEF Builtin, Alias, Opaque, Struct

LEMMA EntriesIn ==
  ASSUME NEW T, Type("void") \in T
  PROVE  /\ \A w \in Int : Builtin(w) \in EntryOver(T)
         /\ \A t \in T : Alias(t) \in EntryOver(T)
         /\ Opaque \in EntryOver(T)
         /\ \A fs \in Seq([name : STRING, type : T]) : Struct(fs) \in EntryOver(T)
<1> DEFINE F == Seq([name : STRING, type : T])
<1>1. << >> \in F
  OBVIOUS
<1> HIDE DEF F
<1>2. EntryOver(T) = [kind : {"builtin", "alias", "opaque", "typedef"}, size : Int, fields : F, of : T]
  BY DEF EntryOver, F
<1>3. \A w \in Int : Builtin(w) \in EntryOver(T)
  BY <1>1, <1>2 DEF Builtin
<1>4. \A t \in T : Alias(t) \in EntryOver(T)
  BY <1>1, <1>2 DEF Alias
<1>5. Opaque \in EntryOver(T)
  BY <1>1, <1>2 DEF Opaque
<1>6. \A fs \in F : Struct(fs) \in EntryOver(T)
  BY <1>2 DEF Struct
<1> QED
  BY <1>3, <1>4, <1>5, <1>6 DEF F

\* The builtin types.
LEMMA InitTypes == Init => TypesInv
<1> SUFFICES ASSUME Init PROVE TypesInv
  OBVIOUS
<1>1. /\ types = install_builtins
      /\ names = [name \in DOMAIN install_builtins |-> name] /\ program \in Programs
  BY DEF Init
<1> DEFINE D == Builtins \cup {"int", "string"}
<1>2. DOMAIN types = D
  BY <1>1 DEF install_builtins
<1>3. MaxStars \in Nat \ {0} /\ Width \in [Builtins -> Nat]
  BY TypesAssumption DEF TypesAssumption
<1>4. \A b \in Builtins : types[b] = Builtin(Width[b])
  <2>1. \A b \in Builtins : b # "int" /\ b # "string"
    BY DEF Builtins
  <2> QED
    BY <1>1, <2>1 DEF install_builtins
<1>5. /\ "int" \notin Builtins /\ "string" \notin Builtins
      /\ types["int"] = Alias(Type("int64")) /\ types["string"] = Alias(Type_get_ptr_type(Type("char")))
  BY <1>1 DEF install_builtins, Builtins
<1>6. \A n \in DOMAIN types : n \in Builtins \/ n = "int" \/ n = "string"
  BY <1>2
<1>7. \A n \in D : Type(n) \in AllTypes /\ Type(n).name = n
  BY <1>2, <1>3 DEF Type, AllTypes
<1>8. /\ Type_get_ptr_type(Type("char")) = [name |-> "char", stars |-> 1]
      /\ [name |-> "char", stars |-> 1] \in AllTypes
  <2>1. "char" \in DOMAIN types
    BY <1>2 DEF Builtins
  <2> QED
    BY <1>3, <2>1 DEF Type_get_ptr_type, Type, AllTypes
<1>9. Table
  <2>1. \A b \in Builtins : Width[b] \in Int
    BY <1>3
  <2>2. Type("void") \in AllTypes /\ Type("int64") \in AllTypes
    BY <1>7 DEF Builtins
  <2> HIDE DEF D
  <2>5. \A n \in DOMAIN types : types[n] \in Entry
    <3>1. \A b \in Builtins : types[b] \in Entry
      BY <1>4, <2>1, <2>2, EntriesIn DEF Entry
    <3>2. types["int"] \in Entry /\ types["string"] \in Entry
      BY <1>5, <1>8, <2>2, EntriesIn DEF Entry
    <3> QED
      BY <1>6, <3>1, <3>2
  <2>6. types \in [DOMAIN types -> Entry]
    <3>1. types = [n \in DOMAIN types |-> types[n]]
      BY <1>1 DEF install_builtins
    <3> QED
      BY <2>5, <3>1
  <2>7. DOMAIN types \cap Nameless \subseteq {Inner}
    BY <1>2 DEF D, Nameless, Builtins, Inner
  <2>8. \A n \in DOMAIN types : types[n].kind = "builtin" <=> n \in Builtins
    BY <1>4, <1>5, <1>6, EntryParts
  <2>9. \A b \in Builtins : types[b].size = Width[b]
    BY <1>4, EntryParts
  <2>10. \A n \in DOMAIN types : types[n].kind = "alias" => types[n].fields = << >>
    BY <1>4, <1>5, <1>6, EntryParts
  <2> QED
    BY <1>2, <1>5, <2>6, <2>7, <2>8, <2>9, <2>10 DEF Table, D
<1>10. Scope
  <2>1. names = [n \in D |-> n]
    BY <1>1, <1>2
  <2>2. D \cap Nameless = {}
    BY DEF D, Nameless, Builtins, Inner
  <2> HIDE DEF D
  <2>3. names \in [DOMAIN names -> DOMAIN types] /\ DOMAIN names = D
    BY <1>2, <2>1
  <2> QED
    BY <1>2, <2>2, <2>3 DEF Scope, D
<1>11. WellFounded
  <2> DEFINE top == MaxStars + 1
             rank == [n \in DOMAIN types |-> IF n \in Builtins THEN 0 ELSE top]
  <2>1. top \in Nat /\ rank \in [DOMAIN types -> 0..top]
    BY <1>3
  <2>2. ASSUME NEW n \in DOMAIN types
        PROVE  /\ types[n].kind = "alias" => rank[types[n].of.name] + MaxStars < rank[n]
               /\ Len(types[n].fields) = 0
    <3>1. CASE n \in Builtins
      <4>1. types[n].kind = "builtin" /\ types[n].fields = << >>
        BY <1>4, <3>1, EntryParts
      <4> QED
        BY <4>1
    <3>2. CASE n = "int"
      <4>1. types[n].of.name = "int64" /\ "int64" \in Builtins /\ "int64" \in DOMAIN types
        BY <1>2, <1>5, <3>2, EntryParts DEF Type, Builtins
      <4>2. types[n].fields = << >>
        BY <1>5, <3>2, EntryParts
      <4> QED
        BY <1>3, <1>5, <3>2, <4>1, <4>2
    <3>3. CASE n = "string"
      <4>1. types[n].of.name = "char" /\ "char" \in Builtins /\ "char" \in DOMAIN types
        BY <1>2, <1>5, <1>8, <3>3, EntryParts DEF Builtins
      <4>2. types[n].fields = << >>
        BY <1>5, <3>3, EntryParts
      <4> QED
        BY <1>3, <1>5, <3>3, <4>1, <4>2
    <3> QED
      BY <1>6, <3>1, <3>2, <3>3
  <2> HIDE DEF top, rank
  <2>3. Ordered(rank, top)
    BY <2>1, <2>2 DEF Ordered
  <2> QED
    BY <2>1, <2>3 DEF WellFounded
<1>12. ToCome
  <2>1. program \in Seq(Declaration) /\ WellDeclared(program)
    BY <1>1, TypesAssumption DEF TypesAssumption
  <2>2. Inner \notin DOMAIN types
    BY <1>2 DEF Builtins, Inner
  <2> QED
    BY <2>1, <2>2 DEF ToCome
<1> QED
  BY <1>9, <1>10, <1>11, <1>12 DEF TypesInv

\* One more type, made of types there are, or a struct of itself.
LEMMA OneMore ==
  ASSUME Table, Scope, WellFounded, NEW key, NEW e, NEW name,
         key \notin DOMAIN types, key \notin Nameless \ {Inner}, name \notin Nameless,
         types' = With(types, key, e), names' = With(names, name, key), key \in {name, Inner},
         e.kind # "builtin", e \in Entry', e.kind = "alias" => e.of \in AllTypes /\ e.fields = << >>
  PROVE  Table' /\ Scope' /\ WellFounded'
<1> DEFINE D == DOMAIN types
           E == D \cup {key}
<1>1. /\ DOMAIN types' = E /\ types' = [k \in E |-> IF k = key THEN e ELSE types[k]]
      /\ DOMAIN names' = DOMAIN names \cup {name}
      /\ names' = [k \in DOMAIN names \cup {name} |-> IF k = name THEN key ELSE names[k]]
  BY DEF With
<1>2. AllTypes \subseteq AllTypes'
  BY <1>1 DEF AllTypes
<1>3. Entry \subseteq Entry'
  <2> DEFINE F == [name : STRING, type : AllTypes]
             G == [name : STRING, type : AllTypes']
  <2>1. F \subseteq G
    BY <1>2
  <2>2. Seq(F) \subseteq Seq(G)
    <3> HIDE DEF F, G
    <3> QED
      BY <2>1
  <2> QED
    BY <1>2, <2>2 DEF Entry, EntryOver
<1>4. \A n \in D : types'[n] = types[n]
  BY <1>1
<1>5. types'[key] = e
  BY <1>1
<1>6. Builtins \cup {"int", "string"} \subseteq D
  BY DEF Table
<1>7. Table'
  <2>1. types' \in [E -> Entry']
    <3>1. \A n \in E : types'[n] \in Entry'
      BY <1>3, <1>4, <1>5 DEF Table
    <3> QED
      BY <1>1, <3>1
  <2>2. E \cap Nameless \subseteq {Inner}
    BY DEF Table
  <2>3. \A n \in E : types'[n].kind = "builtin" <=> n \in Builtins
    BY <1>4, <1>5, <1>6 DEF Table
  <2>4. \A b \in Builtins : types'[b].size = Width[b]
    BY <1>4, <1>6 DEF Table
  <2>5. \A n \in E : types'[n].kind = "alias" => types'[n].fields = << >>
    BY <1>4, <1>5 DEF Table
  <2>6. types'["int"] = Alias(Type("int64")) /\ types'["string"] = Alias(Type_get_ptr_type(Type("char")))
    BY <1>4, <1>6 DEF Table
  <2> HIDE DEF E
  <2> QED
    BY <1>1, <1>6, <2>1, <2>2, <2>3, <2>4, <2>5, <2>6 DEF Table, E
<1>8. Scope'
  <2>1. names' \in [DOMAIN names' -> E]
    BY <1>1 DEF Scope
  <2>2. E \subseteq DOMAIN names' \cup {Inner}
    BY <1>1 DEF Scope
  <2>3. DOMAIN names' \cap Nameless = {} /\ Builtins \cup {"int", "string"} \subseteq DOMAIN names'
    BY <1>1 DEF Scope
  <2> QED
    BY <1>1, <2>1, <2>2, <2>3 DEF Scope
<1>9. WellFounded'
  <2>1. PICK top \in Nat : \E rank \in [DOMAIN types -> 0..top] : Ordered(rank, top)
    BY DEF WellFounded
  <2>2. PICK rank \in [DOMAIN types -> 0..top] : Ordered(rank, top)
    BY <2>1
  <2> DEFINE most == top + MaxStars + 1
             r == [n \in E |-> IF n = key THEN most ELSE rank[n]]
  <2>3. MaxStars \in Nat /\ most \in Nat
    BY TypesAssumption DEF TypesAssumption
  <2>4. r \in [E -> 0..most]
    BY <2>3
  <2>5. \A n \in D : r[n] = rank[n] /\ rank[n] \in 0..top
    OBVIOUS
  <2>6. r[key] = most
    OBVIOUS
  <2>7. ASSUME NEW n \in E, types'[n].kind = "alias"
        PROVE  r[types'[n].of.name] + MaxStars < r[n]
    <3>1. CASE n \in D
      <4>1. types[n].of.name \in D
        BY <3>1 DEF Table, Entry, EntryOver, AllTypes
      <4>2. rank[types[n].of.name] + MaxStars < rank[n]
        BY <1>4, <2>2, <2>7, <3>1 DEF Ordered
      <4> HIDE DEF r
      <4> QED
        BY <1>4, <2>5, <3>1, <4>1, <4>2
    <3>2. CASE n = key
      <4>1. e.of.name \in D
        BY <1>5, <2>7, <3>2 DEF AllTypes
      <4>2. rank[e.of.name] + MaxStars < most
        BY <2>3, <2>5, <4>1
      <4> HIDE DEF r, most
      <4> QED
        BY <1>5, <2>5, <2>6, <3>2, <4>1, <4>2
    <3> QED
      BY <3>1, <3>2
  <2>8. ASSUME NEW n \in E, NEW i \in 1..Len(types'[n].fields), types'[n].fields[i].type.name # n
        PROVE  r[types'[n].fields[i].type.name] < r[n]
    <3>1. CASE n \in D
      <4>1. i \in 1..Len(types[n].fields) /\ types'[n] = types[n]
        BY <1>4, <2>8, <3>1
      <4>2. types[n].fields[i].type \in AllTypes
        BY <2>2, <3>1, <4>1, FieldLower
      <4>3. types[n].fields[i].type.name \in D
        BY <4>2 DEF AllTypes
      <4>4. rank[types[n].fields[i].type.name] < rank[n]
        BY <2>2, <2>8, <3>1, <4>1 DEF Ordered
      <4> HIDE DEF r
      <4> QED
        BY <2>5, <3>1, <4>1, <4>3, <4>4
    <3>2. CASE n = key
      <4> DEFINE f == e.fields
                 T == [name : STRING, type : AllTypes']
      <4>1. f \in Seq(T) /\ i \in 1..Len(f)
        BY <1>5, <2>8, <3>2 DEF Entry, EntryOver
      <4>2. f[i] \in T
        <5> HIDE DEF f, T
        <5> QED
          BY <4>1
      <4>3. f[i].type.name \in E
        <5>1. f[i].type \in AllTypes'
          BY <4>2
        <5> HIDE DEF f, E
        <5> QED
          BY <1>1, <5>1 DEF AllTypes
      <4>4. f[i].type.name \in D /\ types'[n].fields[i].type.name = f[i].type.name
        BY <1>5, <2>8, <3>2, <4>3
      <4>5. rank[f[i].type.name] < most
        BY <2>3, <2>5, <4>4
      <4> HIDE DEF r, most, f
      <4> QED
        BY <2>5, <2>6, <3>2, <4>4, <4>5
    <3> QED
      BY <3>1, <3>2
  <2> HIDE DEF r, most, E
  <2>9. PICK q, m : q = r /\ m = most
    OBVIOUS
  <2>10. Ordered(q, m)'
    BY <1>1, <2>3, <2>4, <2>7, <2>8, <2>9 DEF Ordered, E
  <2> QED
    BY <1>1, <2>3, <2>4, <2>9, <2>10 DEF WellFounded, E
<1> QED
  BY <1>7, <1>8, <1>9

\* What is left of the declarations.
LEMMA RestOfProgram ==
  ASSUME program \in Seq(Declaration), WellDeclared(program), program # << >>, program' = Tail(program)
  PROVE  /\ program' \in Seq(Declaration) /\ WellDeclared(program') /\ Head(program) \in Declaration
         /\ \A i \in 1..Len(program') : i + 1 \in 1..Len(program) /\ program'[i] = program[i + 1]
<1>1. /\ Head(program) \in Declaration /\ program' \in Seq(Declaration)
      /\ Len(program') = Len(program) - 1 /\ Len(program) \in Nat
  OBVIOUS
<1>2. \A i \in 1..Len(program') : i + 1 \in 1..Len(program) /\ program'[i] = program[i + 1]
  BY <1>1
<1>3. WellDeclared(program')
  <2>1. \A i \in 1..Len(program') : i \in Nat
    BY <1>1
  <2> QED
    BY <1>2, <2>1 DEF WellDeclared
<1> QED
  BY <1>1, <1>2, <1>3

\* A struct or an alias is made of what is declared before it; a struct of itself too.
LEMMA DeclareTypes ==
  ASSUME TypesInv, build_ScopeSymbol_for_type
  PROVE  TypesInv'
<1> DEFINE d == Head(program)
           key == Key(d)
           Known == DOMAIN names \cup (IF d.kind = "typedef" THEN {d.name} ELSE {})
           with == With(names, d.name, key)
           Found(t) == [t EXCEPT !.name = with[@]]
           e == CASE d.kind = "opaque"  -> Opaque
                  [] d.kind = "alias"   -> Alias(scope_lookup_typename(d.of))
                  [] d.kind = "typedef" ->
                       Struct([i \in 1..Len(d.fields) |->
                                 [name |-> d.fields[i].name, type |-> Found(d.fields[i].type)]])
           clash == (d.scope = "file" /\ d.name \in DOMAIN names) \/ ~(d.uses \subseteq Known)
<1>1. program # << >> /\ program' = Tail(program)
  BY DEF build_ScopeSymbol_for_type
<1>2. /\ program' \in Seq(Declaration) /\ WellDeclared(program') /\ d \in Declaration
      /\ \A i \in 1..Len(program') : i + 1 \in 1..Len(program) /\ program'[i] = program[i + 1]
  BY <1>1, RestOfProgram DEF TypesInv, ToCome
<1>3. CASE clash
  <2>1. UNCHANGED <<types, names>>
    BY <1>3 DEF build_ScopeSymbol_for_type
  <2>2. Table' /\ Scope'
    BY <2>1 DEF TypesInv, Table, Scope, Entry, EntryOver, AllTypes
  <2>3. WellFounded'
    BY <2>1 DEF TypesInv, WellFounded, Ordered
  <2>4. ToCome'
    BY <1>2, <2>1 DEF TypesInv, ToCome
  <2> QED
    BY <2>2, <2>3, <2>4 DEF TypesInv
<1>4. CASE ~clash
  <2>1. types' = With(types, key, e) /\ names' = with
    BY <1>4 DEF build_ScopeSymbol_for_type
  <2>2. 1 \in 1..Len(program) /\ program[1] = d
    BY <1>1 DEF TypesInv, ToCome
  <2>3. /\ d.name \notin Nameless /\ d.scope \in {"file", "body"} /\ d.of \in Typename
        /\ d.kind \in {"opaque", "alias", "typedef"}
        /\ d.fields \in Seq([name : STRING, type : Typename])
    BY <1>2 DEF Declaration
  <2>4. /\ d.scope = "body" => d.kind = "alias" /\ Inner \notin DOMAIN types
        /\ d.kind = "alias" => d.of.name \in d.uses
        /\ \A j \in 1..Len(d.fields) : d.fields[j].type.name \in d.uses
    BY <2>2 DEF TypesInv, ToCome, WellDeclared
  <2>5. key \in {d.name, Inner} /\ (d.scope = "file" => key = d.name) /\ (d.scope = "body" => key = Inner)
    BY DEF Key
  <2>6. key \notin DOMAIN types /\ key \notin Nameless \ {Inner}
    BY <1>4, <2>3, <2>4, <2>5 DEF TypesInv, Scope, Nameless
  <2>7. DOMAIN types' = DOMAIN types \cup {key}
    BY <2>1 DEF With
  <2>8. AllTypes \subseteq AllTypes' /\ Type("void") \in AllTypes
    <3>1. "void" \in DOMAIN types /\ 0 \in 0..MaxStars
      BY TypesAssumption DEF TypesInv, Table, Builtins, TypesAssumption
    <3> QED
      BY <2>7, <3>1 DEF AllTypes, Type
  <2>9. /\ d.kind = "opaque" => e = Opaque
        /\ d.kind = "alias" => e = Alias(scope_lookup_typename(d.of))
        /\ d.kind = "typedef" =>
             e = Struct([i \in 1..Len(d.fields) |->
                           [name |-> d.fields[i].name, type |-> Found(d.fields[i].type)]])
    OBVIOUS
  <2> HIDE DEF e
  <2>10. ASSUME d.kind = "alias" PROVE scope_lookup_typename(d.of) \in AllTypes
    <3>1. d.of.name \in DOMAIN names
      BY <1>4, <2>4, <2>10
    <3>2. names[d.of.name] \in DOMAIN types
      BY <3>1 DEF TypesInv, Scope
    <3>3. /\ d.of = [name |-> d.of.name, stars |-> d.of.stars] /\ d.of.stars \in 0..MaxStars
      BY <2>3 DEF Typename
    <3>4. scope_lookup_typename(d.of) = [name |-> names[d.of.name], stars |-> d.of.stars]
      BY <3>3 DEF scope_lookup_typename
    <3> QED
      BY <3>2, <3>3, <3>4 DEF AllTypes
  <2>11. ASSUME d.kind = "typedef"
         PROVE  [i \in 1..Len(d.fields) |->
                   [name |-> d.fields[i].name, type |-> Found(d.fields[i].type)]]
                  \in Seq([name : STRING, type : AllTypes'])
    <3> DEFINE fs == d.fields
               F == [name : STRING, type : AllTypes']
    <3>1. ASSUME NEW i \in 1..Len(fs)
          PROVE  [name |-> fs[i].name, type |-> Found(fs[i].type)] \in F
      <4>1. fs[i] \in [name : STRING, type : Typename]
        <5> DEFINE Pairs == [name : STRING, type : Typename]
        <5>1. fs \in Seq(Pairs) /\ i \in 1..Len(fs)
          BY <2>3
        <5> HIDE DEF fs, Pairs
        <5>2. fs[i] \in Pairs
          BY <5>1
        <5> QED
          BY <5>2 DEF Pairs
      <4>2. fs[i].type \in Typename /\ fs[i].name \in STRING
        <5> HIDE DEF fs
        <5> QED
          BY <4>1
      <4>3. fs[i].type.name \in DOMAIN names \cup {d.name}
        BY <1>4, <2>4, <2>11
      <4> DEFINE t == fs[i].type
      <4> HIDE DEF t
      <4>4. with[t.name] \in DOMAIN types \cup {key}
        BY <4>3 DEF t, With, TypesInv, Scope
      <4>5. t = [name |-> t.name, stars |-> t.stars] /\ t.stars \in 0..MaxStars
        BY <4>2 DEF Typename, t
      <4> HIDE DEF with
      <4>6. Found(t) = [name |-> with[t.name], stars |-> t.stars]
        BY <4>5
      <4>7. Found(t) \in AllTypes'
        BY <2>7, <4>4, <4>5, <4>6 DEF AllTypes
      <4> QED
        BY <4>2, <4>7 DEF t
    <3>2. Len(fs) \in Nat
      BY <2>3
    <3> HIDE DEF fs, F, with, Found
    <3>3. [i \in 1..Len(fs) |-> [name |-> fs[i].name, type |-> Found(fs[i].type)]] \in Seq(F)
      BY <3>1, <3>2
    <3> QED
      BY <3>3 DEF fs, F
  <2>12. e \in Entry'
    <3>1. Type("void") \in AllTypes'
      BY <2>8
    <3> HIDE DEF Found
    <3>2. e \in EntryOver(AllTypes')
      <4> DEFINE T == AllTypes'
      <4>1. CASE d.kind = "opaque"
        BY <2>9, <3>1, <4>1, EntriesIn
      <4>2. CASE d.kind = "alias"
        <5>1. scope_lookup_typename(d.of) \in T
          BY <2>8, <2>10, <4>2
        <5> HIDE DEF T, d
        <5> QED
          BY <2>9, <3>1, <4>2, <5>1, EntriesIn DEF T
      <4>3. CASE d.kind = "typedef"
        BY <2>9, <2>11, <3>1, <4>3, EntriesIn
      <4> QED
        BY <2>3, <4>1, <4>2, <4>3
    <3> QED
      BY <3>2 DEF Entry
  <2>13. e.kind # "builtin" /\ (e.kind = "alias" => e.of \in AllTypes /\ e.fields = << >>)
    BY <2>3, <2>9, <2>10, EntryParts
  <2>14. Table' /\ Scope' /\ WellFounded'
    <3> HIDE DEF key, d, with
    <3> QED
      BY <2>1, <2>3, <2>5, <2>6, <2>12, <2>13, OneMore DEF TypesInv, with
  <2>15. ToCome'
    <3>1. ASSUME NEW i \in 1..Len(program'), program'[i].scope = "body"
          PROVE  Inner \notin DOMAIN types'
      <4>1. i + 1 \in 1..Len(program) /\ program[i + 1].scope = "body" /\ i \in Nat
        BY <1>2, <3>1
      <4>2. Inner \notin DOMAIN types
        BY <4>1 DEF TypesInv, ToCome
      <4>3. d.scope # "body"
        BY <2>2, <4>1 DEF TypesInv, ToCome, WellDeclared
      <4>4. key # Inner
        BY <2>3, <2>5, <4>3 DEF Nameless
      <4> QED
        BY <2>7, <4>2, <4>4
    <3> QED
      BY <1>2, <3>1 DEF ToCome
  <2> QED
    BY <2>14, <2>15 DEF TypesInv
<1> QED
  BY <1>3, <1>4
-----------------------------------------------------------------------------
(* Expressions. *)

Hows == {"ok", "refused", "assertion", "unimplemented", "undefined", "endless", "dangling"}
Shape(e) == e = [how |-> e.how, scope |-> e.scope, type |-> e.type, cg |-> e.cg, value |-> e.value,
                 want |-> e.want, const |-> e.const, new |-> e.new]

\* The two types of an expression; those of what new() returned are of one depth.
Sound(e) ==
  /\ e.type \in AllTypes /\ e.scope \in AllTypes \cup {NoType} /\ e.new \in BOOLEAN
  /\ e.scope = NoType \/ e.new \/ Type_eq(e.scope, e.type)
  /\ e.new /\ e.scope # NoType => e.scope.name = "void" /\ e.scope.stars <= e.type.stars
  /\ ~Type_is_void(e.type) => e.cg = get_llvm_type(e.type) /\ e.cg.kind \notin Failures
Result(e) == e.how \in Hows /\ (e.how = "ok" => Sound(e))

\* What a generator returns of type t, before the scope's type is put beside it.
Made(e, t) ==
  /\ Shape(e) /\ e.how \in Hows
  /\ e.how = "ok" => /\ t \in AllTypes /\ e.type = t /\ e.cg = get_llvm_type(t)
                     /\ e.new = FALSE /\ ~Type_is_void(t) /\ e.cg.kind \notin Failures

\* An expression but for what the scope says of it.
LEMMA Except ==
  ASSUME NEW e, Shape(e), NEW x, NEW y
  PROVE  /\ LET f == [e EXCEPT !.scope = x] IN
            /\ f.how = e.how /\ f.scope = x /\ f.type = e.type /\ f.cg = e.cg /\ f.new = e.new
         /\ LET f == [e EXCEPT !.scope = x, !.new = y] IN
            /\ f.how = e.how /\ f.scope = x /\ f.type = e.type /\ f.cg = e.cg /\ f.new = y
         /\ LET f == [e EXCEPT !.scope = x, !.const = y] IN
            /\ f.how = e.how /\ f.scope = x /\ f.type = e.type /\ f.cg = e.cg /\ f.new = e.new
         /\ LET f == [e EXCEPT !.scope = x, !.type = y] IN
            /\ f.how = e.how /\ f.scope = x /\ f.type = y /\ f.cg = e.cg /\ f.new = e.new
         /\ LET f == [e EXCEPT !.scope = x, !.type = y, !.const = TRUE] IN
            /\ f.how = e.how /\ f.scope = x /\ f.type = y /\ f.cg = e.cg /\ f.new = e.new
         /\ LET f == [e EXCEPT !.type = y] IN f.how = e.how
BY DEF Shape

LEMMA OutcomeShape ==
  ASSUME NEW h, NEW s, NEW t, NEW g, NEW v, NEW w
  PROVE  Shape(Outcome(h, s, t, g, v, w))
<1> DEFINE e == Outcome(h, s, t, g, v, w)
<1>1. e = [how |-> h, scope |-> s, type |-> t, cg |-> g, value |-> v, want |-> w, const |-> FALSE,
           new |-> FALSE]
  BY DEF Outcome
<1> HIDE DEF e
<1>2. /\ e.how = h /\ e.scope = s /\ e.type = t /\ e.cg = g /\ e.value = v /\ e.want = w
      /\ e.const = FALSE /\ e.new = FALSE
  BY <1>1
<1>3. Shape(e)
  BY <1>1, <1>2 DEF Shape
<1> QED
  BY <1>3 DEF e

LEMMA EndsMade == ASSUME NEW how \in Hows \ {"ok"}, NEW t
                  PROVE  Made(Ends(how), t) /\ Ends(how).how = how /\ Shape(Ends(how))
<1>1. Shape(Ends(how))
  BY OutcomeShape DEF Ends
<1>2. Ends(how).how = how
  BY DEF Ends, Outcome
<1> QED
  BY <1>1, <1>2 DEF Made

LEMMA AllocateMade ==
  ASSUME Table, WellFounded, NEW t \in AllTypes, NEW v, NEW w
  PROVE  Made(allocate_stack_for_temp(t, v, w), t)
<1> DEFINE cg == get_llvm_type(t)
<1>1. cg.kind = "void" <=> Type_is_void(t)
  BY LLVMOfType
<1> HIDE DEF cg
<1>2. CASE cg.kind \in Failures
  <2>1. allocate_stack_for_temp(t, v, w) = Ends(cg.kind)
    BY <1>2 DEF allocate_stack_for_temp, Failures, cg
  <2>2. cg.kind \in Hows \ {"ok"}
    BY <1>2 DEF Failures, Hows
  <2> QED
    BY <2>1, <2>2, EndsMade
<1>3. CASE cg.kind = "void"
  <2>1. allocate_stack_for_temp(t, v, w) = Ends("undefined")
    BY <1>3 DEF allocate_stack_for_temp, Failures, cg
  <2> QED
    BY <2>1, EndsMade DEF Hows
<1>4. CASE cg.kind \notin Failures /\ cg.kind # "void"
  <2>1. allocate_stack_for_temp(t, v, w) = Expression(NoType, t, cg, v, w)
    BY <1>4 DEF allocate_stack_for_temp, Failures, cg
  <2> QED
    <3> DEFINE e == Expression(NoType, t, cg, v, w)
    <3>0. Shape(e)
      BY OutcomeShape DEF Expression
    <3>1. e.how = "ok" /\ e.type = t /\ e.cg = cg /\ e.new = FALSE
      BY DEF Expression, Outcome
    <3> HIDE DEF e
    <3>2. Made(e, t)
      BY <1>1, <1>4, <3>0, <3>1 DEF Made, Hows, cg
    <3> QED
      BY <2>1, <3>2 DEF e
<1> QED
  BY <1>2, <1>3, <1>4

LEMMA sintBOpMade ==
  ASSUME Table, WellFounded, NEW op, NEW l, NEW r, NEW t \in AllTypes
  PROVE  Made(sintBOp(op, l, r, t), t)
<1>1. \/ sintBOp(op, l, r, t) = Ends("assertion")
      \/ \E v, w : sintBOp(op, l, r, t) = allocate_stack_for_temp(t, v, w)
  BY DEF sintBOp
<1> QED
  BY <1>1, EndsMade, AllocateMade DEF Hows

LEMMA intNegateMade ==
  ASSUME Table, WellFounded, NEW l, NEW t \in AllTypes
  PROVE  Made(intNegate(l, t), t)
<1>1. \/ intNegate(l, t) = Ends("assertion")
      \/ \E v, w : intNegate(l, t) = allocate_stack_for_temp(t, v, w)
  BY DEF intNegate
<1> QED
  BY <1>1, EndsMade, AllocateMade DEF Hows

LEMMA compareMade ==
  ASSUME Table, WellFounded, NEW op, NEW l, NEW r, NEW t \in AllTypes
  PROVE  Made(compare(op, l, r, t), t)
<1>1. \/ compare(op, l, r, t) \in {Ends("assertion"), Ends("undefined")}
      \/ \E v, w : compare(op, l, r, t) = allocate_stack_for_temp(t, v, w)
  BY DEF compare
<1> QED
  BY <1>1, EndsMade, AllocateMade DEF Hows

LEMMA booleanAndOrMade ==
  ASSUME Table, WellFounded, NEW op, NEW l, NEW r, NEW t \in AllTypes
  PROVE  Made(booleanAndOr(op, l, r, t), t)
<1>1. \/ booleanAndOr(op, l, r, t) \in {Ends("assertion"), Ends("undefined")}
      \/ \E v, w : booleanAndOr(op, l, r, t) = allocate_stack_for_temp(t, v, w)
  BY DEF booleanAndOr
<1> QED
  BY <1>1, EndsMade, AllocateMade DEF Hows

LEMMA booleanNotMade ==
  ASSUME Table, WellFounded, NEW l, NEW t \in AllTypes
  PROVE  Made(booleanNot(l, t), t)
<1>1. \/ booleanNot(l, t) \in {Ends("assertion"), Ends("undefined")}
      \/ \E v, w : booleanNot(l, t) = allocate_stack_for_temp(t, v, w)
  BY DEF booleanNot
<1> QED
  BY <1>1, EndsMade, AllocateMade DEF Hows
-----------------------------------------------------------------------------
\* Where the table does not change, what is said of types does not.
LEMMA SameBase == ASSUME types' = types PROVE BaseOf' = BaseOf
BY DEF BaseOf, Type
LEMMA SameEqual == ASSUME types' = types PROVE Equal' = Equal
BY DEF Equal, AllTypes, Type_get_base_type, Type_is_pointer, KindOf, Type_get_pointee_type, BaseOf, Type

LEMMA SameLLVM == ASSUME types' = types PROVE LLVMOf' = LLVMOf
BY DEF LLVMOf, NameLLVM, StructLLVM, FieldLLVM, Within, Type_get_base_type, BaseOf, Type

LEMMA SameTypes ==
  ASSUME types' = types
  PROVE  /\ AllTypes' = AllTypes
         /\ \A s, t : Type_eq(s, t)' = Type_eq(s, t)
         /\ \A t : Type_is_void(t)' = Type_is_void(t)
         /\ \A t : get_llvm_type(t)' = get_llvm_type(t)
<1>1. AllTypes' = AllTypes
  BY DEF AllTypes
<1>2. \A s, t : Type_eq(s, t)' = Type_eq(s, t)
  BY SameEqual DEF Type_eq
<1>3. \A t : Type_get_base_type(t)' = Type_get_base_type(t)
  BY SameBase DEF Type_get_base_type
<1>4. \A t : Type_is_void(t)' = Type_is_void(t)
  BY <1>3 DEF Type_is_void, IsBuiltin, Type
<1>5. \A t : get_llvm_type(t)' = get_llvm_type(t)
  BY <1>3, SameLLVM DEF get_llvm_type
<1> QED
  BY <1>1, <1>2, <1>4, <1>5

LEMMA SameSound ==
  ASSUME types' = types, NEW e
  PROVE  Sound(e)' <=> Sound(e)
BY SameTypes DEF Sound, NoType

LEMMA SameTable ==
  ASSUME TypesInv, UNCHANGED <<program, types, names>>
  PROVE  TypesInv'
<1>1. Table' /\ Scope'
  BY DEF TypesInv, Table, Scope, Entry, EntryOver, AllTypes
<1>2. WellFounded'
  BY DEF TypesInv, WellFounded, Ordered
<1>3. ToCome'
  BY DEF TypesInv, ToCome
<1> QED
  BY <1>1, <1>2, <1>3 DEF TypesInv
-----------------------------------------------------------------------------
\* The rule of an operator.
LEMMA RulesAre ==
  /\ Len(BINARY_EXPR) = 7
  /\ BINARY_EXPR[1].ops = {"PLUS", "MINUS"} /\ BINARY_EXPR[1].res = "" /\ BINARY_EXPR[1].gen = "addrOffset"
  /\ BINARY_EXPR[2].ops = {"PLUS", "MINUS"} /\ BINARY_EXPR[2].res = "" /\ BINARY_EXPR[2].gen = "addrOffset"
  /\ BINARY_EXPR[3].ops = Arithmetic /\ BINARY_EXPR[3].res = "" /\ BINARY_EXPR[3].gen = "sintBOp"
  /\ BINARY_EXPR[4].ops = {"AND"} /\ BINARY_EXPR[4].res = "bool" /\ BINARY_EXPR[4].gen = "booleanAnd"
  /\ BINARY_EXPR[5].ops = {"OR"} /\ BINARY_EXPR[5].res = "bool" /\ BINARY_EXPR[5].gen = "booleanOr"
  /\ BINARY_EXPR[6].ops = Comparisons /\ BINARY_EXPR[6].res = "bool" /\ BINARY_EXPR[6].gen = "compare"
  /\ BINARY_EXPR[7].ops = {"CAST"} /\ BINARY_EXPR[7].res = "" /\ BINARY_EXPR[7].gen = "cast"
  /\ BINARY_EXPR[1].lhs = "int64" /\ BINARY_EXPR[1].rhs = "*"
  /\ BINARY_EXPR[2].lhs = "*" /\ BINARY_EXPR[2].rhs = "int64"
  /\ BINARY_EXPR[3].lhs = "" /\ BINARY_EXPR[3].rhs = ""
  /\ BINARY_EXPR[4].lhs = "" /\ BINARY_EXPR[4].rhs = ""
  /\ BINARY_EXPR[5].lhs = "" /\ BINARY_EXPR[5].rhs = ""
  /\ BINARY_EXPR[6].lhs = "" /\ BINARY_EXPR[6].rhs = ""
  /\ BINARY_EXPR[7].lhs = "" /\ BINARY_EXPR[7].rhs = ""
<1>1. Len(BINARY_EXPR) = 7
  BY DEF BINARY_EXPR
<1>2. /\ BINARY_EXPR[1].ops = {"PLUS", "MINUS"} /\ BINARY_EXPR[1].res = "" /\ BINARY_EXPR[1].gen = "addrOffset"
      /\ BINARY_EXPR[1].lhs = "int64" /\ BINARY_EXPR[1].rhs = "*"
  BY DEF BINARY_EXPR, Rule
<1>3. /\ BINARY_EXPR[2].ops = {"PLUS", "MINUS"} /\ BINARY_EXPR[2].res = "" /\ BINARY_EXPR[2].gen = "addrOffset"
      /\ BINARY_EXPR[2].lhs = "*" /\ BINARY_EXPR[2].rhs = "int64"
  BY DEF BINARY_EXPR, Rule
<1>4. /\ BINARY_EXPR[3].ops = Arithmetic /\ BINARY_EXPR[3].res = "" /\ BINARY_EXPR[3].gen = "sintBOp"
      /\ BINARY_EXPR[3].lhs = "" /\ BINARY_EXPR[3].rhs = ""
  BY DEF BINARY_EXPR, Rule
<1>5. /\ BINARY_EXPR[4].ops = {"AND"} /\ BINARY_EXPR[4].res = "bool" /\ BINARY_EXPR[4].gen = "booleanAnd"
      /\ BINARY_EXPR[4].lhs = "" /\ BINARY_EXPR[4].rhs = ""
  BY DEF BINARY_EXPR, Rule
<1>6. /\ BINARY_EXPR[5].ops = {"OR"} /\ BINARY_EXPR[5].res = "bool" /\ BINARY_EXPR[5].gen = "booleanOr"
      /\ BINARY_EXPR[5].lhs = "" /\ BINARY_EXPR[5].rhs = ""
  BY DEF BINARY_EXPR, Rule
<1>7. /\ BINARY_EXPR[6].ops = Comparisons /\ BINARY_EXPR[6].res = "bool" /\ BINARY_EXPR[6].gen = "compare"
      /\ BINARY_EXPR[6].lhs = "" /\ BINARY_EXPR[6].rhs = ""
  BY DEF BINARY_EXPR, Rule
<1>8. /\ BINARY_EXPR[7].ops = {"CAST"} /\ BINARY_EXPR[7].res = "" /\ BINARY_EXPR[7].gen = "cast"
      /\ BINARY_EXPR[7].lhs = "" /\ BINARY_EXPR[7].rhs = ""
  BY DEF BINARY_EXPR, Rule
<1> QED
  BY <1>1, <1>2, <1>3, <1>4, <1>5, <1>6, <1>7, <1>8

Fits(i, op, lhs, rhs) ==
  /\ op \in BINARY_EXPR[i].ops
  /\ typesMatch(lhs, BINARY_EXPR[i].lhs) /\ typesMatch(rhs, BINARY_EXPR[i].rhs)

LEMMA RuleChosen ==
  ASSUME NEW op \in BinaryOps \cup {"CAST"}, NEW lhs, NEW rhs
  PROVE  \E k \in 1..7 : /\ RuleFor(op, lhs, rhs) = BINARY_EXPR[k]
                         /\ Fits(k, op, lhs, rhs)
                         /\ \A j \in 1..(k - 1) : ~Fits(j, op, lhs, rhs)
<1> DEFINE Fit(i) == Fits(i, op, lhs, rhs)
           F == {i \in 1..7 : Fit(i)}
           k == CHOOSE i \in 1..Len(BINARY_EXPR) : Fit(i) /\ \A j \in 1..(i - 1) : ~Fit(j)
<1>1. \E i \in 1..7 : Fit(i)
  <2>1. /\ op \in Arithmetic => 3 \in F
        /\ op = "AND" => 4 \in F
        /\ op = "OR" => 5 \in F
        /\ op \in Comparisons => 6 \in F
        /\ op = "CAST" => 7 \in F
    <3>1. /\ op \in Arithmetic => Fit(3)
          /\ op = "AND" => Fit(4)
          /\ op = "OR" => Fit(5)
          /\ op \in Comparisons => Fit(6)
          /\ op = "CAST" => Fit(7)
      BY RulesAre DEF typesMatch, Fits
    <3> HIDE DEF Fit
    <3> QED
      BY <3>1
  <2> HIDE DEF Fit
  <2> QED
    BY <2>1 DEF BinaryOps
<1>2. RuleFor(op, lhs, rhs) = BINARY_EXPR[k]
  BY DEF RuleFor, Fits
<1> HIDE DEF Fit
<1>3. \E i \in F : \A j \in F : i <= j
  <2>1. F # {} /\ F \subseteq Nat
    BY <1>1
  <2> HIDE DEF F
  <2> QED
    BY <2>1, LeastNumber
<1>4. \E i \in 1..Len(BINARY_EXPR) : Fit(i) /\ \A j \in 1..(i - 1) : ~Fit(j)
  <2>1. PICK i \in F : \A j \in F : i <= j
    BY <1>3
  <2>2. ASSUME NEW j \in 1..(i - 1) PROVE ~Fit(j)
    <3>1. j \in 1..7 /\ ~(i <= j)
      BY <2>1
    <3> QED
      BY <2>1, <3>1
  <2> QED
    BY <2>1, <2>2, RulesAre
<1>5. k \in 1..7 /\ Fit(k) /\ \A j \in 1..(k - 1) : ~Fit(j)
  BY <1>4, RulesAre
<1> QED
  BY <1>2, <1>5 DEF Fit

LEMMA RuleIs ==
  ASSUME NEW op \in BinaryOps \cup {"CAST"}, NEW lhs, NEW rhs
  PROVE  LET rule == RuleFor(op, lhs, rhs) IN
         /\ op = "CAST" => rule.gen = "cast"
         /\ op # "CAST" => rule.gen \in {"addrOffset", "sintBOp", "compare", "booleanAnd", "booleanOr"}
         /\ rule.res = IF rule.gen \in {"addrOffset", "sintBOp", "cast"} THEN "" ELSE "bool"
         /\ rule.gen = "addrOffset" => op \in {"PLUS", "MINUS"}
         /\ rule.gen = "sintBOp" => op \in Arithmetic
         /\ rule.gen = "compare" => op \in Comparisons
         /\ rule.gen \in {"booleanAnd", "booleanOr"} => op \in {"AND", "OR"}
<1>4. PICK k \in 1..7 : RuleFor(op, lhs, rhs) = BINARY_EXPR[k] /\ Fits(k, op, lhs, rhs)
  BY RuleChosen
<1>6. op \in BINARY_EXPR[k].ops
  BY <1>4 DEF Fits
<1>7. /\ k \in {1, 2} => op \in {"PLUS", "MINUS"}
      /\ k = 3 => op \in Arithmetic
      /\ k = 4 => op = "AND"
      /\ k = 5 => op = "OR"
      /\ k = 6 => op \in Comparisons
      /\ k = 7 => op = "CAST"
  BY <1>6, RulesAre
<1>8. "CAST" \notin Arithmetic \cup Comparisons
  BY DEF Arithmetic, Comparisons
<1>9. k \in {1, 2} \/ k = 3 \/ k = 4 \/ k = 5 \/ k = 6 \/ k = 7
  BY <1>4
<1> DEFINE rule == BINARY_EXPR[k]
<1>10. /\ k \in {1, 2} => rule.res = "" /\ rule.gen = "addrOffset"
       /\ k = 3 => rule.res = "" /\ rule.gen = "sintBOp"
       /\ k = 4 => rule.res = "bool" /\ rule.gen = "booleanAnd"
       /\ k = 5 => rule.res = "bool" /\ rule.gen = "booleanOr"
       /\ k = 6 => rule.res = "bool" /\ rule.gen = "compare"
       /\ k = 7 => rule.res = "" /\ rule.gen = "cast"
  <2>1. /\ BINARY_EXPR[1].res = "" /\ BINARY_EXPR[1].gen = "addrOffset"
        /\ BINARY_EXPR[2].res = "" /\ BINARY_EXPR[2].gen = "addrOffset"
        /\ BINARY_EXPR[3].res = "" /\ BINARY_EXPR[3].gen = "sintBOp"
        /\ BINARY_EXPR[4].res = "bool" /\ BINARY_EXPR[4].gen = "booleanAnd"
        /\ BINARY_EXPR[5].res = "bool" /\ BINARY_EXPR[5].gen = "booleanOr"
        /\ BINARY_EXPR[6].res = "bool" /\ BINARY_EXPR[6].gen = "compare"
        /\ BINARY_EXPR[7].res = "" /\ BINARY_EXPR[7].gen = "cast"
    BY RulesAre
  <2> QED
    BY <2>1
<1> HIDE DEF rule
<1>11. /\ op = "CAST" => rule.gen = "cast"
       /\ op # "CAST" => rule.gen \in {"addrOffset", "sintBOp", "compare", "booleanAnd", "booleanOr"}
       /\ rule.res = IF rule.gen \in {"addrOffset", "sintBOp", "cast"} THEN "" ELSE "bool"
       /\ rule.gen = "addrOffset" => op \in {"PLUS", "MINUS"}
       /\ rule.gen = "sintBOp" => op \in Arithmetic
  BY <1>7, <1>8, <1>9, <1>10
<1>12. /\ rule.gen = "compare" => op \in Comparisons
       /\ rule.gen \in {"booleanAnd", "booleanOr"} => op \in {"AND", "OR"}
  BY <1>7, <1>9, <1>10
<1> QED
  BY <1>4, <1>11, <1>12 DEF rule

\* Where a word and a pointer are added the rule is that of addresses, and nowhere else.
LEMMA RuleOfAddresses ==
  ASSUME NEW op \in BinaryOps, NEW lhs, NEW rhs, NEW gen, gen = RuleFor(op, lhs, rhs).gen
  PROVE  /\ gen = "addrOffset" => Type_is_pointer(lhs) \/ Type_is_pointer(rhs)
         /\ op \in {"PLUS", "MINUS"} =>
              /\ typesMatch(lhs, "int64") /\ Type_is_pointer(rhs) => gen = "addrOffset"
              /\ Type_is_pointer(lhs) /\ typesMatch(rhs, "int64") => gen = "addrOffset"
<1>1. PICK k \in 1..7 : /\ RuleFor(op, lhs, rhs) = BINARY_EXPR[k] /\ Fits(k, op, lhs, rhs)
                        /\ \A j \in 1..(k - 1) : ~Fits(j, op, lhs, rhs)
  BY RuleChosen
<1>2. /\ Fits(1, op, lhs, rhs) => k = 1
      /\ Fits(2, op, lhs, rhs) => k \in {1, 2}
  <2>1. Fits(1, op, lhs, rhs) => ~(1 \in 1..(k - 1))
    BY <1>1
  <2>2. Fits(2, op, lhs, rhs) => ~(2 \in 1..(k - 1))
    BY <1>1
  <2> QED
    BY <2>1, <2>2
<1>3. /\ typesMatch(lhs, "*") <=> Type_is_pointer(lhs)
      /\ typesMatch(rhs, "*") <=> Type_is_pointer(rhs)
  BY DEF typesMatch, Builtins, Type_is_pointer
<1>4. k \in {1, 2} <=> gen = "addrOffset"
  <2>1. k = 1 \/ k = 2 \/ k = 3 \/ k = 4 \/ k = 5 \/ k = 6 \/ k = 7
    OBVIOUS
  <2>2. /\ BINARY_EXPR[1].gen = "addrOffset" /\ BINARY_EXPR[2].gen = "addrOffset"
        /\ BINARY_EXPR[3].gen = "sintBOp" /\ BINARY_EXPR[4].gen = "booleanAnd"
        /\ BINARY_EXPR[5].gen = "booleanOr" /\ BINARY_EXPR[6].gen = "compare"
        /\ BINARY_EXPR[7].gen = "cast"
    BY RulesAre
  <2>3. gen = BINARY_EXPR[k].gen
    BY <1>1
  <2> QED
    BY <2>1, <2>2, <2>3
<1>5. /\ Fits(1, op, lhs, rhs) <=>
           op \in {"PLUS", "MINUS"} /\ typesMatch(lhs, "int64") /\ typesMatch(rhs, "*")
      /\ Fits(2, op, lhs, rhs) <=>
           op \in {"PLUS", "MINUS"} /\ typesMatch(lhs, "*") /\ typesMatch(rhs, "int64")
  BY RulesAre DEF Fits
<1>6. k \in {1, 2} => Fits(1, op, lhs, rhs) \/ Fits(2, op, lhs, rhs)
  BY <1>1
<1> QED
  BY <1>2, <1>3, <1>4, <1>5, <1>6
-----------------------------------------------------------------------------
\* Types that are no pointers.
LEMMA NoTypeIsNone == ASSUME Table PROVE NoType \notin AllTypes /\ DanglingType \notin AllTypes
<1>1. NoType.name = "no type" /\ DanglingType.name = "dangling type"
  BY DEF NoType, DanglingType, Type
<1>2. "no type" \notin DOMAIN types /\ "dangling type" \notin DOMAIN types
  <2>1. DOMAIN types \cap Nameless \subseteq {Inner}
    BY DEF Table
  <2>2. "no type" # Inner /\ "dangling type" # Inner
    BY DEF Inner
  <2>3. "no type" \in Nameless /\ "dangling type" \in Nameless
    BY DEF Nameless
  <2> QED
    BY <2>1, <2>2, <2>3
<1> QED
  BY <1>1, <1>2 DEF AllTypes

LEMMA IntegerIs ==
  ASSUME Table, WellFounded, NEW t \in AllTypes, Type_is_integer(t)
  PROVE  /\ ~Type_is_pointer(t) /\ t.name # "void"
         /\ \A s \in AllTypes : Type_eq(s, t) \/ Type_eq(t, s) => Type_is_integer(s)
<1> DEFINE b == Type_get_base_type(t)
<1>1. b \in {Type(name) : name \in {"int64", "int8", "char"}}
  BY DEF Type_is_integer, IsBuiltin
<1>2. b.stars = 0 /\ b.name \in {"int64", "int8", "char"}
  BY <1>1 DEF Type
<1>3. ~Type_is_pointer(t)
  BY <1>2, PointerIs
<1>4. t.name # "void"
  <2>1. SUFFICES ASSUME t.name = "void" PROVE FALSE
    OBVIOUS
  <2>2. "void" \in DOMAIN types /\ types["void"].kind # "alias"
    BY DEF Table, Builtins
  <2>3. t.stars \in Nat /\ (t.stars > 0 => b = t)
    BY BaseType, TypesAssumption DEF AllTypes, TypesAssumption
  <2>4. t.stars = 0
    BY <1>2, <2>3
  <2>5. b = BaseOf["void"]
    BY <2>1, <2>4 DEF Type_get_base_type
  <2>6. b = Type("void")
    BY <2>2, <2>5, BaseIs
  <2> QED
    BY <1>2, <2>6 DEF Type
<1>5. ASSUME NEW s \in AllTypes, Type_eq(s, t) \/ Type_eq(t, s) PROVE Type_is_integer(s)
  <2>1. Type_get_base_type(s) = b
    BY <1>3, <1>5, EqUnfolds
  <2> QED
    BY <1>1, <2>1 DEF Type_is_integer, IsBuiltin
<1> QED
  BY <1>3, <1>4, <1>5

LEMMA VoidIs ==
  ASSUME Table, WellFounded, NEW t \in AllTypes, t.name = "void"
  PROVE  /\ Type_is_pointer(t) <=> t.stars > 0
         /\ Type_get_base_type(t) = t
         /\ Type_is_pointer(t) => Type_get_pointee_type(t) = [name |-> "void", stars |-> t.stars - 1]
         /\ KindOf(t) \in {"pointer", "builtin"}
<1>1. "void" \in DOMAIN types /\ types["void"].kind = "builtin"
  BY DEF Table, Builtins
<1>2. t = [name |-> "void", stars |-> t.stars] /\ t.stars \in Nat
  BY TypesAssumption DEF AllTypes, TypesAssumption
<1>3. Type_get_base_type(t) = t
  <2>1. CASE t.stars > 0
    BY <2>1, BaseType
  <2>2. CASE t.stars = 0
    <3>1. Type_get_base_type(t) = BaseOf["void"]
      BY <2>2 DEF Type_get_base_type
    <3>2. BaseOf["void"] = Type("void")
      BY <1>1, BaseIs
    <3> QED
      BY <1>2, <2>2, <3>1, <3>2 DEF Type
  <2> QED
    BY <1>2, <2>1, <2>2
<1>4. Type_is_pointer(t) <=> t.stars > 0
  BY <1>3, PointerIs
<1>5. Type_is_pointer(t) => Type_get_pointee_type(t) = [name |-> "void", stars |-> t.stars - 1]
  BY <1>3, PointeeIs
<1>6. KindOf(t) \in {"pointer", "builtin"}
  BY <1>1 DEF KindOf
<1> QED
  BY <1>3, <1>4, <1>5, <1>6

LEMMA EqPointers ==
  ASSUME Table, WellFounded, NEW s \in AllTypes, NEW t \in AllTypes, Type_eq(s, t)
  PROVE  Type_is_pointer(s) <=> Type_is_pointer(t)
BY EqUnfolds, PointerIs

\* The type the scope gives a result.
LEMMA BinopTypes ==
  ASSUME TypesInv, NEW op \in BinaryOps \cup {"CAST"},
         NEW l \in AllTypes \cup {NoType}, NEW r \in AllTypes \cup {NoType},
         scope_get_Type_from_binop(op, l, r) # NoType
  PROVE  LET s == scope_get_Type_from_binop(op, l, r)
             gen == RuleFor(op, l, r).gen
         IN /\ s \in AllTypes /\ l \in AllTypes /\ r \in AllTypes
            /\ op = "CAST" => s = r
            /\ gen \in {"compare", "booleanAnd", "booleanOr"} => s = Type(names["bool"])
            /\ gen \in {"addrOffset", "sintBOp"} =>
                 \/ Type_is_integer(l) /\ Type_is_pointer(r) /\ s = r
                 \/ Type_is_pointer(l) /\ Type_is_integer(r) /\ s = l
                 \/ Type_eq(l, r) /\ Type_is_integer(l) /\ s = l
<1> DEFINE s == scope_get_Type_from_binop(op, l, r)
           rule == RuleFor(op, l, r)
<1>1. NoType \notin {l, r} /\ l \in AllTypes /\ r \in AllTypes
  BY DEF scope_get_Type_from_binop
<1>2. s = IF rule.res # "" THEN scope_get_Type_from_name(rule.res)
          ELSE determine_result_type_binop(op, l, r)
  BY <1>1 DEF scope_get_Type_from_binop
<1>3. /\ op = "CAST" => rule.gen = "cast"
      /\ op # "CAST" => rule.gen \in {"addrOffset", "sintBOp", "compare", "booleanAnd", "booleanOr"}
      /\ rule.res = IF rule.gen \in {"addrOffset", "sintBOp", "cast"} THEN "" ELSE "bool"
      /\ rule.gen = "addrOffset" => op \in {"PLUS", "MINUS"}
      /\ rule.gen = "sintBOp" => op \in Arithmetic
      /\ rule.gen = "compare" => op \in Comparisons
      /\ rule.gen \in {"booleanAnd", "booleanOr"} => op \in {"AND", "OR"}
  BY RuleIs
<1> HIDE DEF s, rule
<1>4. s # NoType
  BY DEF s
<1>5. CASE rule.res # ""
  <2>1. s = Type(names["bool"])
    BY <1>2, <1>3, <1>5 DEF scope_get_Type_from_name
  <2>2. s \in AllTypes
    <3>1. names["bool"] \in DOMAIN types /\ 0 \in 0..MaxStars
      BY TypesAssumption DEF TypesInv, Scope, Builtins, TypesAssumption
    <3> QED
      BY <2>1, <3>1 DEF Type, AllTypes
  <2>3. op # "CAST" /\ rule.gen \notin {"addrOffset", "sintBOp"}
    BY <1>3, <1>5
  <2> QED
    BY <1>1, <2>1, <2>2, <2>3 DEF s, rule
<1>6. CASE rule.res = ""
  <2>1. s = determine_result_type_binop(op, l, r)
    BY <1>2, <1>6
  <2>0. rule.gen \notin {"compare", "booleanAnd", "booleanOr"}
    BY <1>3, <1>6
  <2>2. CASE op = "CAST"
    <3>1. s = r
      BY <2>1, <2>2 DEF determine_result_type_binop, Arithmetic
    <3> QED
      BY <1>1, <1>3, <2>0, <2>2, <3>1 DEF s, rule
  <2>3. CASE op # "CAST"
    <3>1. \/ Type_is_integer(l) /\ Type_is_pointer(r) /\ s = r
          \/ Type_is_pointer(l) /\ Type_is_integer(r) /\ s = l
          \/ Type_eq(l, r) /\ Type_is_integer(l) /\ s = l
      BY <1>4, <2>1, <2>3 DEF determine_result_type_binop
    <3> QED
      BY <1>1, <2>0, <2>3, <3>1 DEF s, rule
  <2> QED
    BY <2>2, <2>3
<1> QED
  BY <1>5, <1>6
-----------------------------------------------------------------------------
\* What the generators return.
LEMMA addrOffsetMade ==
  ASSUME Table, WellFounded, NEW op, NEW l, NEW r, l.type \in AllTypes, r.type \in AllTypes
  PROVE  LET ptr == IF Type_is_pointer(Type_get_base_type(l.type)) THEN l ELSE r
         IN Made(addrOffset(op, l, r), Type_get_base_type(ptr.type))
<1> DEFINE ptr == IF Type_is_pointer(Type_get_base_type(l.type)) THEN l ELSE r
           pointee == get_llvm_type(Type_get_pointee_type(ptr.type))
           t == Type_get_base_type(ptr.type)
<1>1. t \in AllTypes
  BY BaseType
<1>2. \/ addrOffset(op, l, r) \in {Ends("assertion"), Ends("unimplemented"), Ends("undefined")}
      \/ pointee.kind \in Failures /\ addrOffset(op, l, r) = Ends(pointee.kind)
      \/ \E v, w : addrOffset(op, l, r) = allocate_stack_for_temp(t, v, w)
  BY DEF addrOffset
<1> HIDE DEF pointee, t
<1>3. ASSUME pointee.kind \in Failures PROVE pointee.kind \in Hows \ {"ok"}
  BY <1>3 DEF Failures, Hows
<1>4. Made(addrOffset(op, l, r), t)
  BY <1>1, <1>2, <1>3, EndsMade, AllocateMade DEF Hows
<1> QED
  BY <1>4 DEF t

LEMMA getValueAtAddressMade ==
  ASSUME Table, WellFounded, NEW l, NEW c, l.type \in AllTypes
  PROVE  /\ Type_is_pointer(l.type) => Made(getValueAtAddress(l, c), Type_get_pointee_type(l.type))
         /\ ~Type_is_pointer(l.type) => getValueAtAddress(l, c) = Ends("assertion")
<1> DEFINE t == Type_get_pointee_type(l.type)
<1>1. ~Type_is_pointer(l.type) => getValueAtAddress(l, c) = Ends("assertion")
  BY DEF getValueAtAddress
<1>2. Type_is_pointer(l.type) => \E v, w : getValueAtAddress(l, c) = allocate_stack_for_temp(t, v, w)
  BY DEF getValueAtAddress
<1>3. Type_is_pointer(l.type) => t \in AllTypes
  BY PointeeIs
<1> HIDE DEF t
<1>4. Type_is_pointer(l.type) => Made(getValueAtAddress(l, c), t)
  BY <1>2, <1>3, AllocateMade
<1> QED
  BY <1>1, <1>4 DEF t

LEMMA getAddressOfValueMade ==
  ASSUME Table, WellFounded, NEW l, l.type \in AllTypes, l.type.stars < MaxStars
  PROVE  Made(getAddressOfValue(l), Type_get_ptr_type(l.type))
<1>1. \E v, w : getAddressOfValue(l) = allocate_stack_for_temp(Type_get_ptr_type(l.type), v, w)
  BY DEF getAddressOfValue
<1>2. Type_get_ptr_type(l.type) \in AllTypes
  BY PtrTypeIs
<1> QED
  BY <1>1, <1>2, AllocateMade

LEMMA castMade ==
  ASSUME Table, WellFounded, NEW l, NEW t \in AllTypes
  PROVE  Made(cast(l, t), t)
<1> DEFINE failing == get_llvm_type(t).kind
<1>1. \/ failing \in Failures /\ cast(l, t) = Ends(failing)
      \/ cast(l, t) = Ends("refused")
      \/ \E v, w : cast(l, t) = allocate_stack_for_temp(t, v, w)
  BY DEF cast
<1> HIDE DEF failing
<1>2. ASSUME failing \in Failures PROVE failing \in Hows \ {"ok"}
  BY <1>2 DEF Failures, Hows
<1> QED
  BY <1>1, <1>2, EndsMade, AllocateMade DEF Hows

\* The field that is found is one of the struct's.
LEMMA FieldFound ==
  ASSUME Table, NEW t, NEW field, FieldPlaces(t, field) # {}
  PROVE  \E i \in 1..Len(types[t.name].fields) :
           Type_get_TypeField(t, field) = types[t.name].fields[i]
<1> DEFINE F == FieldPlaces(t, field)
           first == CHOOSE i \in F : \A j \in F : i <= j
<1>1. F \subseteq 1..Len(types[t.name].fields) /\ F \subseteq Nat
  BY DEF FieldPlaces
<1>2. Type_get_TypeField(t, field) = types[t.name].fields[first]
  BY DEF Type_get_TypeField
<1> HIDE DEF F
<1>3. \E i \in F : \A j \in F : i <= j
  BY <1>1, LeastNumber DEF F
<1>4. first \in F
  BY <1>3
<1> HIDE DEF first
<1> QED
  BY <1>1, <1>2, <1>4

\* A field that is there has a type.
LEMMA FieldType ==
  ASSUME Table, NEW t \in AllTypes, NEW field, FieldPlaces(t, field) # {}
  PROVE  Type_get_TypeField(t, field).type \in AllTypes
<1> DEFINE fields == types[t.name].fields
           Record == [name : STRING, type : AllTypes]
<1>1. PICK i \in 1..Len(fields) : Type_get_TypeField(t, field) = fields[i]
  BY FieldFound
<1>2. t.name \in DOMAIN types
  BY DEF AllTypes
<1>3. fields \in Seq(Record)
  <2>1. types[t.name] \in Entry
    BY <1>2 DEF Table
  <2> DEFINE T == Seq(Record)
  <2>2. Entry = [kind : {"builtin", "alias", "opaque", "typedef"}, size : Int, fields : T, of : AllTypes]
    BY DEF Entry, EntryOver
  <2> HIDE DEF T
  <2>3. types[t.name].fields \in T
    BY <2>1, <2>2
  <2> QED
    BY <2>3 DEF T
<1> HIDE DEF fields, Record
<1>4. fields[i] \in Record
  BY <1>3
<1> QED
  BY <1>1, <1>4 DEF Record

LEMMA codegen_FieldAccessMade ==
  ASSUME Table, WellFounded, NEW l, NEW field, NEW c, l.type \in AllTypes
  PROVE  LET base == Type_get_base_type(l.type)
             objectType == IF Type_is_pointer(base) THEN Type_get_pointee_type(base) ELSE base
             res == codegen_FieldAccess(l, field, c)
         IN /\ res.how # "ok" => res.how \in Hows
            /\ Shape(res)
            /\ res.how = "ok" =>
                 /\ Type_is_typedef(objectType) /\ FieldPlaces(objectType, field) # {}
                 /\ Made(res, Type_get_TypeField(objectType, field).type)
<1> DEFINE base == Type_get_base_type(l.type)
           objectType == IF Type_is_pointer(base) THEN Type_get_pointee_type(base) ELSE base
           res == codegen_FieldAccess(l, field, c)
           failing == get_llvm_type(objectType).kind
           there == Type_is_typedef(objectType) /\ FieldPlaces(objectType, field) # {}
           t == Type_get_TypeField(objectType, field).type
<1>1. \/ res = Ends("refused")
      \/ failing \in Failures /\ res = Ends(failing)
      \/ there /\ \E v, w : res = allocate_stack_for_temp(t, v, w)
  BY DEF codegen_FieldAccess
<1>2. objectType \in AllTypes
  <2>1. base \in AllTypes /\ Type_get_base_type(base) = base
    BY BaseType
  <2> HIDE DEF base
  <2> QED
    BY <2>1, PointeeIs
<1>3. there => t \in AllTypes
  BY <1>2, FieldType
<1> HIDE DEF objectType, res, failing, there, t
<1>4. ASSUME failing \in Failures PROVE failing \in Hows \ {"ok"}
  BY <1>4 DEF Failures, Hows
<1>5. CASE \E how \in Hows \ {"ok"} : res = Ends(how)
  <2>1. PICK how \in Hows \ {"ok"} : res = Ends(how)
    BY <1>5
  <2>2. res.how = how /\ Shape(res)
    BY <2>1, EndsMade
  <2> QED
    BY <2>2 DEF objectType, res, base
<1>6. CASE there /\ \E v, w : res = allocate_stack_for_temp(t, v, w)
  <2>1. Made(res, t)
    BY <1>3, <1>6, AllocateMade
  <2>2. Shape(res) /\ res.how \in Hows
    BY <2>1 DEF Made
  <2> QED
    BY <1>6, <2>1, <2>2 DEF objectType, res, base, t, there
<1> QED
  BY <1>1, <1>4, <1>5, <1>6 DEF Hows
-----------------------------------------------------------------------------
\* A result of the type the scope gives it.
LEMMA MadeSound ==
  ASSUME Table, WellFounded, NEW e, NEW t \in AllTypes, Made(e, t), e.how = "ok", NEW f,
         f.how = e.how, f.type = e.type, f.cg = e.cg,
         f.scope \in AllTypes \cup {NoType}, f.new \in BOOLEAN,
         f.scope = NoType \/ f.new \/ Type_eq(f.scope, t),
         f.new /\ f.scope # NoType => f.scope.name = "void" /\ f.scope.stars <= t.stars
  PROVE  Result(f)
BY DEF Made, Result, Sound, Hows

LEMMA MadeResult ==
  ASSUME Table, WellFounded, NEW e, NEW t, Made(e, t), NEW f,
         f.how = e.how, f.type = e.type, f.cg = e.cg, f.new = FALSE,
         f.scope \in AllTypes, t \in AllTypes => Type_eq(f.scope, t)
  PROVE  Result(f)
<1>1. CASE e.how = "ok"
  <2>1. t \in AllTypes
    BY <1>1 DEF Made
  <2> QED
    BY <1>1, <2>1, MadeSound
<1>2. CASE e.how # "ok"
  BY <1>2 DEF Made, Result
<1> QED
  BY <1>1, <1>2

LEMMA Stopped == ASSUME NEW e, e.how \in Hows \ {"ok"} PROVE Result(e)
BY DEF Result

\* What the operators of two operands make.
LEMMA BinaryResult ==
  ASSUME TypesInv, NEW op \in BinaryOps, NEW l, NEW r, Sound(l), Sound(r)
  PROVE  Result(codegenBinaryOperator(op, l, r))
<1> DEFINE scope == scope_get_Type_from_binop(op, l.scope, r.scope)
           gen == RuleFor(op, l.scope, r.scope).gen
           res == CASE scope = NoType -> Ends("refused")
                    [] scope # NoType /\ gen = "addrOffset" -> addrOffset(op, l, r)
                    [] scope # NoType /\ gen = "sintBOp" -> sintBOp(op, l, r, scope)
                    [] scope # NoType /\ gen = "compare" -> compare(op, l, r, scope)
                    [] scope # NoType /\ gen \in {"booleanAnd", "booleanOr"} ->
                         booleanAndOr(op, l, r, scope)
           new == scope # NoType /\ gen = "addrOffset" /\ (l.new \/ r.new)
           f == [res EXCEPT !.scope = scope, !.new = new]
<1> USE DEF TypesInv
<1>1. codegenBinaryOperator(op, l, r) = f
  BY DEF codegenBinaryOperator
<1>2. /\ l.type \in AllTypes /\ l.scope \in AllTypes \cup {NoType}
      /\ r.type \in AllTypes /\ r.scope \in AllTypes \cup {NoType}
      /\ l.new \in BOOLEAN /\ r.new \in BOOLEAN
  BY DEF Sound
<1>3. op # "CAST"
  BY DEF BinaryOps, Arithmetic, Comparisons
<1>4. gen \in {"addrOffset", "sintBOp", "compare", "booleanAnd", "booleanOr"}
  BY <1>3, RuleIs
<1>5. scope # NoType =>
        /\ scope \in AllTypes /\ l.scope \in AllTypes /\ r.scope \in AllTypes
        /\ gen = "addrOffset" =>
             \/ Type_is_integer(l.scope) /\ Type_is_pointer(r.scope) /\ scope = r.scope
             \/ Type_is_pointer(l.scope) /\ Type_is_integer(r.scope) /\ scope = l.scope
             \/ Type_eq(l.scope, r.scope) /\ Type_is_integer(l.scope) /\ scope = l.scope
  BY <1>2, BinopTypes
<1>6. /\ scope = NoType => res = Ends("refused")
      /\ scope # NoType /\ gen = "addrOffset" => res = addrOffset(op, l, r)
      /\ scope # NoType /\ gen = "sintBOp" => res = sintBOp(op, l, r, scope)
      /\ scope # NoType /\ gen = "compare" => res = compare(op, l, r, scope)
      /\ scope # NoType /\ gen \in {"booleanAnd", "booleanOr"} => res = booleanAndOr(op, l, r, scope)
  OBVIOUS
<1> HIDE DEF scope, gen, res, new
<1>7. Shape(res) => /\ f.how = res.how /\ f.scope = scope /\ f.type = res.type /\ f.cg = res.cg
                    /\ f.new = new
  BY Except
<1> HIDE DEF f
<1>8. CASE scope = NoType
  <2>1. Shape(res) /\ res.how = "refused"
    BY <1>6, <1>8, EndsMade DEF Hows
  <2>2. Result(f)
    BY <1>7, <2>1, Stopped DEF Hows
  <2> QED
    BY <1>1, <2>2
<1>9. CASE scope # NoType /\ gen # "addrOffset"
  <2>1. Made(res, scope)
    BY <1>4, <1>5, <1>6, <1>9, sintBOpMade, compareMade, booleanAndOrMade
  <2>2. new = FALSE
    BY <1>9 DEF new
  <2>3. Type_eq(scope, scope)
    BY <1>5, <1>9, EqReflexive
  <2>4. Shape(res)
    BY <2>1 DEF Made
  <2>5. Result(f)
    BY <1>5, <1>7, <1>9, <2>1, <2>2, <2>3, <2>4, MadeResult
  <2> QED
    BY <1>1, <2>5
<1>10. CASE scope # NoType /\ gen = "addrOffset"
  <2> DEFINE ptr == IF Type_is_pointer(Type_get_base_type(l.type)) THEN l ELSE r
             t == Type_get_base_type(ptr.type)
  <2>1. Made(res, t)
    BY <1>2, <1>6, <1>10, addrOffsetMade
  <2>2. Type_is_pointer(Type_get_base_type(l.type)) <=> Type_is_pointer(l.type)
    BY <1>2, PointerIs
  <2> SUFFICES ASSUME res.how = "ok" PROVE Result(f)
    <3>1. Shape(res) /\ res.how \in Hows
      BY <2>1 DEF Made
    <3>2. res.how # "ok" => Result(f)
      BY <1>7, <3>1, Stopped
    <3> QED
      BY <1>1, <3>2
  <2>3. ASSUME NEW p \in {l, r}, NEW i \in {l, r}, scope = p.scope, ptr = p,
               Type_is_pointer(p.scope), Type_is_integer(i.scope), new => p.new
        PROVE  Result(f)
    <3>1. p.type \in AllTypes /\ p.scope \in AllTypes /\ p.new \in BOOLEAN /\ Sound(p)
      BY <1>2, <1>5, <1>10
    <3>2. t \in AllTypes /\ t = Type_get_base_type(p.type)
      BY <2>3, <3>1, BaseType
    <3>3. CASE p.new
      <4>1. scope.name = "void" /\ scope.stars <= p.type.stars
        BY <1>10, <2>3, <3>1, <3>3 DEF Sound
      <4>2. scope.stars > 0
        BY <2>3, <3>1, <4>1, VoidIs
      <4>3. p.type.stars > 0
        BY <3>1, <2>3, <4>1, <4>2, TypesAssumption DEF AllTypes, TypesAssumption
      <4>4. t = p.type
        BY <3>1, <3>2, <4>3, BaseType
      <4>5. Shape(res) /\ new \in BOOLEAN
        BY <2>1 DEF Made, new
      <4> HIDE DEF t
      <4>6. new \/ Type_eq(scope, t)
        BY <1>10, <2>3, <3>3 DEF new
      <4> QED
        BY <1>5, <1>7, <1>10, <2>1, <3>2, <4>1, <4>4, <4>5, <4>6, MadeSound
    <3>4. CASE ~p.new
      <4>1. Type_eq(scope, p.type)
        BY <1>10, <2>3, <3>1, <3>4 DEF Sound
      <4>2. Type_eq(scope, t)
        <5>1. Type_eq(p.type, t)
          BY <3>1, <3>2, EqOfBase
        <5> HIDE DEF t
        <5> QED
          BY <2>3, <3>1, <3>2, <4>1, <5>1, EqTransitive
      <4>3. Shape(res) /\ new = FALSE
        BY <2>1, <2>3, <3>4 DEF Made, new
      <4> HIDE DEF t
      <4> QED
        BY <1>5, <1>7, <1>10, <2>1, <4>2, <4>3, MadeResult
    <3> QED
      BY <3>1, <3>3, <3>4
  \* An integer is not of what new() returned.
  <2>4. ASSUME NEW i \in {l, r}, Type_is_integer(i.scope)
        PROVE  ~i.new /\ ~Type_is_pointer(i.type)
    <3>1. i.type \in AllTypes /\ i.scope \in AllTypes /\ i.new \in BOOLEAN /\ Sound(i)
      BY <1>2, <1>5, <1>10
    <3>2. i.scope.name # "void" /\ ~Type_is_pointer(i.scope) /\ i.scope # NoType
      BY <2>4, <3>1, IntegerIs, NoTypeIsNone
    <3>3. ~i.new
      BY <3>1, <3>2 DEF Sound
    <3>4. Type_eq(i.scope, i.type)
      BY <3>1, <3>2, <3>3 DEF Sound
    <3> QED
      BY <3>1, <3>2, <3>3, <3>4, EqPointers
  <2>5. CASE Type_is_pointer(l.scope) /\ Type_is_integer(r.scope) /\ scope = l.scope
    <3>1. ~r.new
      BY <2>4, <2>5
    <3>2. Type_is_pointer(l.type)
      <4>1. CASE l.new
        <5>1. l.scope.name = "void" /\ l.scope.stars <= l.type.stars
          BY <1>10, <2>5, <4>1 DEF Sound
        <5>2. l.scope.stars > 0
          BY <1>5, <1>10, <2>5, <5>1, VoidIs
        <5>3. l.type.stars > 0
          BY <1>2, <1>5, <1>10, <5>1, <5>2, TypesAssumption DEF AllTypes, TypesAssumption
        <5> QED
          BY <1>2, <5>3, BaseType, PointerIs
      <4>2. CASE ~l.new
        <5>1. Type_eq(l.scope, l.type)
          BY <1>10, <2>5, <4>2 DEF Sound
        <5> QED
          BY <1>2, <1>5, <1>10, <2>5, <5>1, EqPointers
      <4> QED
        BY <1>2, <4>1, <4>2
    <3>3. ptr = l
      BY <2>2, <3>2
    <3>4. new => l.new
      BY <3>1 DEF new
    <3> QED
      BY <2>3, <2>5, <3>3, <3>4
  <2>6. CASE Type_is_integer(l.scope) /\ Type_is_pointer(r.scope) /\ scope = r.scope
    <3>1. ~l.new /\ ~Type_is_pointer(l.type)
      BY <2>4, <2>6
    <3>2. ptr = r
      BY <2>2, <3>1
    <3>3. new => r.new
      BY <3>1 DEF new
    <3> QED
      BY <2>3, <2>6, <3>2, <3>3
  \* Two integers have no address.
  <2>7. CASE Type_eq(l.scope, r.scope) /\ Type_is_integer(l.scope)
    <3>1. Type_is_integer(r.scope)
      BY <1>5, <1>10, <2>7, IntegerIs
    <3>2. ~Type_is_pointer(l.type) /\ ~Type_is_pointer(r.type)
      BY <2>4, <2>7, <3>1
    <3>3. res = Ends("assertion")
      BY <1>2, <1>6, <1>10, <2>2, <3>2 DEF addrOffset
    <3> QED
      BY <3>3, EndsMade DEF Hows
  <2> QED
    BY <1>5, <1>10, <2>5, <2>6, <2>7
<1> QED
  BY <1>8, <1>9, <1>10

\* Of one operand.
LEMMA UnopTypes ==
  ASSUME TypesInv, NEW op, NEW l \in AllTypes \cup {NoType},
         l # NoType /\ op = "TAKE_ADDRESS" => l.stars < MaxStars,
         scope_get_Type_from_uop(op, l) # NoType
  PROVE  LET s == scope_get_Type_from_uop(op, l)
         IN /\ s \in AllTypes /\ l \in AllTypes
            /\ op = "TAKE_ADDRESS" => s = Type_get_ptr_type(l)
            /\ op = "PTR_DEREFERENCE" => Type_is_pointer(l) /\ s = Type_get_pointee_type(l)
<1> DEFINE s == scope_get_Type_from_uop(op, l)
<1> USE DEF TypesInv
<1>1. l # NoType /\ l \in AllTypes
  BY DEF scope_get_Type_from_uop
<1>2. CASE op = "NOT"
  <2>1. s = Type(names["bool"])
    BY <1>1, <1>2 DEF scope_get_Type_from_uop, scope_get_Type_from_name
  <2>2. names["bool"] \in DOMAIN types /\ 0 \in 0..MaxStars
    BY TypesAssumption DEF Scope, Builtins, TypesAssumption
  <2>3. s \in AllTypes
    BY <2>1, <2>2 DEF Type, AllTypes
  <2> QED
    BY <1>1, <1>2, <2>3
<1>3. CASE op # "NOT"
  <2>1. s = determine_result_type_uop(op, l)
    BY <1>1, <1>3 DEF scope_get_Type_from_uop
  <2>2. \/ op = "MINUS" /\ s = l
        \/ op = "TAKE_ADDRESS" /\ s = Type_get_ptr_type(l)
        \/ op = "PTR_DEREFERENCE" /\ Type_is_pointer(l) /\ s = Type_get_pointee_type(l)
    BY <2>1 DEF determine_result_type_uop
  <2>3. op = "TAKE_ADDRESS" => Type_get_ptr_type(l) \in AllTypes
    BY <1>1, PtrTypeIs
  <2>4. Type_is_pointer(l) => Type_get_pointee_type(l) \in AllTypes
    BY <1>1, PointeeIs
  <2> HIDE DEF s
  <2>5. /\ s \in AllTypes /\ l \in AllTypes
        /\ op = "TAKE_ADDRESS" => s = Type_get_ptr_type(l)
        /\ op = "PTR_DEREFERENCE" => Type_is_pointer(l) /\ s = Type_get_pointee_type(l)
    BY <1>1, <2>2, <2>3, <2>4
  <2> QED
    BY <2>5 DEF s
<1> QED
  BY <1>2, <1>3

LEMMA UnaryResult ==
  ASSUME TypesInv, NEW op \in UnaryOps, NEW l, NEW c, Sound(l),
         op = "TAKE_ADDRESS" => l.type.stars < MaxStars /\ l.scope.stars < MaxStars
  PROVE  Result(codegenUnaryOperator(op, l, c))
<1> DEFINE scope == scope_get_Type_from_uop(op, l.scope)
           res == CASE scope = NoType -> Ends("refused")
                    [] scope # NoType /\ op = "MINUS" -> intNegate(l, scope)
                    [] scope # NoType /\ op = "NOT" -> booleanNot(l, scope)
                    [] scope # NoType /\ op = "TAKE_ADDRESS" -> getAddressOfValue(l)
                    [] scope # NoType /\ op = "PTR_DEREFERENCE" -> getValueAtAddress(l, c)
           new == l.new /\ op \in {"TAKE_ADDRESS", "PTR_DEREFERENCE"}
           f == [res EXCEPT !.scope = scope, !.new = new]
<1> USE DEF TypesInv
<1>1. codegenUnaryOperator(op, l, c) = f
  BY DEF codegenUnaryOperator
<1>2. l.type \in AllTypes /\ l.scope \in AllTypes \cup {NoType} /\ l.new \in BOOLEAN
  BY DEF Sound
<1>3. scope # NoType =>
        /\ scope \in AllTypes /\ l.scope \in AllTypes
        /\ op = "TAKE_ADDRESS" => scope = Type_get_ptr_type(l.scope)
        /\ op = "PTR_DEREFERENCE" =>
             Type_is_pointer(l.scope) /\ scope = Type_get_pointee_type(l.scope)
  BY <1>2, UnopTypes
<1>4. /\ scope = NoType => res = Ends("refused")
      /\ scope # NoType /\ op = "MINUS" => res = intNegate(l, scope)
      /\ scope # NoType /\ op = "NOT" => res = booleanNot(l, scope)
      /\ scope # NoType /\ op = "TAKE_ADDRESS" => res = getAddressOfValue(l)
      /\ scope # NoType /\ op = "PTR_DEREFERENCE" => res = getValueAtAddress(l, c)
  OBVIOUS
<1> HIDE DEF scope, res, new
<1>5. Shape(res) => /\ f.how = res.how /\ f.scope = scope /\ f.type = res.type /\ f.cg = res.cg
                    /\ f.new = new
  BY Except
<1> HIDE DEF f
<1>6. CASE scope = NoType
  <2>1. Shape(res) /\ res.how = "refused"
    BY <1>4, <1>6, EndsMade DEF Hows
  <2>2. Result(f)
    BY <1>5, <2>1, Stopped DEF Hows
  <2> QED
    BY <1>1, <2>2
<1>7. CASE scope # NoType /\ op \in {"MINUS", "NOT"}
  <2>1. Made(res, scope)
    BY <1>3, <1>4, <1>7, intNegateMade, booleanNotMade
  <2>2. new = FALSE
    BY <1>7 DEF new
  <2>3. Type_eq(scope, scope)
    BY <1>3, <1>7, EqReflexive
  <2>4. Shape(res)
    BY <2>1 DEF Made
  <2>5. Result(f)
    BY <1>3, <1>5, <1>7, <2>1, <2>2, <2>3, <2>4, MadeResult
  <2> QED
    BY <1>1, <2>5
<1>8. CASE scope # NoType /\ op = "TAKE_ADDRESS"
  <2> DEFINE t == Type_get_ptr_type(l.type)
  <2>1. Made(res, t)
    BY <1>2, <1>4, <1>8, getAddressOfValueMade
  <2>2. t \in AllTypes /\ t = [name |-> l.type.name, stars |-> l.type.stars + 1]
    BY <1>2, <1>8, PtrTypeIs DEF Type_get_ptr_type, AllTypes
  <2>3. scope = [name |-> l.scope.name, stars |-> l.scope.stars + 1]
    BY <1>3, <1>8 DEF Type_get_ptr_type, AllTypes
  <2>4. Shape(res) /\ new = l.new
    BY <1>2, <1>8, <2>1 DEF Made, new
  <2>5. CASE l.new
    <3>1. l.scope.name = "void" /\ l.scope.stars <= l.type.stars
      BY <1>3, <1>8, <2>5, NoTypeIsNone DEF Sound
    <3>2. l.scope.stars \in Nat /\ l.type.stars \in Nat
      BY <1>2, <1>3, <1>8, TypesAssumption DEF AllTypes, TypesAssumption
    <3> HIDE DEF t
    <3>3. scope.name = "void" /\ scope.stars <= t.stars
      BY <2>2, <2>3, <3>1, <3>2
    <3>4. res.how = "ok" => Result(f)
      BY <1>3, <1>5, <1>8, <2>1, <2>2, <2>4, <2>5, <3>3, MadeSound
    <3>5. res.how # "ok" => Result(f)
      BY <1>5, <2>1, <2>4, Stopped DEF Made
    <3> QED
      BY <1>1, <3>4, <3>5
  <2>6. CASE ~l.new
    <3>1. Type_eq(l.scope, l.type)
      BY <1>3, <1>8, <2>6, NoTypeIsNone DEF Sound
    <3>2. Type_eq(scope, t)
      BY <1>2, <1>3, <1>8, <3>1, EqOfPointers
    <3> HIDE DEF t
    <3>3. Result(f)
      BY <1>2, <1>3, <1>5, <1>8, <2>1, <2>4, <2>6, <3>2, MadeResult
    <3> QED
      BY <1>1, <3>3
  <2> QED
    BY <2>5, <2>6
<1>9. CASE scope # NoType /\ op = "PTR_DEREFERENCE"
  <2> DEFINE t == Type_get_pointee_type(l.type)
  <2>1. new = l.new
    BY <1>2, <1>9 DEF new
  <2>2. l.new => /\ l.scope.name = "void" /\ l.scope.stars > 0 /\ l.type.stars >= l.scope.stars
                 /\ scope = [name |-> "void", stars |-> l.scope.stars - 1]
    <3>1. SUFFICES ASSUME l.new
                   PROVE  /\ l.scope.name = "void" /\ l.scope.stars > 0
                          /\ l.type.stars >= l.scope.stars
                          /\ scope = [name |-> "void", stars |-> l.scope.stars - 1]
      OBVIOUS
    <3>2. l.scope.name = "void" /\ l.scope.stars <= l.type.stars
      BY <1>3, <1>9, <3>1, NoTypeIsNone DEF Sound
    <3>3. l.scope.stars > 0 /\ scope = [name |-> "void", stars |-> l.scope.stars - 1]
      BY <1>3, <1>9, <3>2, VoidIs
    <3>4. l.scope.stars \in Nat /\ l.type.stars \in Nat
      BY <1>2, <1>3, <1>9, TypesAssumption DEF AllTypes, TypesAssumption
    <3> QED
      BY <3>2, <3>3, <3>4
  <2>3. ~l.new => Type_eq(l.scope, l.type)
    BY <1>3, <1>9, NoTypeIsNone DEF Sound
  <2>4. l.scope.stars \in Nat /\ l.type.stars \in Nat
    BY <1>2, <1>3, <1>9, TypesAssumption DEF AllTypes, TypesAssumption
  <2>5. Type_is_pointer(l.type)
    <3>1. CASE l.new
      <4>1. l.type.stars > 0
        BY <2>2, <2>4, <3>1
      <4> QED
        BY <1>2, <4>1, BaseType, PointerIs
    <3>2. CASE ~l.new
      BY <1>2, <1>3, <1>9, <2>3, <3>2, EqPointers
    <3> QED
      BY <3>1, <3>2
  <2>6. Made(res, t) /\ t \in AllTypes
    BY <1>2, <1>4, <1>9, <2>5, getValueAtAddressMade, PointeeIs
  <2>7. Shape(res)
    BY <2>6 DEF Made
  <2>8. CASE l.new
    <3>1. Type_get_base_type(l.type) = l.type
      BY <1>2, <2>2, <2>4, <2>8, BaseType
    <3>2. t = [name |-> l.type.name, stars |-> l.type.stars - 1]
      BY <1>2, <2>5, <3>1, PointeeIs
    <3> HIDE DEF t
    <3>3. scope.name = "void" /\ scope.stars <= t.stars
      BY <2>2, <2>4, <2>8, <3>2
    <3>4. res.how = "ok" => Result(f)
      BY <1>3, <1>5, <1>9, <2>1, <2>6, <2>7, <2>8, <3>3, MadeSound
    <3>5. res.how # "ok" => Result(f)
      BY <1>5, <2>6, <2>7, Stopped DEF Made
    <3> QED
      BY <1>1, <3>4, <3>5
  <2>9. CASE ~l.new
    <3>1. Type_eq(scope, t)
      BY <1>2, <1>3, <1>9, <2>3, <2>9, EqUnfolds, PointerIs
    <3> HIDE DEF t
    <3>2. Result(f)
      BY <1>2, <1>3, <1>5, <1>9, <2>1, <2>6, <2>7, <2>9, <3>1, MadeResult
    <3> QED
      BY <1>1, <3>2
  <2> QED
    BY <2>8, <2>9
<1> QED
  BY <1>6, <1>7, <1>8, <1>9 DEF UnaryOps

LEMMA CastResult ==
  ASSUME TypesInv, NEW l, NEW t \in AllTypes, Sound(l)
  PROVE  Result(codegenCast(l, t))
<1> DEFINE scope == scope_get_Type_from_binop("CAST", l.scope, t)
           res == CASE scope = NoType -> Ends("refused")
                    [] OTHER -> cast(l, t)
           f == [res EXCEPT !.scope = scope, !.const = l.const]
<1> USE DEF TypesInv
<1>1. codegenCast(l, t) = f
  BY DEF codegenCast
<1>2. scope # NoType => scope = t
  <2>1. l.scope \in AllTypes \cup {NoType}
    BY DEF Sound
  <2> QED
    BY <2>1, BinopTypes
<1>3. /\ scope = NoType => res = Ends("refused")
      /\ scope # NoType => res = cast(l, t)
  OBVIOUS
<1> HIDE DEF scope, res
<1>4. Shape(res) => f.how = res.how /\ f.scope = scope /\ f.type = res.type /\ f.cg = res.cg /\ f.new = res.new
  BY Except
<1> HIDE DEF f
<1>5. CASE scope = NoType
  <2>1. Shape(res) /\ res.how = "refused"
    BY <1>3, <1>5, EndsMade DEF Hows
  <2>2. Result(f)
    BY <1>4, <2>1, Stopped DEF Hows
  <2> QED
    BY <1>1, <2>2
<1>6. CASE scope # NoType
  <2>1. Made(res, t)
    BY <1>3, <1>6, castMade
  <2>2. Type_eq(t, t)
    BY EqReflexive
  <2>3. Shape(res)
    BY <2>1 DEF Made
  <2>4. CASE res.how = "ok"
    <3>1. f.new = FALSE
      BY <1>4, <2>1, <2>3, <2>4 DEF Made
    <3>2. Result(f)
      BY <1>2, <1>4, <1>6, <2>1, <2>2, <2>3, <3>1, MadeResult
    <3> QED
      BY <1>1, <3>2
  <2>5. CASE res.how # "ok"
    <3>1. Result(f)
      BY <1>4, <2>1, <2>3, <2>5, Stopped DEF Made
    <3> QED
      BY <1>1, <3>1
  <2> QED
    BY <2>4, <2>5
<1> QED
  BY <1>5, <1>6

\* A struct is its own base.
LEMMA StructIs ==
  ASSUME Table, WellFounded, NEW t \in AllTypes, Type_is_typedef(t)
  PROVE  Type_get_base_type(t) = t /\ ~Type_is_pointer(t)
<1>1. t.name \in DOMAIN types /\ t = [name |-> t.name, stars |-> t.stars] /\ t.stars \in Nat
  BY TypesAssumption DEF AllTypes, TypesAssumption
<1>2. t.stars = 0 /\ types[t.name].kind = "typedef"
  BY <1>1 DEF Type_is_typedef, KindOf
<1>3. Type_get_base_type(t) = BaseOf[t.name]
  BY <1>2 DEF Type_get_base_type
<1>4. BaseOf[t.name] = Type(t.name)
  BY <1>1, <1>2, BaseIs
<1>5. Type_get_base_type(t) = t
  BY <1>1, <1>2, <1>3, <1>4 DEF Type
<1> QED
  BY <1>2, <1>5, PointerIs

\* The scope finds the field where the generator does.
LEMMA FieldResult ==
  ASSUME TypesInv, NEW l, NEW field, NEW c, Sound(l)
  PROVE  Result([codegen_FieldAccess(l, field, c) EXCEPT
                   !.scope = scope_get_Type_from_FieldAccess(l.scope, field)])
<1> DEFINE scope == scope_get_Type_from_FieldAccess(l.scope, field)
           res == codegen_FieldAccess(l, field, c)
           f == [res EXCEPT !.scope = scope]
           base == Type_get_base_type(l.type)
           object == IF Type_is_pointer(base) THEN Type_get_pointee_type(base) ELSE base
           t == Type_get_TypeField(object, field).type
           asked == IF Type_is_pointer(l.scope) THEN Type_get_pointee_type(l.scope) ELSE l.scope
<1> USE DEF TypesInv
<1>1. l.type \in AllTypes /\ l.scope \in AllTypes \cup {NoType} /\ l.new \in BOOLEAN
  BY DEF Sound
<1>2. /\ res.how # "ok" => res.how \in Hows
      /\ Shape(res)
      /\ res.how = "ok" => /\ Type_is_typedef(object) /\ FieldPlaces(object, field) # {}
                           /\ Made(res, t)
  BY <1>1, codegen_FieldAccessMade
<1>3. f.how = res.how /\ f.scope = scope /\ f.type = res.type /\ f.cg = res.cg /\ f.new = res.new
  <2> HIDE DEF scope, res
  <2> QED
    BY <1>2, Except
<1>4. /\ l.scope = NoType => scope = NoType
      /\ l.scope # NoType /\ ~Type_is_typedef(asked) => scope = NoType
      /\ l.scope # NoType /\ Type_is_typedef(asked) /\ FieldPlaces(asked, field) # {} =>
           scope = Type_get_TypeField(asked, field).type
  BY DEF scope_get_Type_from_FieldAccess
<1>5. object \in AllTypes /\ object = IF Type_is_pointer(l.type) THEN Type_get_pointee_type(l.type) ELSE base
  <2>1. base \in AllTypes /\ Type_get_base_type(base) = base /\ (Type_is_pointer(base) <=> Type_is_pointer(l.type))
    BY <1>1, BaseType, PointerIs
  <2>2. Type_is_pointer(l.type) => Type_get_pointee_type(base) = Type_get_pointee_type(l.type)
    BY <1>1, PointeeIs
  <2>3. Type_is_pointer(l.type) => Type_get_pointee_type(l.type) \in AllTypes
    BY <1>1, PointeeIs
  <2> QED
    BY <2>1, <2>2, <2>3
<1>6. CASE res.how # "ok"
  BY <1>2, <1>3, <1>6, Stopped
<1>7. CASE res.how = "ok"
  <2>1. /\ Type_is_typedef(object) /\ FieldPlaces(object, field) # {} /\ Made(res, t)
        /\ t \in AllTypes /\ res.new = FALSE
    BY <1>2, <1>7 DEF Made
  <2>2. CASE scope = NoType
    <3>1. Result(f)
      <4> HIDE DEF f, scope, res, t
      <4> QED
        BY <1>3, <1>7, <2>1, <2>2, NoTypeIsNone, MadeSound
    <3> QED
      BY <3>1
  <2>3. CASE scope # NoType
    <3>1. l.scope # NoType /\ l.scope \in AllTypes /\ Type_is_typedef(asked)
      BY <1>1, <1>4, <2>3
    <3>2. asked \in AllTypes
      BY <3>1, PointeeIs
    <3>3. Type_get_base_type(asked) = asked /\ ~Type_is_pointer(asked)
      <4> HIDE DEF asked
      <4> QED
        BY <3>1, <3>2, StructIs
    <3>4. ~l.new
      <4>1. SUFFICES ASSUME l.new PROVE FALSE
        BY <1>1
      <4>2. l.scope.name = "void"
        BY <3>1, <4>1 DEF Sound
      <4>3. asked.name = "void" /\ asked \in AllTypes
        BY <3>1, <3>2, <4>2, VoidIs
      <4>4. KindOf(asked) \in {"pointer", "builtin"}
        <5> HIDE DEF asked
        <5> QED
          BY <4>3, VoidIs
      <4> QED
        BY <3>1, <4>4 DEF Type_is_typedef
    <3>5. Type_eq(l.scope, l.type)
      BY <3>1, <3>4 DEF Sound
    <3>6. asked = object
      <4>1. Type_get_base_type(object) = object /\ ~Type_is_pointer(object)
        <5> HIDE DEF object
        <5> QED
          BY <1>5, <2>1, StructIs
      <4>2. CASE Type_is_pointer(l.scope)
        <5>1. Type_is_pointer(l.type) /\ Type_eq(asked, object)
          BY <1>1, <1>5, <3>1, <3>5, <4>2, EqUnfolds
        <5>2. Type_get_base_type(asked) = Type_get_base_type(object)
          <6> HIDE DEF asked, object
          <6> QED
            BY <1>5, <3>2, <3>3, <5>1, EqUnfolds
        <5> QED
          BY <3>3, <4>1, <5>2
      <4>3. CASE ~Type_is_pointer(l.scope)
        <5>1. ~Type_is_pointer(l.type) /\ Type_get_base_type(l.scope) = base
          BY <1>1, <3>1, <3>5, <4>3, EqUnfolds
        <5>2. asked = l.scope /\ object = base
          BY <1>5, <4>3, <5>1
        <5> QED
          BY <3>3, <5>1, <5>2
      <4> QED
        BY <4>2, <4>3
    <3>7. scope = t
      BY <1>4, <2>1, <3>1, <3>6
    <3>8. Type_eq(t, t)
      <4> HIDE DEF t
      <4> QED
        BY <2>1, EqReflexive
    <3>9. Result(f)
      <4> HIDE DEF f, scope, res, t
      <4> QED
        BY <1>3, <2>1, <3>7, <3>8, MadeResult
    <3> QED
      BY <3>9
  <2> QED
    BY <2>2, <2>3
<1> QED
  BY <1>6, <1>7
-----------------------------------------------------------------------------
\* Expressions of one node.
LEMMA NamedTypes ==
  ASSUME TypesInv
  PROVE  /\ \A n \in DOMAIN names : Type(names[n]) \in AllTypes
         /\ \A n \in DOMAIN types : Type(n) \in AllTypes
         /\ \A b \in Builtins : Type(b) \in AllTypes
         /\ Type("void").name = "void" /\ Type("void").stars = 0
         /\ Type_get_ptr_type(Type("void")) = [name |-> "void", stars |-> 1]
         /\ Type_get_ptr_type(Type("void")) \in AllTypes
         /\ "int" \in DOMAIN names /\ "string" \in DOMAIN names
<1>1. 0 \in 0..MaxStars /\ 1 \in 0..MaxStars
  BY TypesAssumption DEF TypesAssumption
<1>2. \A n \in DOMAIN types : Type(n) \in AllTypes
  BY <1>1 DEF AllTypes, Type
<1>3. \A n \in DOMAIN names : names[n] \in DOMAIN types
  BY DEF TypesInv, Scope
<1>4. \A b \in Builtins : b \in DOMAIN types
  BY DEF TypesInv, Table
<1>5. Type("void").name = "void" /\ Type("void").stars = 0
  BY DEF Type
<1>6. Type_get_ptr_type(Type("void")) = [name |-> "void", stars |-> 1]
  BY DEF Type_get_ptr_type, Type
<1>7. "void" \in DOMAIN types
  BY <1>4 DEF Builtins
<1>8. Type_get_ptr_type(Type("void")) \in AllTypes
  BY <1>1, <1>6, <1>7 DEF AllTypes
<1>9. "int" \in DOMAIN names /\ "string" \in DOMAIN names
  BY DEF TypesInv, Scope
<1> QED
  BY <1>2, <1>3, <1>4, <1>5, <1>6, <1>8, <1>9

LEMMA ConstantResult ==
  ASSUME TypesInv, NEW t \in AllTypes, NEW v, NEW w
  PROVE  Result([allocate_stack_for_temp(t, v, w) EXCEPT !.scope = t, !.const = TRUE])
<1> DEFINE res == allocate_stack_for_temp(t, v, w)
           f == [res EXCEPT !.scope = t, !.const = TRUE]
<1> USE DEF TypesInv
<1>1. Made(res, t)
  BY AllocateMade
<1>2. Shape(res)
  BY <1>1 DEF Made
<1> HIDE DEF res
<1>3. f.how = res.how /\ f.scope = t /\ f.type = res.type /\ f.cg = res.cg /\ f.new = res.new
  BY <1>2, Except
<1>4. Type_eq(t, t)
  BY EqReflexive
<1> HIDE DEF f
<1>5. CASE res.how = "ok"
  <2>1. f.new = FALSE
    BY <1>1, <1>3, <1>5 DEF Made
  <2>2. Result(f)
    BY <1>1, <1>3, <1>4, <2>1, MadeResult
  <2> QED
    BY <2>2 DEF f, res
<1>6. CASE res.how # "ok"
  <2>1. Result(f)
    BY <1>1, <1>3, <1>6, Stopped DEF Made
  <2> QED
    BY <2>1 DEF f, res
<1> QED
  BY <1>5, <1>6

LEMMA TypedResult ==
  ASSUME TypesInv, NEW t \in AllTypes, NEW v, NEW w, NEW f,
         LET res == allocate_stack_for_temp(t, v, w)
         IN \/ f = [res EXCEPT !.scope = t, !.type = t]
            \/ f = [res EXCEPT !.scope = t, !.type = t, !.const = TRUE]
  PROVE  Result(f)
<1> DEFINE res == allocate_stack_for_temp(t, v, w)
<1> USE DEF TypesInv
<1>1. Made(res, t)
  BY AllocateMade
<1>2. Shape(res)
  BY <1>1 DEF Made
<1>3. \/ f = [res EXCEPT !.scope = t, !.type = t]
      \/ f = [res EXCEPT !.scope = t, !.type = t, !.const = TRUE]
  OBVIOUS
<1> HIDE DEF res
<1>4. f.how = res.how /\ f.scope = t /\ f.type = t /\ f.cg = res.cg /\ f.new = res.new
  <2>1. CASE f = [res EXCEPT !.scope = t, !.type = t]
    BY <1>2, <2>1 DEF Shape
  <2>2. CASE f = [res EXCEPT !.scope = t, !.type = t, !.const = TRUE]
    BY <1>2, <2>2 DEF Shape
  <2> QED
    BY <1>3, <2>1, <2>2
<1>5. Type_eq(t, t)
  BY EqReflexive
<1>6. CASE res.how = "ok"
  <2>1. f.new = FALSE /\ f.type = res.type
    BY <1>1, <1>4, <1>6 DEF Made
  <2> QED
    BY <1>1, <1>4, <1>5, <2>1, MadeResult
<1>7. CASE res.how # "ok"
  BY <1>1, <1>4, <1>7, Stopped DEF Made
<1> QED
  BY <1>6, <1>7

LEMMA VariableResult == ASSUME TypesInv, NEW t \in AllTypes, NEW c PROVE Result(Variable(t, c))
BY TypedResult DEF Variable

LEMMA ConstantsResult == ASSUME TypesInv, NEW a \in Constants PROVE Result(a)
<1>1. CASE \E w \in {Width[b] : b \in Literals} : \E n \in Samples[w] : a = Number(w, n)
  <2>1. PICK b \in Literals : \E n \in Samples[Width[b]] : a = Number(Width[b], n)
    BY <1>1
  <2> PICK n \in Samples[Width[b]] : a = Number(Width[b], n)
    BY <2>1
  <2>2. b \in Builtins
    BY DEF Literals, Builtins
  <2> DEFINE d == CHOOSE k \in Builtins : Width[k] = Width[b]
             t == Type_int_type(Width[b])
  <2>3. d \in Builtins /\ t = Type(d)
    BY <2>2 DEF Type_int_type
  <2>4. t \in AllTypes
    BY <2>3, NamedTypes
  <2> DEFINE v == Plain(n)
             w == Meaning(t, Plain(n))
  <2>5. a = [allocate_stack_for_temp(t, v, w) EXCEPT !.scope = t, !.const = TRUE]
    BY DEF Number
  <2> HIDE DEF t, d, v, w
  <2>6. Result([allocate_stack_for_temp(t, v, w) EXCEPT !.scope = t, !.const = TRUE])
    BY <2>4, ConstantResult
  <2> QED
    BY <2>5, <2>6
<1>2. CASE a = Null
  <2> DEFINE t == Type_get_ptr_type(Type("void"))
  <2>1. t \in AllTypes
    BY NamedTypes
  <2>2. a = [allocate_stack_for_temp(t, Plain(0), Plain(0)) EXCEPT !.scope = t, !.const = TRUE]
    BY <1>2 DEF Null
  <2> HIDE DEF t
  <2> QED
    BY <2>1, <2>2, ConstantResult
<1>3. CASE a = String
  <2> DEFINE t == Type(names["string"])
             char == Type(names["char"])
             base == Type_get_base_type(char)
             size == IF Type_is_typedef(base) THEN SizeOf[base.name] ELSE Type_get_size(char)
             made == get_llvm_type(t) = PointerType /\ size > 0
  <2>1. t \in AllTypes
    BY NamedTypes
  <2>2. CASE made
    <3>1. a = [allocate_stack_for_temp(t, Plain(1), Plain(1)) EXCEPT !.scope = t, !.type = t, !.const = TRUE]
      BY <1>3, <2>2 DEF String, scope_get_Type_from_name
    <3> HIDE DEF t
    <3> QED
      BY <2>1, <3>1, TypedResult
  <2>3. CASE ~made
    <3>1. a = [Ends("undefined") EXCEPT !.scope = t, !.type = t, !.const = TRUE]
      BY <1>3, <2>3 DEF String, scope_get_Type_from_name
    <3>2. a.how = "undefined" /\ a.how \in Hows \ {"ok"}
      <4>1. "undefined" \in Hows \ {"ok"}
        BY DEF Hows
      <4> HIDE DEF t
      <4> QED
        BY <3>1, <4>1, EndsMade, Except
    <3> QED
      BY <3>2, Stopped
  <2> QED
    BY <2>2, <2>3
<1> QED
  BY <1>1, <1>2, <1>3 DEF Constants

LEMMA VoidCallSound == ASSUME TypesInv PROVE VoidCall.how = "ok" /\ Sound(VoidCall)
<1> DEFINE t == Type("void")
<1> USE DEF TypesInv
<1>1. /\ VoidCall.how = "ok" /\ VoidCall.scope = t /\ VoidCall.type = t /\ VoidCall.new = FALSE
  BY DEF VoidCall, Expression, Outcome
<1>2. t \in AllTypes /\ t.name = "void"
  BY NamedTypes DEF Builtins
<1>3. Type_eq(t, t)
  <2> HIDE DEF t
  <2> QED
    BY <1>2, EqReflexive
<1>4. Type_is_void(t)
  <2>1. Type_get_base_type(t) = t
    <3> HIDE DEF t
    <3> QED
      BY <1>2, VoidIs
  <2> QED
    BY <2>1 DEF Type_is_void, IsBuiltin
<1> HIDE DEF t
<1> QED
  BY <1>1, <1>2, <1>3, <1>4 DEF Sound

\* What needs the size of a type that has one.
LEMMA NeedsResult ==
  ASSUME TypesInv, NEW t \in AllTypes, NEW e, Result(e)
  PROVE  Result(Needs(t, e))
<1> DEFINE kind == get_llvm_type(t).kind
<1>1. \/ kind \in Failures /\ Needs(t, e) = [Ends(kind) EXCEPT !.type = t]
      \/ Needs(t, e) = [Ends("undefined") EXCEPT !.type = t]
      \/ Needs(t, e) = e
  BY DEF Needs
<1>2. \A how \in Hows \ {"ok"} : [Ends(how) EXCEPT !.type = t].how = how
  BY EndsMade, Except
<1> HIDE DEF kind
<1>3. kind \in Failures => kind \in Hows \ {"ok"}
  BY DEF Failures, Hows
<1>4. "undefined" \in Hows \ {"ok"}
  BY DEF Hows
<1> QED
  BY <1>1, <1>2, <1>3, <1>4, Stopped

LEMMA SizeofResult == ASSUME TypesInv, NEW t \in AllTypes PROVE Result(Sizeof(t))
<1> DEFINE int == scope_get_Type_from_name("int")
           bytes == Bytes(get_llvm_type(t))
           res == allocate_stack_for_temp(int, Plain(bytes % TwoTo[Width["int64"]]), Wrapped(Type("int64"), bytes))
           size == [res EXCEPT !.scope = Type("int64")]
           stop == [Ends("undefined") EXCEPT !.type = t]
           e == IF get_llvm_type(int) = IntType(Width["int64"]) THEN size ELSE stop
<1> USE DEF TypesInv
<1>1. Sizeof(t) = Needs(t, e)
  BY DEF Sizeof
<1>2. Result(stop)
  <2>1. "undefined" \in Hows \ {"ok"}
    BY DEF Hows
  <2>2. stop.how = "undefined"
    BY <2>1, EndsMade, Except
  <2> HIDE DEF stop
  <2> QED
    BY <2>1, <2>2, Stopped
<1>3. ASSUME get_llvm_type(int) = IntType(Width["int64"])
      PROVE  Result(size)
  <2>1. int \in AllTypes /\ Type("int64") \in AllTypes
    BY NamedTypes DEF scope_get_Type_from_name, Builtins
  <2>2. Made(res, int)
    <3> HIDE DEF int
    <3> QED
      BY <2>1, AllocateMade
  <2>3. Shape(res)
    BY <2>2 DEF Made
  <2>4. Type_eq(Type("int64"), int)
    <3> HIDE DEF int
    <3>1. Type_get_base_type(int) = Type("int64")
      BY <1>3, <2>1, LLVMOfType
    <3>2. Type_eq(int, Type("int64"))
      BY <2>1, <3>1, EqOfBase
    <3> QED
      BY <2>1, <3>2, EqSymmetric
  <2> HIDE DEF int, res
  <2>5. /\ size.how = res.how /\ size.scope = Type("int64") /\ size.type = res.type
        /\ size.cg = res.cg /\ size.new = res.new
    BY <2>3, Except
  <2> HIDE DEF size
  <2>6. CASE res.how = "ok"
    <3>1. size.new = FALSE
      BY <2>2, <2>5, <2>6 DEF Made
    <3> QED
      BY <2>1, <2>2, <2>4, <2>5, <3>1, MadeResult
  <2>7. CASE res.how # "ok"
    BY <2>2, <2>5, <2>7, Stopped DEF Made
  <2> QED
    BY <2>6, <2>7
<1> HIDE DEF int, size, stop
<1>4. Result(e)
  BY <1>2, <1>3
<1> HIDE DEF e
<1> QED
  BY <1>1, <1>4, NeedsResult

LEMMA NewResult == ASSUME TypesInv, NEW t \in AllTypes, t.stars < MaxStars PROVE Result(New(t))
<1> DEFINE p == Type_get_ptr_type(t)
           void == Type_get_ptr_type(Type("void"))
           res == allocate_stack_for_temp(p, Plain(1), Plain(1))
           e == [res EXCEPT !.scope = void, !.new = TRUE]
<1> USE DEF TypesInv
<1>1. New(t) = Needs(t, e)
  BY DEF New
<1>2. p \in AllTypes /\ p.stars = t.stars + 1 /\ t.stars \in Nat
  BY PtrTypeIs, TypesAssumption DEF AllTypes, Type_get_ptr_type, TypesAssumption
<1>3. Made(res, p)
  <2> HIDE DEF p
  <2> QED
    BY <1>2, AllocateMade
<1>4. void = [name |-> "void", stars |-> 1] /\ void \in AllTypes
  BY NamedTypes
<1>5. Shape(res)
  BY <1>3 DEF Made
<1> HIDE DEF p, res, void
<1>6. e.how = res.how /\ e.scope = void /\ e.type = res.type /\ e.cg = res.cg /\ e.new = TRUE
  BY <1>5, Except
<1> HIDE DEF e
<1>7. void.name = "void" /\ void.stars <= p.stars
  BY <1>2, <1>4
<1>8. Result(e)
  <2>1. CASE res.how = "ok"
    BY <1>2, <1>3, <1>4, <1>6, <1>7, <2>1, MadeSound
  <2>2. CASE res.how # "ok"
    BY <1>3, <1>6, <2>2, Stopped DEF Made
  <2> QED
    BY <2>1, <2>2
<1> QED
  BY <1>1, <1>8, NeedsResult

LEMMA TypenamesAre ==
  ASSUME TypesInv, NEW t \in Typenames
  PROVE  t \in AllTypes /\ t.stars < MaxStars
<1>1. PICK m \in Mentioned : m.name \in DOMAIN names /\ t = scope_lookup_typename(m)
  BY DEF Typenames
<1>2. m \in [name : STRING, stars : 0..(MaxStars - 1)]
  BY ExpressionsAssumption DEF ExpressionsAssumption
<1>3. m = [name |-> m.name, stars |-> m.stars] /\ m.stars \in 0..(MaxStars - 1)
  BY <1>2
<1>4. t = [name |-> names[m.name], stars |-> m.stars]
  BY <1>1, <1>3 DEF scope_lookup_typename
<1>5. names[m.name] \in DOMAIN types
  BY <1>1 DEF TypesInv, Scope
<1>6. m.stars \in 0..MaxStars /\ m.stars < MaxStars
  BY <1>3, TypesAssumption DEF TypesAssumption
<1> QED
  BY <1>4, <1>5, <1>6 DEF AllTypes

LEMMA AtomResult == ASSUME TypesInv, NEW a \in Atoms PROVE Result(a)
<1>1. CASE a \in Constants
  BY <1>1, ConstantsResult
<1>2. CASE a = VoidCall
  BY <1>2, VoidCallSound DEF Result, Hows
<1>3. CASE a \in Variables(Typenames)
  <2>1. PICK t \in Typenames : \E c \in ContentsOf(t) : a = Variable(t, c)
    BY <1>3 DEF Variables
  <2> QED
    BY <2>1, TypenamesAre, VariableResult
<1>4. CASE \E t \in Typenames : a = Sizeof(t)
  BY <1>4, TypenamesAre, SizeofResult
<1>5. CASE \E t \in Typenames : a = New(t)
  BY <1>5, TypenamesAre, NewResult
<1> QED
  BY <1>1, <1>2, <1>3, <1>4, <1>5 DEF Atoms

LEMMA OperandSound == ASSUME TypesInv, NEW a \in Operands PROVE Sound(a)
<1>1. a.how = "ok"
  BY DEF Operands
<1>2. CASE a \in Constants
  BY <1>1, <1>2, ConstantsResult DEF Result
<1>3. CASE a \in Variables(Typenames \ {c.type : c \in Constants})
  <2>1. PICK t \in Typenames : \E c \in ContentsOf(t) : a = Variable(t, c)
    BY <1>3 DEF Variables
  <2> QED
    BY <1>1, <2>1, TypenamesAre, VariableResult DEF Result
<1> QED
  BY <1>2, <1>3 DEF Operands
-----------------------------------------------------------------------------
\* The inductive invariant: the table is well founded, and the expression there is, is sound.
IInv == TypesInv /\ (phase = "expression" => expr.how = "ok" /\ Sound(expr))

LEMMA InitIInv == InitExpressions => IInv
<1> SUFFICES ASSUME InitExpressions PROVE IInv
  OBVIOUS
<1>1. TypesInv /\ phase = "declare"
  BY InitTypes DEF InitExpressions, Init
<1> QED
  BY <1>1 DEF IInv

LEMMA BecomesIInv ==
  ASSUME TypesInv, NEW e, Result(e), NEW op, NEW lhs, NEW rhs, Becomes(e, op, lhs, rhs)
  PROVE  IInv'
<1>1. UNCHANGED <<program, types, names>>
  BY DEF Becomes
<1>2. TypesInv'
  BY <1>1, SameTable
<1>3. CASE e.how = "ok"
  <2>1. expr' = e
    BY <1>3 DEF Becomes
  <2>2. Sound(e)
    BY <1>3 DEF Result
  <2>3. Sound(e)'
    BY <1>1, <2>2, SameSound
  <2>4. Sound(expr)' 
    BY <2>1, <2>3 DEF Sound
  <2> QED
    BY <1>2, <1>3, <2>1, <2>4 DEF IInv
<1>4. CASE e.how # "ok"
  <2>1. phase' = e.how
    BY <1>4 DEF Becomes
  <2>2. phase' # "expression"
    BY <1>4, <2>1 DEF Result, Hows
  <2> QED
    BY <1>2, <2>2 DEF IInv
<1> QED
  BY <1>3, <1>4

LEMMA StoresIInv ==
  ASSUME TypesInv, expr.how = "ok", Sound(expr), NEW t, NEW inferred, Stores(t, inferred)
  PROVE  IInv'
<1> DEFINE cg == get_llvm_type(t)
<1>1. \/ cg.kind \in Failures /\ Becomes(Ends(cg.kind), "store", t, expr.type)
      \/ Becomes(expr, "store", t, expr.type)
      \/ phase' = "stored" /\ UNCHANGED <<program, types, names, last>>
  BY DEF Stores
<1> HIDE DEF cg
<1>2. CASE cg.kind \in Failures /\ Becomes(Ends(cg.kind), "store", t, expr.type)
  <2>1. cg.kind \in Hows \ {"ok"}
    BY <1>2 DEF Failures, Hows
  <2>2. Result(Ends(cg.kind))
    BY <2>1, EndsMade, Stopped
  <2> QED
    BY <1>2, <2>2, BecomesIInv
<1>3. CASE Becomes(expr, "store", t, expr.type)
  <2>1. Result(expr)
    BY DEF Result, Hows
  <2> QED
    BY <1>3, <2>1, BecomesIInv
<1>4. CASE phase' = "stored" /\ UNCHANGED <<program, types, names, last>>
  <2>1. TypesInv'
    BY <1>4, SameTable
  <2> QED
    BY <1>4, <2>1 DEF IInv
<1> QED
  BY <1>1, <1>2, <1>3, <1>4

LEMMA EndsResult == \A how \in Hows \ {"ok"} : Result(Ends(how))
BY EndsMade, Stopped

\* Every operation keeps the two types of the expression equal.
LEMMA Inductive == IInv /\ [Next]_vars => IInv'
<1> SUFFICES ASSUME IInv, [Next]_vars PROVE IInv'
  OBVIOUS
<1>1. TypesInv
  BY DEF IInv
<1>2. phase = "expression" => expr.how = "ok" /\ Sound(expr)
  BY DEF IInv
<1>3. "refused" \in Hows \ {"ok"} /\ "undefined" \in Hows \ {"ok"} /\ "dangling" \in Hows \ {"ok"}
  BY DEF Hows
<1>4. CASE Declare
  <2>1. build_ScopeSymbol_for_type /\ expr' = expr
    BY <1>4 DEF Declare
  <2>2. TypesInv'
    BY <1>1, <2>1, DeclareTypes
  <2>3. phase' # "expression"
    BY <2>1 DEF build_ScopeSymbol_for_type
  <2> QED
    BY <2>2, <2>3 DEF IInv
<1>5. CASE Atom
  <2>1. PICK a \in Atoms : Becomes(a, "atom", a.type, a.type)
    BY <1>5 DEF Atom
  <2>2. Result(a)
    BY <1>1, AtomResult
  <2> QED
    BY <1>1, <2>1, <2>2, BecomesIInv
<1>6. CASE Binary
  <2>1. PICK a \in Operands, op \in BinaryOps :
          \E pair \in {<<expr, a>>, <<a, expr>>} :
            /\ Defined(op, pair[1], pair[2])
            /\ Becomes(codegenBinaryOperator(op, pair[1], pair[2]), op, pair[1].type, pair[2].type)
    BY <1>6 DEF Binary
  <2>2. Sound(a) /\ Sound(expr)
    BY <1>1, <1>2, <1>6, OperandSound DEF Binary
  <2>3. CASE Becomes(codegenBinaryOperator(op, expr, a), op, expr.type, a.type)
    <3>1. Result(codegenBinaryOperator(op, expr, a))
      BY <1>1, <2>2, BinaryResult
    <3> QED
      BY <1>1, <2>3, <3>1, BecomesIInv
  <2>4. CASE Becomes(codegenBinaryOperator(op, a, expr), op, a.type, expr.type)
    <3>1. Result(codegenBinaryOperator(op, a, expr))
      BY <1>1, <2>2, BinaryResult
    <3> QED
      BY <1>1, <2>4, <3>1, BecomesIInv
  <2>5. \/ Becomes(codegenBinaryOperator(op, expr, a), op, expr.type, a.type)
        \/ Becomes(codegenBinaryOperator(op, a, expr), op, a.type, expr.type)
    BY <2>1
  <2> QED
    BY <2>3, <2>4, <2>5
<1>7. CASE Unary
  <2>1. PICK op \in UnaryOps :
          /\ op = "TAKE_ADDRESS" => expr.type.stars < MaxStars /\ expr.scope.stars < MaxStars
          /\ \E c : Becomes(codegenUnaryOperator(op, expr, c), op, expr.type, expr.type)
    BY <1>7 DEF Unary
  <2>2. PICK c : Becomes(codegenUnaryOperator(op, expr, c), op, expr.type, expr.type)
    BY <2>1
  <2>3. Sound(expr)
    BY <1>2, <1>7 DEF Unary
  <2>4. Result(codegenUnaryOperator(op, expr, c))
    BY <1>1, <2>1, <2>3, UnaryResult
  <2> QED
    BY <1>1, <2>2, <2>4, BecomesIInv
<1>8. CASE Cast
  <2>1. PICK t \in Typenames : Becomes(codegenCast(expr, t), "CAST", expr.type, t)
    BY <1>8 DEF Cast
  <2>2. Sound(expr) /\ t \in AllTypes
    BY <1>1, <1>2, <1>8, TypenamesAre DEF Cast
  <2>3. Result(codegenCast(expr, t))
    BY <1>1, <2>2, CastResult
  <2> QED
    BY <1>1, <2>1, <2>3, BecomesIInv
<1>9. CASE FieldAccess
  <2>1. PICK field \in Fields :
          \/ Becomes(Ends("dangling"), "field", expr.type, expr.type)
          \/ \E c : Becomes([codegen_FieldAccess(expr, field, c) EXCEPT
                               !.scope = scope_get_Type_from_FieldAccess(expr.scope, field)],
                            "field", expr.type, expr.type)
    BY <1>9 DEF FieldAccess
  <2>2. CASE Becomes(Ends("dangling"), "field", expr.type, expr.type)
    BY <1>1, <1>3, <2>2, EndsResult, BecomesIInv
  <2>3. ASSUME NEW c,
               Becomes([codegen_FieldAccess(expr, field, c) EXCEPT
                          !.scope = scope_get_Type_from_FieldAccess(expr.scope, field)],
                       "field", expr.type, expr.type)
        PROVE  IInv'
    <3>1. Sound(expr)
      BY <1>2, <1>9 DEF FieldAccess
    <3>2. Result([codegen_FieldAccess(expr, field, c) EXCEPT
                    !.scope = scope_get_Type_from_FieldAccess(expr.scope, field)])
      BY <1>1, <3>1, FieldResult
    <3> QED
      BY <1>1, <2>3, <3>2, BecomesIInv
  <2> QED
    BY <2>1, <2>2, <2>3
<1>10. CASE LetInferred
  <2>1. phase = "expression"
    BY <1>10 DEF LetInferred
  <2>2. \/ Becomes(Ends("refused"), "let", expr.type, expr.type)
        \/ Stores(expr.scope, TRUE)
    BY <1>10 DEF LetInferred
  <2>3. CASE Becomes(Ends("refused"), "let", expr.type, expr.type)
    BY <1>1, <1>3, <2>3, EndsResult, BecomesIInv
  <2>4. CASE Stores(expr.scope, TRUE)
    BY <1>1, <1>2, <2>1, <2>4, StoresIInv
  <2> QED
    BY <2>2, <2>3, <2>4
<1>11. CASE Store
  <2>1. PICK t \in Typenames : Stores(t, FALSE)
    BY <1>11 DEF Store
  <2>2. phase = "expression"
    BY <1>11 DEF Store
  <2> QED
    BY <1>1, <1>2, <2>1, <2>2, StoresIInv
<1>12. CASE Global
  <2>1. PICK t \in Typenames :
          \/ Becomes(Ends("refused"), "global", t, expr.type)
          \/ Becomes(Ends("undefined"), "global", t, expr.type)
          \/ Stores(t, FALSE)
    BY <1>12 DEF Global
  <2>2. phase = "expression"
    BY <1>12 DEF Global
  <2>3. CASE Becomes(Ends("refused"), "global", t, expr.type)
    BY <1>1, <1>3, <2>3, EndsResult, BecomesIInv
  <2>4. CASE Becomes(Ends("undefined"), "global", t, expr.type)
    BY <1>1, <1>3, <2>4, EndsResult, BecomesIInv
  <2>5. CASE Stores(t, FALSE)
    BY <1>1, <1>2, <2>2, <2>5, StoresIInv
  <2> QED
    BY <2>1, <2>3, <2>4, <2>5
<1>13. CASE UNCHANGED vars
  <2>1. UNCHANGED <<program, types, names, phase, expr>>
    BY <1>13 DEF vars
  <2>2. TypesInv'
    BY <1>1, <2>1, SameTable
  <2>3. Sound(expr) => Sound(expr)'
    <3>1. Sound(expr) => Sound(expr')
      BY <2>1
    <3>2. Sound(expr)' <=> Sound(expr')
      BY <2>1, SameTypes DEF Sound, NoType
    <3> QED
      BY <3>1, <3>2
  <2> QED
    BY <1>2, <2>1, <2>2, <2>3 DEF IInv
<1> QED
  BY <1>4, <1>5, <1>6, <1>7, <1>8, <1>9, <1>10, <1>11, <1>12, <1>13 DEF Next

\* The type the scope gives an expression, by which the compiler chooses the instructions,
\* and the one the generator goes by are equal, and the LLVM type is the generator's, whatever
\* types are declared (scope_get_Type_from_ast, codegenBinaryOperator); but for the result
\* of a new and for a field access the scope cannot type.
THEOREM Typings == Spec => []TypesAgree
<1>1. IInv => TypesAgree
  BY DEF IInv, Sound, TypesAgree
<1> QED
  BY <1>1, InitIInv, Inductive, PTL DEF Spec
-----------------------------------------------------------------------------
(* What operands of sensible types never lead to. *)

Stops == {"assertion", "unimplemented", "undefined"}
Circular == \E n \in DOMAIN types : \E i \in 1..Len(types[n].fields) : Within(n, i) = Type(n)
Excused(e, op, lhs, rhs) ==
  /\ e.how \in Stops => Shadowed(LookedUp) \/ ~Sensible(op, lhs, rhs)
  /\ e.how = "endless" => Circular

\* A type sends get_llvm_type round for ever only by a struct of itself.
LEMMA EndlessIs ==
  ASSUME Table, WellFounded, NEW t \in AllTypes, get_llvm_type(t).kind = "endless"
  PROVE  Circular
<1>1. PICK top \in Nat : \E rank \in [DOMAIN types -> 0..top] : Ordered(rank, top)
  BY DEF WellFounded
<1>2. PICK rank \in [DOMAIN types -> 0..top] : Ordered(rank, top)
  BY <1>1
<1> DEFINE G == {n \in DOMAIN types : LLVMOf[n].kind = "endless" => Circular}
<1>3. ASSUME NEW n \in DOMAIN types, \A k \in DOMAIN types : rank[k] < rank[n] => k \in G
      PROVE  n \in G
  <2> SUFFICES ASSUME LLVMOf[n].kind = "endless" PROVE Circular
    OBVIOUS
  <2>1. LLVMOf[n] = NameLLVM(LLVMOf, n)
    BY LLVMIs
  <2>2. types[n].kind # "builtin"
    <3>1. CASE n \in Builtins
      BY <3>1, KindLLVM, LLVMParts
    <3>2. CASE n \notin Builtins
      BY <3>2 DEF Table
    <3> QED
      BY <3>1, <3>2
  <2>3. types[n].kind # "opaque"
    <3>1. types[n].kind = "opaque" => LLVMOf[n] = Failure("refused")
      BY <2>1 DEF NameLLVM
    <3> QED
      BY <3>1, LLVMParts
  <2>4. LLVMOf[n] = StructLLVM(LLVMOf, n)
    BY <2>1, <2>2, <2>3 DEF NameLLVM
  <2> DEFINE places == 1..Len(types[n].fields)
             F == {i \in places : FieldLLVM(LLVMOf, n, i).kind \in Failures}
             first == CHOOSE i \in F : \A j \in F : i <= j
  <2>5. F # {}
    <3>1. F = {} => LLVMOf[n] \in {Failure("undefined"), LLVM("struct", 0, n)}
      BY <2>4 DEF StructLLVM
    <3> QED
      BY <3>1, LLVMParts
  <2>6. LLVMOf[n] = FieldLLVM(LLVMOf, n, first)
    BY <2>4, <2>5 DEF StructLLVM
  <2>7. first \in places
    <3>1. F \subseteq places /\ F \subseteq Nat
      OBVIOUS
    <3> HIDE DEF F, places
    <3>2. \E i \in F : \A j \in F : i <= j
      BY <2>5, <3>1, LeastNumber
    <3> QED
      BY <3>1, <3>2
  <2> HIDE DEF F, first
  <2> DEFINE b == Within(n, first)
  <2>8. b \in AllTypes /\ (b.stars = 0 /\ b.name # n => rank[b.name] < rank[n])
    BY <1>2, <2>7, FieldLower
  <2>9. b.stars = 0
    <3>1. b.stars > 0 => LLVMOf[n] = PointerType
      BY <2>6 DEF FieldLLVM
    <3>2. b.stars \in Nat
      BY <2>8, TypesAssumption DEF AllTypes, TypesAssumption
    <3> QED
      BY <3>1, <3>2, LLVMParts
  <2>10. CASE b.name = n
    <3>1. b = Type(n)
      BY <2>8, <2>9, <2>10 DEF AllTypes, Type
    <3> QED
      BY <2>7, <3>1 DEF Circular
  <2>11. CASE b.name # n
    <3>1. LLVMOf[n] = LLVMOf[b.name]
      BY <2>6, <2>9, <2>11 DEF FieldLLVM
    <3>2. b.name \in DOMAIN types /\ b.name \in G
      BY <1>3, <2>8, <2>9, <2>11 DEF AllTypes
    <3> QED
      BY <3>1, <3>2
  <2> QED
    BY <2>10, <2>11
<1>4. \A n \in DOMAIN types : rank[n] \in Nat
  BY <1>2 DEF Ordered
<1>5. DOMAIN types \subseteq G
  <2> HIDE DEF G
  <2> QED
    BY <1>3, <1>4, ByRank
<1> DEFINE b == Type_get_base_type(t)
<1>6. b \in AllTypes
  BY BaseType
<1>7. b.stars > 0 => get_llvm_type(t) = PointerType
  BY DEF get_llvm_type
<1>8. get_llvm_type(t) = LLVMOf[b.name] /\ b.name \in DOMAIN types
  BY <1>6, <1>7, LLVMParts DEF get_llvm_type, AllTypes
<1> QED
  BY <1>5, <1>8

\* A type has a size, or what asks for its LLVM type does not return or has none.
LEMMA SizedIs ==
  ASSUME Table, WellFounded, NEW t \in AllTypes
  PROVE  /\ Sized(t) <=> get_llvm_type(t).kind \notin Failures \cup {"void"}
         /\ Type_is_pointer(t) => Sized(t) /\ Scalar(t)
         /\ Type_is_integer(t) => Sized(t) /\ Scalar(t)
         /\ Sized(t) => ~Type_is_void(t)
<1> DEFINE g == get_llvm_type(t)
<1>1. /\ g.kind = "void" <=> Type_is_void(t)
      /\ g.kind = "ptr" <=> Type_is_pointer(t)
      /\ g.kind \in Failures \cup {"int", "ptr", "struct", "void"}
  BY LLVMOfType
<1>2. Type_is_integer(t) => g.kind = "int"
  <2> SUFFICES ASSUME Type_is_integer(t) PROVE g.kind = "int"
    OBVIOUS
  <2> DEFINE b == Type_get_base_type(t)
  <2>1. b \in {Type(name) : name \in {"int64", "int8", "char"}}
    BY DEF Type_is_integer, IsBuiltin
  <2>2. b.stars = 0 /\ b.name \in Builtins \ {"void"}
    BY <2>1 DEF Type, Builtins
  <2>3. b.name \in DOMAIN types
    BY <2>2 DEF Table
  <2>4. g = LLVMOf[b.name]
    BY <2>2 DEF get_llvm_type
  <2> QED
    BY <2>2, <2>3, <2>4, KindLLVM, LLVMParts
<1>3. /\ Sized(t) <=> g.kind \in {"int", "ptr", "struct"}
      /\ Scalar(t) <=> Sized(t) /\ g.kind # "struct"
  BY DEF Sized, Scalar
<1> HIDE DEF g
<1>4. /\ Sized(t) <=> g.kind \notin Failures \cup {"void"}
      /\ Type_is_pointer(t) => Sized(t) /\ Scalar(t)
      /\ Type_is_integer(t) => Sized(t) /\ Scalar(t)
      /\ Sized(t) => ~Type_is_void(t)
  BY <1>1, <1>2, <1>3 DEF Failures
<1> QED
  BY <1>4 DEF g

\* The fields of a struct that has a size have one.
LEMMA FieldsSized ==
  ASSUME Table, WellFounded, NEW n \in DOMAIN types, types[n].kind = "typedef",
         LLVMOf[n].kind \notin Failures, NEW i \in 1..Len(types[n].fields)
  PROVE  types[n].fields[i].type \in AllTypes /\ Sized(types[n].fields[i].type)
<1> DEFINE t == types[n].fields[i].type
           g == FieldLLVM(LLVMOf, n, i)
<1>1. t \in AllTypes
  <2>1. PICK top \in Nat : \E rank \in [DOMAIN types -> 0..top] : Ordered(rank, top)
    BY DEF WellFounded
  <2> QED
    BY <2>1, FieldLower
<1>2. LLVMOf[n] = StructLLVM(LLVMOf, n)
  <2>1. LLVMOf[n] = NameLLVM(LLVMOf, n)
    BY LLVMIs
  <2> QED
    BY <2>1 DEF NameLLVM
<1> DEFINE places == 1..Len(types[n].fields)
           F == {j \in places : FieldLLVM(LLVMOf, n, j).kind \in Failures}
           first == CHOOSE j \in F : \A k \in F : j <= k
<1>3. F = {}
  <2>1. SUFFICES ASSUME F # {} PROVE FALSE
    OBVIOUS
  <2>2. LLVMOf[n] = FieldLLVM(LLVMOf, n, first)
    BY <1>2, <2>1 DEF StructLLVM
  <2>3. first \in F
    <3>1. F \subseteq Nat
      OBVIOUS
    <3> HIDE DEF F
    <3>2. \E j \in F : \A k \in F : j <= k
      BY <2>1, <3>1, LeastNumber
    <3> QED
      BY <3>2
  <2> HIDE DEF first
  <2> QED
    BY <2>2, <2>3
<1>4. g.kind \notin Failures
  BY <1>3
<1>5. g.kind # "void"
  <2>1. (\E j \in places : FieldLLVM(LLVMOf, n, j).kind = "void") => LLVMOf[n] = Failure("undefined")
    BY <1>2, <1>3 DEF StructLLVM
  <2> QED
    BY <2>1, LLVMParts DEF Failures
<1>6. get_llvm_type(t) = g
  <2>1. g = IF Within(n, i).stars > 0 THEN PointerType
            ELSE IF Within(n, i).name = n THEN Failure("endless") ELSE LLVMOf[Within(n, i).name]
    BY DEF FieldLLVM
  <2>2. ~(Within(n, i).stars > 0) => Within(n, i).name # n
    BY <1>4, <2>1, LLVMParts DEF Failures
  <2> QED
    BY <2>1, <2>2 DEF get_llvm_type, Within
<1> HIDE DEF t, g
<1>7. Sized(t)
  BY <1>1, <1>4, <1>5, <1>6, SizedIs DEF Failures
<1> QED
  BY <1>1, <1>7 DEF t

\* How an expression ends that is not made.
LEMMA EndsExcused ==
  ASSUME NEW how \in Hows \ (Stops \cup {"endless"}), NEW e, e.how = how, NEW op, NEW lhs, NEW rhs
  PROVE  Excused(e, op, lhs, rhs)
BY DEF Excused, Stops, Hows

LEMMA StopExcused ==
  ASSUME NEW e, e.how \in Stops, NEW op, NEW lhs, NEW rhs,
         Shadowed(LookedUp) \/ ~Sensible(op, lhs, rhs)
  PROVE  Excused(e, op, lhs, rhs)
BY DEF Excused, Stops

\* Asking for the LLVM type of a type that has no size.
LEMMA FailureExcused ==
  ASSUME Table, WellFounded, NEW t \in AllTypes, NEW e,
         get_llvm_type(t).kind \in Failures => e.how = get_llvm_type(t).kind,
         get_llvm_type(t).kind \notin Failures => e.how \in {"ok", "refused", "undefined"},
         e.how = "undefined" => ~Sized(t),
         NEW op, NEW lhs, NEW rhs,
         Sensible(op, lhs, rhs) => Sized(t) \/ Shadowed(LookedUp)
  PROVE  Excused(e, op, lhs, rhs)
<1>1. e.how = "endless" => Circular
  BY EndlessIs DEF Failures
<1>2. e.how \in Stops => e.how = "undefined"
  BY DEF Failures, Stops
<1> QED
  BY <1>1, <1>2 DEF Excused

\* A slot for a value of the type.
LEMMA AllocateEnds ==
  ASSUME Table, WellFounded, NEW t \in AllTypes, NEW v, NEW w
  PROVE  LET res == allocate_stack_for_temp(t, v, w)   kind == get_llvm_type(t).kind IN
         /\ Shape(res)
         /\ kind \in Failures => res.how = kind
         /\ kind \notin Failures => res.how \in {"ok", "undefined"}
         /\ res.how = "undefined" => ~Sized(t)
         /\ Sized(t) => res.how = "ok" /\ res.type = t
<1> DEFINE cg == get_llvm_type(t)
           res == allocate_stack_for_temp(t, v, w)
<1>0. Sized(t) <=> cg.kind \notin Failures \cup {"void"}
  BY SizedIs
<1> HIDE DEF cg
<1>1. CASE cg.kind \in Failures
  <2>1. res = Ends(cg.kind)
    BY <1>1 DEF allocate_stack_for_temp, Failures, cg
  <2>2. cg.kind \in Hows \ {"ok"}
    BY <1>1 DEF Failures, Hows
  <2>3. Shape(res) /\ res.how = cg.kind
    BY <2>1, <2>2, EndsMade
  <2> HIDE DEF res
  <2> QED
    BY <1>0, <1>1, <2>3 DEF cg, res
<1>2. CASE cg.kind = "void"
  <2>1. res = Ends("undefined")
    BY <1>2 DEF allocate_stack_for_temp, Failures, cg
  <2>2. Shape(res) /\ res.how = "undefined"
    BY <2>1, EndsMade DEF Hows
  <2> HIDE DEF res
  <2> QED
    BY <1>0, <1>2, <2>2 DEF cg, res, Failures
<1>3. CASE cg.kind \notin Failures /\ cg.kind # "void"
  <2>1. res = Expression(NoType, t, cg, v, w)
    BY <1>3 DEF allocate_stack_for_temp, Failures, cg
  <2> DEFINE e == Expression(NoType, t, cg, v, w)
  <2>2. Shape(e)
    BY OutcomeShape DEF Expression
  <2>3. e.how = "ok" /\ e.type = t
    BY DEF Expression, Outcome
  <2> HIDE DEF res, e
  <2> QED
    BY <1>0, <1>3, <2>1, <2>2, <2>3 DEF cg, res, e, Failures
<1> QED
  BY <1>1, <1>2, <1>3

LEMMA AllocateExcused ==
  ASSUME Table, WellFounded, NEW t \in AllTypes, NEW v, NEW w, NEW e,
         e.how = allocate_stack_for_temp(t, v, w).how, NEW op, NEW lhs, NEW rhs,
         Sensible(op, lhs, rhs) => Sized(t) \/ Shadowed(LookedUp)
  PROVE  Excused(e, op, lhs, rhs)
<1>1. /\ get_llvm_type(t).kind \in Failures => e.how = get_llvm_type(t).kind
      /\ get_llvm_type(t).kind \notin Failures => e.how \in {"ok", "undefined"}
      /\ e.how = "undefined" => ~Sized(t)
  BY AllocateEnds
<1> QED
  BY <1>1, FailureExcused

\* The bool of the language.
LEMMA BoolIs ==
  ASSUME Table, WellFounded
  PROVE  LET b == Type("bool") IN
         /\ b \in AllTypes /\ Type_is_boolean(b) /\ get_llvm_type(b).kind = "int"
         /\ Sized(b)
<1> DEFINE b == Type("bool")
<1>1. "bool" \in DOMAIN types /\ types["bool"].kind # "alias"
  BY DEF Table, Builtins
<1>2. b \in AllTypes
  BY <1>1, TypesAssumption DEF Type, AllTypes, TypesAssumption
<1>3. Type_get_base_type(b) = b
  <2>1. Type_get_base_type(b) = BaseOf["bool"]
    BY DEF Type_get_base_type, Type
  <2> QED
    BY <1>1, <2>1, BaseIs
<1>4. Type_is_boolean(b)
  BY <1>3 DEF Type_is_boolean, IsBuiltin
<1>5. get_llvm_type(b).kind = "int"
  <2>1. get_llvm_type(b) = LLVMOf["bool"]
    BY <1>3 DEF get_llvm_type, Type
  <2> QED
    BY <1>1, <2>1, KindLLVM, LLVMParts DEF Builtins
<1>6. Sized(b)
  BY <1>5 DEF Sized
<1> QED
  BY <1>2, <1>4, <1>5, <1>6

\* What the scope says of an operand is true of it.
LEMMA OperandIs ==
  ASSUME Table, WellFounded, NEW e, Sound(e), e.scope # NoType
  PROVE  /\ e.scope \in AllTypes /\ e.type \in AllTypes
         /\ Type_is_pointer(e.scope) => Type_is_pointer(e.type)
         /\ Type_is_integer(e.scope) =>
              Type_is_integer(e.type) /\ ~Type_is_pointer(e.type) /\ Type_eq(e.scope, e.type)
<1>1. /\ e.type \in AllTypes /\ e.scope \in AllTypes /\ e.new \in BOOLEAN
      /\ e.new \/ Type_eq(e.scope, e.type)
      /\ e.new => e.scope.name = "void" /\ e.scope.stars <= e.type.stars
  BY DEF Sound
<1>2. ASSUME Type_is_pointer(e.scope) PROVE Type_is_pointer(e.type)
  <2>1. CASE e.new
    <3>1. e.scope.stars > 0
      BY <1>1, <1>2, <2>1, VoidIs
    <3>2. e.type.stars > 0
      BY <1>1, <2>1, <3>1, TypesAssumption DEF AllTypes, TypesAssumption
    <3> QED
      BY <1>1, <3>2, BaseType, PointerIs
  <2>2. CASE Type_eq(e.scope, e.type)
    BY <1>1, <1>2, <2>2, EqPointers
  <2> QED
    BY <1>1, <2>1, <2>2
<1>3. ASSUME Type_is_integer(e.scope)
      PROVE  Type_is_integer(e.type) /\ ~Type_is_pointer(e.type) /\ Type_eq(e.scope, e.type)
  <2>1. e.scope.name # "void" /\ \A s \in AllTypes : Type_eq(e.scope, s) => Type_is_integer(s)
    BY <1>1, <1>3, IntegerIs
  <2>2. Type_eq(e.scope, e.type)
    BY <1>1, <2>1
  <2>3. Type_is_integer(e.type)
    BY <1>1, <2>1, <2>2
  <2> QED
    BY <1>1, <2>2, <2>3, IntegerIs
<1> QED
  BY <1>1, <1>2, <1>3

\* An operand of a type that fits a register can be used as it is.
LEMMA ScalarUsable ==
  ASSUME Table, WellFounded, NEW e, Sound(e), Scalar(e.type)
  PROVE  Usable(e) /\ e.cg = get_llvm_type(e.type)
<1>1. e.type \in AllTypes /\ Sized(e.type)
  BY DEF Sound, Scalar
<1>2. ~Type_is_void(e.type)
  BY <1>1, SizedIs
<1>3. e.cg = get_llvm_type(e.type)
  BY <1>2 DEF Sound
<1>4. e.cg.kind \in {"int", "ptr"}
  BY <1>3 DEF Scalar, Sized
<1> QED
  BY <1>2, <1>3, <1>4 DEF Usable

\* A generator stops, or makes a slot; where the operands are sensible it makes one.
LEMMA GeneratorExcused ==
  ASSUME Table, WellFounded, NEW t \in AllTypes, NEW res, NEW op, NEW lhs, NEW rhs,
         \/ \E how \in Stops : res = Ends(how)
         \/ \E v, w : res = allocate_stack_for_temp(t, v, w),
         Sensible(op, lhs, rhs) /\ ~Shadowed(LookedUp) =>
           Sized(t) /\ \E v, w : res = allocate_stack_for_temp(t, v, w)
  PROVE  Excused(res, op, lhs, rhs)
<1> DEFINE ok == Sensible(op, lhs, rhs) /\ ~Shadowed(LookedUp)
<1>1. CASE ok
  <2>1. PICK v, w : res = allocate_stack_for_temp(t, v, w)
    BY <1>1
  <2> QED
    BY <1>1, <2>1, AllocateExcused
<1>2. CASE ~ok
  <2>1. CASE \E how \in Stops : res = Ends(how)
    <3>1. PICK how \in Stops : res = Ends(how)
      BY <2>1
    <3>2. res.how = how
      BY <3>1, EndsMade DEF Stops, Hows
    <3> QED
      BY <1>2, <3>2, StopExcused
  <2>2. CASE \E v, w : res = allocate_stack_for_temp(t, v, w)
    <3>1. PICK v, w : res = allocate_stack_for_temp(t, v, w)
      BY <2>2
    <3> QED
      BY <1>2, <3>1, AllocateExcused
  <2> QED
    BY <2>1, <2>2
<1> QED
  BY <1>1, <1>2

\* What is sensible, operator by operator.
LEMMA SensibleIs ==
  ASSUME NEW op, NEW lhs, NEW rhs, Sensible(op, lhs, rhs)
  PROVE  /\ op \in Arithmetic =>
              \/ Type_eq(lhs, rhs) /\ Type_is_integer(lhs)
              \/ /\ op = "PLUS"
                 /\ \/ Type_is_pointer(lhs) /\ Sized(Pointee(lhs)) /\ Type_eq(rhs, Type("int64"))
                    \/ Type_is_pointer(rhs) /\ Sized(Pointee(rhs)) /\ Type_eq(lhs, Type("int64"))
         /\ op \in Comparisons =>
              \/ Type_eq(lhs, rhs) /\ Scalar(lhs)
              \/ Type_is_pointer(lhs) /\ Type_is_pointer(rhs)
              \/ Type_is_pointer(lhs) /\ Type_eq(rhs, Type("int64"))
              \/ Type_is_pointer(rhs) /\ Type_eq(lhs, Type("int64"))
         /\ op \in {"AND", "OR"} => Scalar(lhs) /\ Scalar(rhs)
         /\ op = "NOT" => Scalar(lhs)
         /\ op = "PTR_DEREFERENCE" => Type_is_pointer(lhs) /\ Sized(Pointee(lhs))
         /\ op = "CAST" => Sized(rhs)
         /\ op = "field" => (Type_is_pointer(lhs) => Sized(Pointee(lhs)))
         /\ op \in {"store", "global", "atom"} => Type_eq(lhs, rhs) /\ Sized(lhs)
<1> DEFINE same == Type_eq(lhs, rhs)
           number == Type_is_integer(lhs)
<1>1. op \in Arithmetic =>
        \/ same /\ number
        \/ /\ op = "PLUS"
           /\ \/ Type_is_pointer(lhs) /\ Sized(Pointee(lhs)) /\ Type_eq(rhs, Type("int64"))
              \/ Type_is_pointer(rhs) /\ Sized(Pointee(rhs)) /\ Type_eq(lhs, Type("int64"))
  BY DEF Sensible, Arithmetic, Comparisons
<1>2. op \in Comparisons =>
        \/ same /\ Scalar(lhs)
        \/ Type_is_pointer(lhs) /\ Type_is_pointer(rhs)
        \/ Type_is_pointer(lhs) /\ Type_eq(rhs, Type("int64"))
        \/ Type_is_pointer(rhs) /\ Type_eq(lhs, Type("int64"))
  BY DEF Sensible, Arithmetic, Comparisons
<1>3. /\ op \in {"AND", "OR"} => Scalar(lhs) /\ Scalar(rhs)
      /\ op = "NOT" => Scalar(lhs)
      /\ op = "PTR_DEREFERENCE" => Type_is_pointer(lhs) /\ Sized(Pointee(lhs))
  BY DEF Sensible, Arithmetic, Comparisons
<1>4. /\ op = "CAST" => Sized(rhs)
      /\ op = "field" => (Type_is_pointer(lhs) => Sized(Pointee(lhs)))
      /\ op \in {"store", "global", "atom"} => same /\ Sized(lhs)
  BY DEF Sensible, Arithmetic, Comparisons
<1> QED
  BY <1>1, <1>2, <1>3, <1>4

\* Where bool is not hidden, the result of a comparison is one.
LEMMA NotShadowed ==
  ASSUME ~Shadowed(LookedUp)
  PROVE  /\ names["bool"] = "bool" /\ names["int"] = "int" /\ names["int64"] = "int64"
         /\ names["char"] = "char" /\ names["string"] = "string"
BY DEF Shadowed, LookedUp

LEMMA WordIs ==
  ASSUME Table, WellFounded, NEW t \in AllTypes, Type_eq(t, Type("int64"))
  PROVE  /\ Type("int64") \in AllTypes /\ Type_is_integer(t) /\ ~Type_is_pointer(t) /\ ~Type_is_void(t)
         /\ get_llvm_type(t) = IntType(Width["int64"])
<1> DEFINE w == Type("int64")
<1>1. "int64" \in DOMAIN types /\ types["int64"].kind # "alias"
  BY DEF Table, Builtins
<1>2. w \in AllTypes
  BY <1>1, TypesAssumption DEF Type, AllTypes, TypesAssumption
<1>3. Type_get_base_type(w) = w
  <2>1. Type_get_base_type(w) = BaseOf["int64"]
    BY DEF Type_get_base_type, Type
  <2> QED
    BY <1>1, <2>1, BaseIs
<1>4. Type_is_integer(w)
  BY <1>3 DEF Type_is_integer, IsBuiltin
<1> HIDE DEF w
<1>5. Type_is_integer(t)
  BY <1>2, <1>4, IntegerIs DEF w
<1>6. ~Type_is_pointer(t) /\ Sized(t)
  BY <1>5, IntegerIs, SizedIs
<1>7. get_llvm_type(t) = get_llvm_type(w)
  BY <1>2, EqLLVM DEF w
<1>8. get_llvm_type(w) = IntType(Width["int64"])
  BY <1>2, <1>3, LLVMOfType DEF w
<1> QED
  BY <1>2, <1>5, <1>6, <1>7, <1>8, SizedIs DEF w

LEMMA compareExcused ==
  ASSUME Table, WellFounded, NEW op \in Comparisons, NEW l, NEW r, Sound(l), Sound(r),
         NEW t \in AllTypes, t = Type(names["bool"])
  PROVE  Excused(compare(op, l, r, t), op, l.type, r.type)
<1> DEFINE res == compare(op, l, r, t)
           bothPointers == l.cg.kind = "ptr" /\ r.cg.kind = "ptr"
           Compared(e) == IF e.cg.kind = "ptr" /\ ~bothPointers THEN IntType(Type_ptr_size) ELSE e.cg
           fits == Compared(l) = Compared(r) /\ Usable(l) /\ Usable(r)
<1>0. l.type \in AllTypes /\ r.type \in AllTypes
  BY DEF Sound
<1>1. /\ ~fits => res = Ends("undefined")
      /\ fits /\ get_llvm_type(t).kind # "int" => res = Ends("assertion")
      /\ fits /\ get_llvm_type(t).kind = "int" => \E v, w : res = allocate_stack_for_temp(t, v, w)
  BY DEF compare
<1>2. ASSUME Sensible(op, l.type, r.type), ~Shadowed(LookedUp)
      PROVE  fits /\ get_llvm_type(t).kind = "int" /\ Sized(t)
  <2>1. get_llvm_type(t).kind = "int" /\ Sized(t)
    BY <1>2, NotShadowed, BoolIs
  <2>2. \/ Type_eq(l.type, r.type) /\ Scalar(l.type)
        \/ Type_is_pointer(l.type) /\ Type_is_pointer(r.type)
        \/ Type_is_pointer(l.type) /\ Type_eq(r.type, Type("int64"))
        \/ Type_is_pointer(r.type) /\ Type_eq(l.type, Type("int64"))
    BY <1>2, SensibleIs
  <2>3. ASSUME NEW e \in {l, r}, Type_is_pointer(e.type)
        PROVE  Usable(e) /\ e.cg = PointerType /\ e.cg.kind = "ptr"
    <3>1. Sound(e) /\ e.type \in AllTypes
      BY <1>0
    <3>2. Scalar(e.type)
      BY <2>3, <3>1, SizedIs
    <3> QED
      BY <2>3, <3>1, <3>2, ScalarUsable, LLVMOfType, LLVMParts
  <2>4. ASSUME NEW e \in {l, r}, Type_eq(e.type, Type("int64"))
        PROVE  Usable(e) /\ e.cg = IntType(Type_ptr_size) /\ e.cg.kind = "int"
    <3>1. Sound(e) /\ e.type \in AllTypes
      BY <1>0
    <3>2. Type_is_integer(e.type) /\ get_llvm_type(e.type) = IntType(Width["int64"])
      BY <2>4, <3>1, WordIs
    <3>3. Scalar(e.type)
      BY <3>1, <3>2, SizedIs
    <3> QED
      BY <3>1, <3>2, <3>3, ScalarUsable, LLVMParts DEF Type_ptr_size
  <2>5. CASE Type_eq(l.type, r.type) /\ Scalar(l.type)
    <3>1. get_llvm_type(l.type) = get_llvm_type(r.type)
      BY <1>0, <2>5, EqLLVM
    <3>2. Scalar(r.type)
      BY <2>5, <3>1 DEF Scalar, Sized
    <3>3. Usable(l) /\ Usable(r) /\ l.cg = r.cg
      BY <2>5, <3>1, <3>2, ScalarUsable
    <3>4. Compared(l) = Compared(r)
      BY <3>3
    <3> QED
      BY <2>1, <3>3, <3>4
  <2>6. CASE Type_is_pointer(l.type) /\ Type_is_pointer(r.type)
    BY <2>1, <2>3, <2>6
  <2>7. CASE Type_is_pointer(l.type) /\ Type_eq(r.type, Type("int64"))
    <3>1. Usable(l) /\ l.cg.kind = "ptr"
      BY <2>3, <2>7
    <3>2. Usable(r) /\ r.cg = IntType(Type_ptr_size) /\ r.cg.kind = "int"
      BY <2>4, <2>7
    <3> QED
      BY <2>1, <3>1, <3>2
  <2>8. CASE Type_is_pointer(r.type) /\ Type_eq(l.type, Type("int64"))
    <3>1. Usable(r) /\ r.cg.kind = "ptr"
      BY <2>3, <2>8
    <3>2. Usable(l) /\ l.cg = IntType(Type_ptr_size) /\ l.cg.kind = "int"
      BY <2>4, <2>8
    <3> QED
      BY <2>1, <3>1, <3>2
  <2> QED
    BY <2>2, <2>5, <2>6, <2>7, <2>8
<1> HIDE DEF res, fits
<1>3. \/ \E how \in Stops : res = Ends(how)
      \/ \E v, w : res = allocate_stack_for_temp(t, v, w)
  BY <1>1 DEF Stops
<1>4. Excused(res, op, l.type, r.type)
  BY <1>1, <1>2, <1>3, GeneratorExcused
<1> QED
  BY <1>4 DEF res

LEMMA booleanAndOrExcused ==
  ASSUME Table, WellFounded, NEW op \in {"AND", "OR"}, NEW l, NEW r, Sound(l), Sound(r),
         NEW t \in AllTypes, t = Type(names["bool"])
  PROVE  Excused(booleanAndOr(op, l, r, t), op, l.type, r.type)
<1> DEFINE res == booleanAndOr(op, l, r, t)
           fits == Usable(l) /\ Usable(r)
<1>1. /\ ~Type_is_boolean(t) => res = Ends("assertion")
      /\ Type_is_boolean(t) /\ ~fits => res = Ends("undefined")
      /\ Type_is_boolean(t) /\ fits => \E v, w : res = allocate_stack_for_temp(t, v, w)
  BY DEF booleanAndOr
<1>2. ASSUME Sensible(op, l.type, r.type), ~Shadowed(LookedUp)
      PROVE  fits /\ Type_is_boolean(t) /\ Sized(t)
  <2>1. Type_is_boolean(t) /\ Sized(t)
    BY <1>2, NotShadowed, BoolIs
  <2>2. Scalar(l.type) /\ Scalar(r.type)
    BY <1>2, SensibleIs
  <2> QED
    BY <2>1, <2>2, ScalarUsable
<1> HIDE DEF res, fits
<1>3. \/ \E how \in Stops : res = Ends(how)
      \/ \E v, w : res = allocate_stack_for_temp(t, v, w)
  BY <1>1 DEF Stops
<1>4. Excused(res, op, l.type, r.type)
  BY <1>1, <1>2, <1>3, GeneratorExcused
<1> QED
  BY <1>4 DEF res

\* An address and a number.
LEMMA addrOffsetExcused ==
  ASSUME Table, WellFounded, NEW op \in {"PLUS", "MINUS"}, NEW l, NEW r, Sound(l), Sound(r),
         \/ Type_is_pointer(l.type) /\ Type_is_integer(r.type)
         \/ Type_is_integer(l.type) /\ Type_is_pointer(r.type)
  PROVE  Excused(addrOffset(op, l, r), op, l.type, r.type)
<1> DEFINE ptr == IF Type_is_pointer(Type_get_base_type(l.type)) THEN l ELSE r
           res == addrOffset(op, l, r)
           pt == Type_get_pointee_type(ptr.type)
           kind == get_llvm_type(pt).kind
           base == Type_get_base_type(ptr.type)
<1>1. l.type \in AllTypes /\ r.type \in AllTypes
  BY DEF Sound
<1>2. ptr.type \in AllTypes /\ Type_is_pointer(ptr.type)
      /\ \A e \in {l, r} : Type_is_pointer(e.type) => ptr.type = e.type
  <2>1. \A e \in {l, r} : Type_is_integer(e.type) => ~Type_is_pointer(e.type)
    BY <1>1, IntegerIs
  <2>2. Type_is_pointer(Type_get_base_type(l.type)) <=> Type_is_pointer(l.type)
    BY <1>1, PointerIs
  <2> QED
    BY <1>1, <2>1, <2>2
<1>3. /\ op # "PLUS" => res = Ends("unimplemented")
      /\ op = "PLUS" /\ kind \in Failures => res = Ends(kind)
      /\ op = "PLUS" /\ kind \notin Failures /\ kind = "void" => res = Ends("undefined")
      /\ op = "PLUS" /\ kind \notin Failures /\ kind # "void" =>
           \E v, w : res = allocate_stack_for_temp(base, v, w)
  <2>1. op # "PLUS" => res = Ends("unimplemented")
    BY <1>2 DEF addrOffset
  <2>2. op = "PLUS" => \/ kind \in Failures /\ res = Ends(kind)
                       \/ kind \notin Failures /\ kind = "void" /\ res = Ends("undefined")
                       \/ /\ kind \notin Failures /\ kind # "void"
                          /\ \E v, w : res = allocate_stack_for_temp(base, v, w)
    BY <1>2 DEF addrOffset, Failures
  <2> HIDE DEF res, kind
  <2> QED
    BY <2>1, <2>2
<1>4. pt \in AllTypes /\ base \in AllTypes /\ Sized(base)
  BY <1>2, PointeeIs, BaseType, PointerIs, SizedIs
<1>5. Sized(pt) <=> kind \notin Failures \cup {"void"}
  BY <1>4, SizedIs
<1>6. ASSUME Sensible(op, l.type, r.type) PROVE op = "PLUS" /\ Sized(pt)
  <2>1. \/ Type_eq(l.type, r.type) /\ Type_is_integer(l.type)
        \/ /\ op = "PLUS"
           /\ \/ Type_is_pointer(l.type) /\ Sized(Pointee(l.type))
              \/ Type_is_pointer(r.type) /\ Sized(Pointee(r.type))
    BY <1>6, SensibleIs DEF Arithmetic
  <2>2. ~(Type_eq(l.type, r.type) /\ Type_is_integer(l.type))
    BY <1>1, IntegerIs
  <2> QED
    BY <1>2, <2>1, <2>2 DEF Pointee
<1> HIDE DEF res, pt, kind, base, ptr
<1>7. CASE op # "PLUS"
  <2>1. res.how = "unimplemented"
    BY <1>3, <1>7, EndsMade DEF Hows
  <2>2. Excused(res, op, l.type, r.type)
    BY <1>6, <1>7, <2>1, StopExcused DEF Stops
  <2> QED
    BY <2>2 DEF res
<1>8. CASE op = "PLUS" /\ kind \in Failures
  <2>1. res.how = kind
    BY <1>3, <1>8, EndsMade DEF Hows, Failures
  <2>2. Excused(res, op, l.type, r.type)
    BY <1>4, <1>5, <1>6, <1>8, <2>1, FailureExcused DEF kind
  <2> QED
    BY <2>2 DEF res
<1>9. CASE op = "PLUS" /\ kind \notin Failures /\ kind = "void"
  <2>1. res.how = "undefined"
    BY <1>3, <1>9, EndsMade DEF Hows
  <2>2. Excused(res, op, l.type, r.type)
    BY <1>5, <1>6, <1>9, <2>1, StopExcused DEF Stops
  <2> QED
    BY <2>2 DEF res
<1>10. CASE op = "PLUS" /\ kind \notin Failures /\ kind # "void"
  <2>1. PICK v, w : res = allocate_stack_for_temp(base, v, w)
    BY <1>3, <1>10
  <2>2. Excused(res, op, l.type, r.type)
    BY <1>4, <2>1, AllocateExcused
  <2> QED
    BY <2>2 DEF res
<1> QED
  BY <1>7, <1>8, <1>9, <1>10

\* Two numbers.
LEMMA sintBOpExcused ==
  ASSUME Table, WellFounded, NEW op, NEW l, NEW r, Sound(l), Sound(r), NEW t \in AllTypes,
         Sensible(op, l.type, r.type) /\ ~Shadowed(LookedUp) =>
           /\ Type_is_integer(l.type) /\ Type_is_integer(r.type) /\ Type_is_integer(t)
           /\ Type_eq(l.type, r.type)
  PROVE  Excused(sintBOp(op, l, r, t), op, l.type, r.type)
<1> DEFINE res == sintBOp(op, l, r, t)
           fits == /\ Type_is_signed(l.type) /\ Type_is_signed(r.type) /\ Type_is_signed(t)
                   /\ Type_eq(l.type, r.type)
<1>1. /\ ~fits => res = Ends("assertion")
      /\ fits => \E v, w : res = allocate_stack_for_temp(t, v, w)
  BY DEF sintBOp
<1>2. Sensible(op, l.type, r.type) /\ ~Shadowed(LookedUp) => fits /\ Sized(t)
  BY SizedIs DEF Type_is_signed
<1> HIDE DEF res, fits
<1>3. \/ \E how \in Stops : res = Ends(how)
      \/ \E v, w : res = allocate_stack_for_temp(t, v, w)
  BY <1>1 DEF Stops
<1>4. Excused(res, op, l.type, r.type)
  BY <1>1, <1>2, <1>3, GeneratorExcused
<1> QED
  BY <1>4 DEF res

LEMMA SameHow ==
  ASSUME NEW e, NEW f, f.how = e.how, NEW op, NEW lhs, NEW rhs, Excused(e, op, lhs, rhs)
  PROVE  Excused(f, op, lhs, rhs)
BY DEF Excused

\* Where the rule of addresses does not fit, a word is not added to a pointer.
LEMMA NoAddress ==
  ASSUME TypesInv, NEW op \in Arithmetic, NEW l, NEW r, Sound(l), Sound(r),
         l.scope # NoType, r.scope # NoType, RuleFor(op, l.scope, r.scope).gen = "sintBOp",
         \/ Type_is_integer(l.scope) /\ Type_is_pointer(r.scope)
         \/ Type_is_pointer(l.scope) /\ Type_is_integer(r.scope)
         \/ Type_eq(l.scope, r.scope) /\ Type_is_integer(l.scope),
         Sensible(op, l.type, r.type), ~Shadowed(LookedUp)
  PROVE  /\ Type_eq(l.type, r.type) /\ Type_is_integer(l.type) /\ Type_is_integer(r.type)
         /\ Type_is_integer(l.scope) /\ Type_is_integer(r.scope)
<1> USE DEF TypesInv
<1>1. \A e \in {l, r} :
        /\ e.scope \in AllTypes /\ e.type \in AllTypes
        /\ Type_is_pointer(e.scope) => Type_is_pointer(e.type)
        /\ Type_is_integer(e.scope) =>
             Type_is_integer(e.type) /\ ~Type_is_pointer(e.type) /\ Type_eq(e.scope, e.type)
  BY OperandIs
<1>2. \A e \in {l, r} : Type_is_integer(e.type) => ~Type_is_pointer(e.type)
  BY <1>1, IntegerIs
<1>3. Type_eq(l.scope, r.scope) /\ Type_is_integer(l.scope) => Type_is_integer(r.scope)
  BY <1>1, IntegerIs
<1>4. op \in BinaryOps
  BY DEF BinaryOps
<1>5. /\ op \in {"PLUS", "MINUS"} /\ typesMatch(l.scope, "int64") => ~Type_is_pointer(r.scope)
      /\ op \in {"PLUS", "MINUS"} /\ typesMatch(r.scope, "int64") => ~Type_is_pointer(l.scope)
  BY <1>4, RuleOfAddresses
<1>6. ASSUME NEW e \in {l, r}, Type_is_integer(e.scope), Type_eq(e.type, Type("int64"))
      PROVE  typesMatch(e.scope, "int64")
  <2>1. Type("int64") \in AllTypes
    BY <1>1, <1>6, WordIs
  <2>2. Type_eq(e.scope, Type("int64"))
    BY <1>1, <1>6, <2>1, EqTransitive
  <2> QED
    BY <2>2, NotShadowed DEF typesMatch, scope_get_Type_from_name, Builtins
<1>7. \/ Type_eq(l.type, r.type) /\ Type_is_integer(l.type)
      \/ /\ op = "PLUS"
         /\ \/ Type_is_pointer(l.type) /\ Type_eq(r.type, Type("int64"))
            \/ Type_is_pointer(r.type) /\ Type_eq(l.type, Type("int64"))
  BY SensibleIs
<1>8. CASE Type_eq(l.type, r.type) /\ Type_is_integer(l.type)
  <2>1. Type_is_integer(r.type)
    BY <1>1, <1>8, IntegerIs
  <2> QED
    BY <1>1, <1>2, <1>3, <1>8, <2>1
<1>9. CASE op = "PLUS" /\ Type_is_pointer(l.type) /\ Type_eq(r.type, Type("int64"))
  <2>1. Type_is_pointer(l.scope) /\ Type_is_integer(r.scope)
    BY <1>1, <1>9
  <2> QED
    BY <1>5, <1>6, <1>9, <2>1
<1>10. CASE op = "PLUS" /\ Type_is_pointer(r.type) /\ Type_eq(l.type, Type("int64"))
  <2>1. Type_is_integer(l.scope) /\ Type_is_pointer(r.scope)
    BY <1>1, <1>3, <1>10
  <2> QED
    BY <1>5, <1>6, <1>10, <2>1
<1> QED
  BY <1>7, <1>8, <1>9, <1>10

LEMMA BinaryExcused ==
  ASSUME TypesInv, NEW op \in BinaryOps, NEW l, NEW r, Sound(l), Sound(r)
  PROVE  Excused(codegenBinaryOperator(op, l, r), op, l.type, r.type)
<1> DEFINE scope == scope_get_Type_from_binop(op, l.scope, r.scope)
           gen == RuleFor(op, l.scope, r.scope).gen
           res == CASE scope = NoType -> Ends("refused")
                    [] scope # NoType /\ gen = "addrOffset" -> addrOffset(op, l, r)
                    [] scope # NoType /\ gen = "sintBOp" -> sintBOp(op, l, r, scope)
                    [] scope # NoType /\ gen = "compare" -> compare(op, l, r, scope)
                    [] scope # NoType /\ gen \in {"booleanAnd", "booleanOr"} ->
                         booleanAndOr(op, l, r, scope)
           new == scope # NoType /\ gen = "addrOffset" /\ (l.new \/ r.new)
           f == [res EXCEPT !.scope = scope, !.new = new]
<1> USE DEF TypesInv
<1>1. codegenBinaryOperator(op, l, r) = f
  BY DEF codegenBinaryOperator
<1>2. /\ l.type \in AllTypes /\ l.scope \in AllTypes \cup {NoType}
      /\ r.type \in AllTypes /\ r.scope \in AllTypes \cup {NoType}
  BY DEF Sound
<1>3. op # "CAST"
  BY DEF BinaryOps, Arithmetic, Comparisons
<1>4. /\ gen \in {"addrOffset", "sintBOp", "compare", "booleanAnd", "booleanOr"}
      /\ gen = "addrOffset" => op \in {"PLUS", "MINUS"}
      /\ gen = "sintBOp" => op \in Arithmetic
      /\ gen = "compare" => op \in Comparisons
      /\ gen \in {"booleanAnd", "booleanOr"} => op \in {"AND", "OR"}
  <2> DEFINE rule == RuleFor(op, l.scope, r.scope)
  <2>1. /\ op = "CAST" => rule.gen = "cast"
        /\ op # "CAST" => rule.gen \in {"addrOffset", "sintBOp", "compare", "booleanAnd", "booleanOr"}
        /\ rule.res = IF rule.gen \in {"addrOffset", "sintBOp", "cast"} THEN "" ELSE "bool"
        /\ rule.gen = "addrOffset" => op \in {"PLUS", "MINUS"}
        /\ rule.gen = "sintBOp" => op \in Arithmetic
        /\ rule.gen = "compare" => op \in Comparisons
        /\ rule.gen \in {"booleanAnd", "booleanOr"} => op \in {"AND", "OR"}
    BY RuleIs
  <2> HIDE DEF rule
  <2>2. gen = rule.gen
    BY DEF rule
  <2> HIDE DEF gen
  <2>3. /\ rule.gen \in {"addrOffset", "sintBOp", "compare", "booleanAnd", "booleanOr"}
        /\ rule.gen = "addrOffset" => op \in {"PLUS", "MINUS"}
        /\ rule.gen = "sintBOp" => op \in Arithmetic
        /\ rule.gen = "compare" => op \in Comparisons
        /\ rule.gen \in {"booleanAnd", "booleanOr"} => op \in {"AND", "OR"}
    BY <1>3, <2>1, Zenon
  <2> QED
    BY <2>2, <2>3
<1>5. scope # NoType =>
        /\ scope \in AllTypes /\ l.scope \in AllTypes /\ r.scope \in AllTypes
        /\ gen \in {"compare", "booleanAnd", "booleanOr"} => scope = Type(names["bool"])
        /\ gen \in {"addrOffset", "sintBOp"} =>
             \/ Type_is_integer(l.scope) /\ Type_is_pointer(r.scope) /\ scope = r.scope
             \/ Type_is_pointer(l.scope) /\ Type_is_integer(r.scope) /\ scope = l.scope
             \/ Type_eq(l.scope, r.scope) /\ Type_is_integer(l.scope) /\ scope = l.scope
  BY <1>2, BinopTypes
<1>6. /\ scope = NoType => res = Ends("refused")
      /\ scope # NoType /\ gen = "addrOffset" => res = addrOffset(op, l, r)
      /\ scope # NoType /\ gen = "sintBOp" => res = sintBOp(op, l, r, scope)
      /\ scope # NoType /\ gen = "compare" => res = compare(op, l, r, scope)
      /\ scope # NoType /\ gen \in {"booleanAnd", "booleanOr"} => res = booleanAndOr(op, l, r, scope)
  OBVIOUS
<1>addr. gen = "addrOffset" => Type_is_pointer(l.scope) \/ Type_is_pointer(r.scope)
  BY RuleOfAddresses
<1>7. scope # NoType => l.scope # NoType /\ r.scope # NoType
  BY DEF scope_get_Type_from_binop
<1> HIDE DEF scope, res, new
<1>8. Shape(res) => f.how = res.how
  BY Except
<1>9. Shape(res)
  <2>1. CASE scope = NoType
    BY <1>6, <2>1, EndsMade DEF Hows
  <2>2. CASE scope # NoType /\ gen = "addrOffset"
    <3>1. \E t : Made(res, t)
      BY <1>2, <1>6, <2>2, addrOffsetMade
    <3> QED
      BY <3>1 DEF Made
  <2>3. CASE scope # NoType /\ gen # "addrOffset"
    <3>1. Made(res, scope)
      BY <1>4, <1>5, <1>6, <2>3, sintBOpMade, compareMade, booleanAndOrMade
    <3> QED
      BY <3>1 DEF Made
  <2> QED
    BY <2>1, <2>2, <2>3
<1> HIDE DEF f
<1> SUFFICES Excused(res, op, l.type, r.type)
  BY <1>1, <1>8, <1>9, SameHow
<1>10. CASE scope = NoType
  <2>1. res.how = "refused"
    BY <1>6, <1>10, EndsMade DEF Hows
  <2> QED
    BY <2>1, EndsExcused DEF Hows, Stops
<1>11. CASE scope # NoType /\ gen = "addrOffset"
  <2>1. \A e \in {l, r} :
          /\ Type_is_pointer(e.scope) => Type_is_pointer(e.type)
          /\ Type_is_integer(e.scope) => Type_is_integer(e.type)
    BY <1>7, <1>11, OperandIs
  <2>2. ~(Type_eq(l.scope, r.scope) /\ Type_is_integer(l.scope))
    <3>1. Type_eq(l.scope, r.scope) /\ Type_is_integer(l.scope) => Type_is_integer(r.scope)
      BY <1>5, <1>11, IntegerIs
    <3>2. Type_is_integer(l.scope) => ~Type_is_pointer(l.scope)
      BY <1>5, <1>11, IntegerIs
    <3>3. Type_is_integer(r.scope) => ~Type_is_pointer(r.scope)
      BY <1>5, <1>11, IntegerIs
    <3> QED
      BY <1>11, <1>addr, <3>1, <3>2, <3>3
  <2>3. \/ Type_is_pointer(l.type) /\ Type_is_integer(r.type)
        \/ Type_is_integer(l.type) /\ Type_is_pointer(r.type)
    BY <1>5, <1>11, <2>1, <2>2
  <2> QED
    BY <1>4, <1>6, <1>11, <2>3, addrOffsetExcused
<1>12. CASE scope # NoType /\ gen = "sintBOp"
  <2>1. Sensible(op, l.type, r.type) /\ ~Shadowed(LookedUp) =>
          /\ Type_eq(l.type, r.type) /\ Type_is_integer(l.type) /\ Type_is_integer(r.type)
          /\ Type_is_integer(l.scope) /\ Type_is_integer(r.scope)
    BY <1>4, <1>5, <1>7, <1>12, NoAddress
  <2>2. scope \in AllTypes /\ scope \in {l.scope, r.scope}
    BY <1>5, <1>12
  <2>3. Sensible(op, l.type, r.type) /\ ~Shadowed(LookedUp) =>
          /\ Type_is_integer(l.type) /\ Type_is_integer(r.type) /\ Type_is_integer(scope)
          /\ Type_eq(l.type, r.type)
    BY <2>1, <2>2
  <2> QED
    BY <1>6, <1>12, <2>2, <2>3, sintBOpExcused
<1>13. CASE scope # NoType /\ gen = "compare"
  BY <1>4, <1>5, <1>6, <1>13, compareExcused
<1>14. CASE scope # NoType /\ gen \in {"booleanAnd", "booleanOr"}
  BY <1>4, <1>5, <1>6, <1>14, booleanAndOrExcused
<1> QED
  BY <1>4, <1>10, <1>11, <1>12, <1>13, <1>14

-----------------------------------------------------------------------------
LEMMA intNegateExcused ==
  ASSUME Table, WellFounded, NEW l, Sound(l), NEW t \in AllTypes, t = l.scope, Type_is_integer(t)
  PROVE  Excused(intNegate(l, t), "MINUS", l.type, l.type)
<1> DEFINE res == intNegate(l, t)
           fits == Type_is_integer(l.type) /\ Type_is_integer(t) /\ Type_eq(l.type, t)
<1>1. /\ ~fits => res = Ends("assertion")
      /\ fits => \E v, w : res = allocate_stack_for_temp(t, v, w)
  BY DEF intNegate
<1>2. fits /\ Sized(t)
  <2>1. l.scope # NoType
    BY NoTypeIsNone
  <2>2. l.type \in AllTypes /\ Type_is_integer(l.type) /\ Type_eq(t, l.type)
    BY <2>1, OperandIs
  <2>3. Type_eq(l.type, t)
    BY <2>2, EqSymmetric
  <2> QED
    BY <2>2, <2>3, SizedIs
<1> HIDE DEF res, fits
<1>3. PICK v, w : res = allocate_stack_for_temp(t, v, w)
  BY <1>1, <1>2
<1>4. Excused(res, "MINUS", l.type, l.type)
  BY <1>2, <1>3, AllocateExcused
<1> QED
  BY <1>4 DEF res

LEMMA booleanNotExcused ==
  ASSUME Table, WellFounded, NEW l, Sound(l), NEW t \in AllTypes, t = Type(names["bool"])
  PROVE  Excused(booleanNot(l, t), "NOT", l.type, l.type)
<1> DEFINE res == booleanNot(l, t)
           int == get_llvm_type(t).kind = "int"
<1>1. /\ ~Usable(l) => res = Ends("undefined")
      /\ Usable(l) /\ ~int => res = Ends("assertion")
      /\ Usable(l) /\ int => \E v, w : res = allocate_stack_for_temp(t, v, w)
  BY DEF booleanNot
<1>2. ASSUME Sensible("NOT", l.type, l.type), ~Shadowed(LookedUp)
      PROVE  Usable(l) /\ int /\ Sized(t)
  <2>1. int /\ Sized(t)
    BY <1>2, NotShadowed, BoolIs
  <2>2. Scalar(l.type)
    BY <1>2, SensibleIs
  <2> QED
    BY <2>1, <2>2, ScalarUsable
<1> HIDE DEF res, int
<1>3. \/ \E how \in Stops : res = Ends(how)
      \/ \E v, w : res = allocate_stack_for_temp(t, v, w)
  BY <1>1 DEF Stops
<1>4. Excused(res, "NOT", l.type, l.type)
  BY <1>1, <1>2, <1>3, GeneratorExcused
<1> QED
  BY <1>4 DEF res

LEMMA getAddressOfValueExcused ==
  ASSUME Table, WellFounded, NEW l, Sound(l), l.type.stars < MaxStars, NEW op, NEW lhs, NEW rhs
  PROVE  Excused(getAddressOfValue(l), op, lhs, rhs)
<1> DEFINE t == Type_get_ptr_type(l.type)
           res == getAddressOfValue(l)
<1>1. \E v, w : res = allocate_stack_for_temp(t, v, w)
  BY DEF getAddressOfValue
<1>2. t \in AllTypes /\ Type_is_pointer(t)
  BY PtrTypeIs DEF Sound
<1> HIDE DEF t, res
<1>3. Sized(t)
  BY <1>2, SizedIs
<1>4. PICK v, w : res = allocate_stack_for_temp(t, v, w)
  BY <1>1
<1>5. Excused(res, op, lhs, rhs)
  BY <1>2, <1>3, <1>4, AllocateExcused
<1> QED
  BY <1>5 DEF res

LEMMA getValueAtAddressExcused ==
  ASSUME Table, WellFounded, NEW l, NEW c, Sound(l), Type_is_pointer(l.type)
  PROVE  Excused(getValueAtAddress(l, c), "PTR_DEREFERENCE", l.type, l.type)
<1> DEFINE t == Type_get_pointee_type(l.type)
           res == getValueAtAddress(l, c)
<1>1. \E v, w : res = allocate_stack_for_temp(t, v, w)
  BY DEF getValueAtAddress
<1>2. t \in AllTypes
  BY PointeeIs DEF Sound
<1>3. Sensible("PTR_DEREFERENCE", l.type, l.type) => Sized(t)
  BY SensibleIs DEF Pointee
<1> HIDE DEF t, res
<1>4. PICK v, w : res = allocate_stack_for_temp(t, v, w)
  BY <1>1
<1>5. Excused(res, "PTR_DEREFERENCE", l.type, l.type)
  BY <1>2, <1>3, <1>4, AllocateExcused
<1> QED
  BY <1>5 DEF res

LEMMA UnaryExcused ==
  ASSUME TypesInv, NEW op \in UnaryOps, NEW l, NEW c, Sound(l),
         op = "TAKE_ADDRESS" => l.type.stars < MaxStars /\ l.scope.stars < MaxStars
  PROVE  Excused(codegenUnaryOperator(op, l, c), op, l.type, l.type)
<1> DEFINE scope == scope_get_Type_from_uop(op, l.scope)
           res == CASE scope = NoType -> Ends("refused")
                    [] scope # NoType /\ op = "MINUS" -> intNegate(l, scope)
                    [] scope # NoType /\ op = "NOT" -> booleanNot(l, scope)
                    [] scope # NoType /\ op = "TAKE_ADDRESS" -> getAddressOfValue(l)
                    [] scope # NoType /\ op = "PTR_DEREFERENCE" -> getValueAtAddress(l, c)
           new == l.new /\ op \in {"TAKE_ADDRESS", "PTR_DEREFERENCE"}
           f == [res EXCEPT !.scope = scope, !.new = new]
<1> USE DEF TypesInv
<1>1. codegenUnaryOperator(op, l, c) = f
  BY DEF codegenUnaryOperator
<1>2. l.type \in AllTypes /\ l.scope \in AllTypes \cup {NoType} /\ l.new \in BOOLEAN
  BY DEF Sound
<1>3. scope # NoType =>
        /\ scope \in AllTypes /\ l.scope \in AllTypes
        /\ op = "PTR_DEREFERENCE" => Type_is_pointer(l.scope)
  BY <1>2, UnopTypes
<1>4. /\ scope = NoType => res = Ends("refused")
      /\ scope # NoType /\ op = "MINUS" => res = intNegate(l, scope)
      /\ scope # NoType /\ op = "NOT" => res = booleanNot(l, scope)
      /\ scope # NoType /\ op = "TAKE_ADDRESS" => res = getAddressOfValue(l)
      /\ scope # NoType /\ op = "PTR_DEREFERENCE" => res = getValueAtAddress(l, c)
  OBVIOUS
<1>5. scope # NoType =>
        /\ l.scope # NoType
        /\ op = "MINUS" => Type_is_integer(l.scope) /\ scope = l.scope
        /\ op = "NOT" => scope = Type(names["bool"])
  <2>1. scope # NoType => l.scope # NoType
    BY DEF scope_get_Type_from_uop
  <2>2. scope # NoType /\ op = "MINUS" => Type_is_integer(l.scope) /\ scope = l.scope
    BY <2>1 DEF scope_get_Type_from_uop, determine_result_type_uop
  <2>3. scope # NoType /\ op = "NOT" => scope = Type(names["bool"])
    BY <2>1 DEF scope_get_Type_from_uop, scope_get_Type_from_name
  <2> QED
    BY <2>1, <2>2, <2>3
<1> HIDE DEF scope, res, new
<1>6. Shape(res) => f.how = res.how
  BY Except
<1> HIDE DEF f
<1>7. CASE scope = NoType
  <2>1. Shape(res) /\ res.how = "refused"
    BY <1>4, <1>7, EndsMade DEF Hows
  <2>2. f.how = "refused"
    BY <1>6, <2>1
  <2>3. Excused(f, op, l.type, l.type)
    BY <2>2, EndsExcused DEF Hows, Stops
  <2> QED
    BY <1>1, <2>3
<1>8. CASE scope # NoType
  <2>1. \E t : Made(res, t)
    <3>1. op \in {"MINUS", "NOT"} => Made(res, scope)
      BY <1>3, <1>4, <1>8, intNegateMade, booleanNotMade
    <3>2. op = "TAKE_ADDRESS" => \E t : Made(res, t)
      BY <1>2, <1>4, <1>8, getAddressOfValueMade
    <3>3. op = "PTR_DEREFERENCE" => \E t : Made(res, t)
      <4>1. op = "PTR_DEREFERENCE" => Type_is_pointer(l.type)
        BY <1>3, <1>5, <1>8, OperandIs
      <4> QED
        BY <1>2, <1>4, <1>8, <4>1, getValueAtAddressMade
    <3> QED
      BY <3>1, <3>2, <3>3 DEF UnaryOps
  <2>2. Shape(res)
    BY <2>1 DEF Made
  <2> SUFFICES Excused(res, op, l.type, l.type)
    BY <1>1, <1>6, <2>2, SameHow
  <2>3. CASE op = "MINUS"
    BY <1>3, <1>4, <1>5, <1>8, <2>3, intNegateExcused
  <2>4. CASE op = "NOT"
    BY <1>3, <1>4, <1>5, <1>8, <2>4, booleanNotExcused
  <2>5. CASE op = "TAKE_ADDRESS"
    BY <1>4, <1>8, <2>5, getAddressOfValueExcused
  <2>6. CASE op = "PTR_DEREFERENCE"
    <3>1. Type_is_pointer(l.type)
      BY <1>3, <1>5, <1>8, <2>6, OperandIs
    <3> QED
      BY <1>4, <1>8, <2>6, <3>1, getValueAtAddressExcused
  <2> QED
    BY <2>3, <2>4, <2>5, <2>6 DEF UnaryOps
<1> QED
  BY <1>7, <1>8

LEMMA CastExcused ==
  ASSUME TypesInv, NEW l, NEW t \in AllTypes, Sound(l)
  PROVE  Excused(codegenCast(l, t), "CAST", l.type, t)
<1> DEFINE scope == scope_get_Type_from_binop("CAST", l.scope, t)
           res == CASE scope = NoType -> Ends("refused")
                    [] OTHER -> cast(l, t)
           f == [res EXCEPT !.scope = scope, !.const = l.const]
           kind == get_llvm_type(t).kind
<1> USE DEF TypesInv
<1>1. codegenCast(l, t) = f
  BY DEF codegenCast
<1>2. /\ scope = NoType => res = Ends("refused")
      /\ scope # NoType => res = cast(l, t)
  OBVIOUS
<1>3. Sensible("CAST", l.type, t) => Sized(t)
  BY SensibleIs
<1>4. \/ kind \in Failures /\ cast(l, t) = Ends(kind)
      \/ cast(l, t) = Ends("refused")
      \/ \E v, w : cast(l, t) = allocate_stack_for_temp(t, v, w)
  BY DEF cast
<1> HIDE DEF scope, res, kind
<1>5. Shape(res) => f.how = res.how
  BY Except
<1> HIDE DEF f
<1>6. CASE res = Ends("refused")
  <2>1. Shape(res) /\ res.how = "refused"
    BY <1>6, EndsMade DEF Hows
  <2>2. f.how = "refused"
    BY <1>5, <2>1
  <2>3. Excused(f, "CAST", l.type, t)
    BY <2>2, EndsExcused DEF Hows, Stops
  <2> QED
    BY <1>1, <2>3
<1>7. CASE kind \in Failures /\ res = Ends(kind)
  <2>1. Shape(res) /\ res.how = kind
    BY <1>7, EndsMade DEF Hows, Failures
  <2>2. f.how = kind
    BY <1>5, <2>1
  <2>3. ~Sized(t)
    BY <1>7, SizedIs DEF kind
  <2>4. Excused(f, "CAST", l.type, t)
    BY <1>3, <1>7, <2>2, <2>3, FailureExcused DEF kind
  <2> QED
    BY <1>1, <2>4
<1>8. CASE \E v, w : res = allocate_stack_for_temp(t, v, w)
  <2>1. PICK v, w : res = allocate_stack_for_temp(t, v, w)
    BY <1>8
  <2>2. Shape(res)
    BY <2>1, AllocateEnds
  <2>3. f.how = allocate_stack_for_temp(t, v, w).how
    BY <1>5, <2>1, <2>2
  <2>4. Excused(f, "CAST", l.type, t)
    BY <1>3, <2>3, AllocateExcused
  <2> QED
    BY <1>1, <2>4
<1> QED
  BY <1>2, <1>4, <1>6, <1>7, <1>8

\* A field of a struct, or of what a pointer points at.
LEMMA FieldExcused ==
  ASSUME TypesInv, NEW l, NEW field, NEW c, NEW x, Sound(l)
  PROVE  Excused([codegen_FieldAccess(l, field, c) EXCEPT !.scope = x], "field", l.type, l.type)
<1> DEFINE base == Type_get_base_type(l.type)
           object == IF Type_is_pointer(base) THEN Type_get_pointee_type(base) ELSE base
           res == codegen_FieldAccess(l, field, c)
           f == [res EXCEPT !.scope = x]
           failing == get_llvm_type(object).kind
           there == Type_is_typedef(object) /\ FieldPlaces(object, field) # {}
           t == Type_get_TypeField(object, field).type
<1> USE DEF TypesInv
<1>1. \/ res = Ends("refused")
      \/ failing \in Failures /\ res = Ends(failing)
      \/ there /\ failing \notin Failures /\ \E v, w : res = allocate_stack_for_temp(t, v, w)
  BY DEF codegen_FieldAccess
<1>2. l.type \in AllTypes
  BY DEF Sound
<1>3. /\ base \in AllTypes /\ Type_get_base_type(base) = base
      /\ Type_is_pointer(base) <=> Type_is_pointer(l.type)
  BY <1>2, BaseType, PointerIs
<1>4. object \in AllTypes
  <2> HIDE DEF base
  <2> QED
    BY <1>3, PointeeIs
<1>5. Sensible("field", l.type, l.type) => failing \notin Failures
  <2>1. CASE Type_is_pointer(l.type)
    <3>1. object = Pointee(l.type)
      BY <1>2, <1>3, <2>1, PointeeIs DEF Pointee
    <3>2. Sensible("field", l.type, l.type) => Sized(object)
      BY <2>1, <3>1, SensibleIs
    <3> HIDE DEF object
    <3> QED
      BY <1>4, <3>2, SizedIs
  <2>2. CASE ~Type_is_pointer(l.type)
    <3>1. get_llvm_type(object) = get_llvm_type(l.type)
      BY <1>3, <2>2 DEF get_llvm_type
    <3>2. CASE Type_is_void(l.type)
      <4>1. get_llvm_type(l.type).kind = "void"
        BY <1>2, <3>2, LLVMOfType
      <4> QED
        BY <3>1, <4>1 DEF Failures
    <3>3. CASE ~Type_is_void(l.type)
      <4>1. get_llvm_type(l.type).kind \notin Failures
        BY <3>3 DEF Sound
      <4> QED
        BY <3>1, <4>1
    <3> QED
      BY <3>2, <3>3
  <2> QED
    BY <2>1, <2>2
<1>6. ASSUME there, failing \notin Failures PROVE t \in AllTypes /\ Sized(t)
  <2> HIDE DEF object
  <2>1. Type_get_base_type(object) = object /\ ~Type_is_pointer(object)
    BY <1>4, <1>6, StructIs
  <2>2. object.name \in DOMAIN types /\ object.stars = 0 /\ object.stars \in Nat
    BY <1>4, <2>1, PointerIs, TypesAssumption DEF AllTypes, TypesAssumption
  <2>3. get_llvm_type(object) = LLVMOf[object.name]
    BY <2>1, <2>2 DEF get_llvm_type
  <2>4. types[object.name].kind = "typedef"
    BY <1>6, <2>2 DEF Type_is_typedef, KindOf
  <2>5. PICK i \in 1..Len(types[object.name].fields) :
          Type_get_TypeField(object, field) = types[object.name].fields[i]
    BY <1>6, FieldFound
  <2> QED
    BY <1>6, <2>2, <2>3, <2>4, <2>5, FieldsSized
<1> HIDE DEF object, res, failing, there, t
<1>7. Shape(res) => f.how = res.how
  BY Except
<1> HIDE DEF f
<1>8. CASE res = Ends("refused")
  <2>1. Shape(res) /\ res.how = "refused"
    BY <1>8, EndsMade DEF Hows
  <2>2. f.how = "refused"
    BY <1>7, <2>1
  <2>3. Excused(f, "field", l.type, l.type)
    BY <2>2, EndsExcused DEF Hows, Stops
  <2> QED
    BY <2>3 DEF f, res
<1>9. CASE failing \in Failures /\ res = Ends(failing)
  <2>1. Shape(res) /\ res.how = failing
    BY <1>9, EndsMade DEF Hows, Failures
  <2>2. f.how = failing
    BY <1>7, <2>1
  <2>3. ~Sized(object)
    BY <1>4, <1>9, SizedIs DEF failing
  <2>4. Excused(f, "field", l.type, l.type)
    BY <1>4, <1>5, <1>9, <2>2, <2>3, FailureExcused DEF failing
  <2> QED
    BY <2>4 DEF f, res
<1>10. CASE there /\ failing \notin Failures /\ \E v, w : res = allocate_stack_for_temp(t, v, w)
  <2>1. PICK v, w : res = allocate_stack_for_temp(t, v, w)
    BY <1>10
  <2>2. t \in AllTypes /\ Sized(t)
    BY <1>6, <1>10
  <2>3. Shape(res)
    BY <2>1, <2>2, AllocateEnds
  <2>4. f.how = allocate_stack_for_temp(t, v, w).how
    BY <1>7, <2>1, <2>3
  <2>5. Excused(f, "field", l.type, l.type)
    BY <2>2, <2>4, AllocateExcused
  <2> QED
    BY <2>5 DEF f, res
<1> QED
  BY <1>1, <1>8, <1>9, <1>10
-----------------------------------------------------------------------------
\* Expressions of one node.
LEMMA AtomicExcused ==
  ASSUME TypesInv, NEW t \in AllTypes, NEW v, NEW w, NEW f,
         LET res == allocate_stack_for_temp(t, v, w) IN
           \/ f = [res EXCEPT !.scope = t, !.const = TRUE] /\ Sized(t)
           \/ f = [res EXCEPT !.scope = t, !.type = t]
           \/ f = [res EXCEPT !.scope = t, !.type = t, !.const = TRUE]
  PROVE  Excused(f, "atom", f.type, f.type)
<1> DEFINE res == allocate_stack_for_temp(t, v, w)
<1> USE DEF TypesInv
<1>1. Shape(res)
  BY AllocateEnds
<1>2. \/ f = [res EXCEPT !.scope = t, !.const = TRUE] /\ Sized(t)
      \/ f = [res EXCEPT !.scope = t, !.type = t]
      \/ f = [res EXCEPT !.scope = t, !.type = t, !.const = TRUE]
  OBVIOUS
<1> HIDE DEF res
<1>3. CASE f = [res EXCEPT !.scope = t, !.const = TRUE] /\ Sized(t)
  <2>1. f.how = res.how
    BY <1>1, <1>3, Except
  <2> QED
    BY <1>3, <2>1, AllocateExcused DEF res
<1>4. CASE \/ f = [res EXCEPT !.scope = t, !.type = t]
           \/ f = [res EXCEPT !.scope = t, !.type = t, !.const = TRUE]
  <2>1. f.how = res.how /\ f.type = t
    <3>1. CASE f = [res EXCEPT !.scope = t, !.type = t]
      BY <1>1, <3>1 DEF Shape
    <3>2. CASE f = [res EXCEPT !.scope = t, !.type = t, !.const = TRUE]
      BY <1>1, <3>2 DEF Shape
    <3> QED
      BY <1>4, <3>1, <3>2
  <2>2. Sensible("atom", t, t) => Sized(t)
    BY SensibleIs
  <2>3. Excused(f, "atom", t, t)
    BY <2>1, <2>2, AllocateExcused DEF res
  <2> QED
    BY <2>1, <2>3
<1> QED
  BY <1>2, <1>3, <1>4

\* The types of literals have sizes.
LEMMA LiteralSized ==
  ASSUME Table, WellFounded, NEW b \in Builtins \ {"void"}
  PROVE  Type(b) \in AllTypes /\ Sized(Type(b))
<1>1. b \in DOMAIN types /\ types[b].kind # "alias"
  BY DEF Table, Builtins
<1>2. Type(b) \in AllTypes
  BY <1>1, TypesAssumption DEF Type, AllTypes, TypesAssumption
<1>3. Type_get_base_type(Type(b)) = Type(b)
  <2>1. Type_get_base_type(Type(b)) = BaseOf[b]
    BY DEF Type_get_base_type, Type
  <2> QED
    BY <1>1, <2>1, BaseIs
<1>4. get_llvm_type(Type(b)) = LLVMOf[b]
  BY <1>3 DEF get_llvm_type, Type
<1>5. LLVMOf[b].kind = "int"
  BY <1>1, KindLLVM, LLVMParts
<1> QED
  BY <1>2, <1>4, <1>5 DEF Sized

\* The string of the language is a pointer.
LEMMA StringIs ==
  ASSUME Table, WellFounded
  PROVE  /\ get_llvm_type(Type("string")) = PointerType
         /\ ~Type_is_typedef(Type_get_base_type(Type("char"))) /\ Type_get_size(Type("char")) > 0
<1> DEFINE p == Type_get_ptr_type(Type("char"))
           c == Type("char")
<1>1. get_llvm_type(Type("string")) = PointerType
  <2>1. "string" \in DOMAIN types /\ types["string"].kind = "alias" /\ types["string"].of = p
    BY EntryParts DEF Table
  <2>2. p.stars = 1
    BY DEF Type_get_ptr_type, Type
  <2> HIDE DEF p
  <2>3. BaseOf["string"] = p
    BY <2>1, <2>2, BaseIs
  <2>4. Type_get_base_type(Type("string")) = BaseOf["string"]
    BY DEF Type_get_base_type, Type
  <2> QED
    BY <2>2, <2>3, <2>4 DEF get_llvm_type
<1>2. "char" \in DOMAIN types /\ types["char"].kind = "builtin" /\ types["char"].size = Width["char"]
  BY DEF Table, Builtins
<1>3. c.stars = 0 /\ c.name = "char"
  BY DEF Type
<1>4. Type_get_base_type(c) = c
  <2>1. BaseOf["char"] = c
    BY <1>2, BaseIs
  <2> HIDE DEF c
  <2> QED
    BY <1>3, <2>1 DEF Type_get_base_type
<1> HIDE DEF c
<1>5. KindOf(c) = "builtin"
  BY <1>2, <1>3 DEF KindOf
<1>6. Type_get_size(c) = Width["char"] /\ ~Type_is_typedef(c)
  BY <1>2, <1>3, <1>4, <1>5 DEF Type_get_size, Type_is_pointer, Type_is_typedef
<1>7. Width["char"] \in Nat /\ Width["char"] > 1
  BY TypesAssumption DEF TypesAssumption, Builtins
<1> QED
  BY <1>1, <1>4, <1>6, <1>7 DEF c

LEMMA ConstantsExcused ==
  ASSUME TypesInv, NEW a \in Constants
  PROVE  Excused(a, "atom", a.type, a.type)
<1>1. CASE \E w \in {Width[b] : b \in Literals} : \E n \in Samples[w] : a = Number(w, n)
  <2>1. PICK b \in Literals : \E n \in Samples[Width[b]] : a = Number(Width[b], n)
    BY <1>1
  <2> PICK n \in Samples[Width[b]] : a = Number(Width[b], n)
    BY <2>1
  <2>2. b \in Builtins /\ b # "void"
    BY DEF Literals, Builtins
  <2> DEFINE d == CHOOSE k \in Builtins : Width[k] = Width[b]
             t == Type_int_type(Width[b])
  <2>3. d \in Builtins /\ Width[d] = Width[b] /\ t = Type(d)
    BY <2>2 DEF Type_int_type
  <2>4. d # "void"
    BY <2>2, <2>3, TypesAssumption DEF TypesAssumption
  <2> HIDE DEF d
  <2>5. t \in AllTypes /\ Sized(t)
    BY <2>3, <2>4, LiteralSized DEF TypesInv
  <2> DEFINE v == Plain(n)
             w == Meaning(t, Plain(n))
  <2>6. a = [allocate_stack_for_temp(t, v, w) EXCEPT !.scope = t, !.const = TRUE]
    BY DEF Number
  <2> HIDE DEF t, v, w
  <2> QED
    BY <2>5, <2>6, AtomicExcused
<1>2. CASE a = Null
  <2> DEFINE t == Type_get_ptr_type(Type("void"))
  <2>1. t \in AllTypes
    BY NamedTypes
  <2>2. Type_is_pointer(t)
    <3>1. t.name = "void" /\ t.stars = 1
      BY NamedTypes
    <3> HIDE DEF t
    <3> QED
      BY <2>1, <3>1, VoidIs DEF TypesInv
  <2>3. a = [allocate_stack_for_temp(t, Plain(0), Plain(0)) EXCEPT !.scope = t, !.const = TRUE]
    BY <1>2 DEF Null
  <2> HIDE DEF t
  <2>4. Sized(t)
    BY <2>1, <2>2, SizedIs DEF TypesInv
  <2> QED
    BY <2>1, <2>3, <2>4, AtomicExcused
<1>3. CASE a = String
  <2> DEFINE t == Type(names["string"])
             char == Type(names["char"])
             base == Type_get_base_type(char)
             size == IF Type_is_typedef(base) THEN SizeOf[base.name] ELSE Type_get_size(char)
             made == get_llvm_type(t) = PointerType /\ size > 0
  <2>1. t \in AllTypes
    BY NamedTypes
  <2>2. CASE made
    <3>1. a = [allocate_stack_for_temp(t, Plain(1), Plain(1)) EXCEPT !.scope = t, !.type = t, !.const = TRUE]
      BY <1>3, <2>2 DEF String, scope_get_Type_from_name
    <3> HIDE DEF t
    <3> QED
      BY <2>1, <3>1, AtomicExcused
  <2>3. CASE ~made
    <3>1. a = [Ends("undefined") EXCEPT !.scope = t, !.type = t, !.const = TRUE]
      BY <1>3, <2>3 DEF String, scope_get_Type_from_name
    <3>2. a.how = "undefined"
      <4>1. "undefined" \in Hows \ {"ok"}
        BY DEF Hows
      <4> HIDE DEF t
      <4> QED
        BY <3>1, <4>1, EndsMade, Except
    <3>3. Shadowed(LookedUp)
      <4>1. SUFFICES ASSUME ~Shadowed(LookedUp) PROVE FALSE
        OBVIOUS
      <4>2. names["char"] = "char" /\ names["string"] = "string"
        BY <4>1, NotShadowed
      <4> QED
        BY <2>3, <4>2, StringIs DEF TypesInv
    <3> QED
      BY <3>2, <3>3, StopExcused DEF Stops
  <2> QED
    BY <2>2, <2>3
<1> QED
  BY <1>1, <1>2, <1>3 DEF Constants

\* What needs a size stops only at a type without one, or as the expression itself does.
LEMMA NeedsExcused ==
  ASSUME TypesInv, NEW t \in AllTypes, NEW e,
         Sized(t) => Excused(e, "atom", e.type, e.type)
  PROVE  Excused(Needs(t, e), "atom", Needs(t, e).type, Needs(t, e).type)
<1> DEFINE kind == get_llvm_type(t).kind
           f == Needs(t, e)
<1> USE DEF TypesInv
<1>1. /\ kind \in Failures => f = [Ends(kind) EXCEPT !.type = t]
      /\ kind = "void" => f = [Ends("undefined") EXCEPT !.type = t]
      /\ kind \notin Failures \cup {"void"} => f = e
  BY DEF Needs, Failures
<1>2. \A how \in Hows \ {"ok"} : LET g == [Ends(how) EXCEPT !.type = t] IN g.how = how /\ g.type = t
  <2>1. ASSUME NEW how \in Hows \ {"ok"}
        PROVE  LET g == [Ends(how) EXCEPT !.type = t] IN g.how = how /\ g.type = t
    <3>1. Shape(Ends(how)) /\ Ends(how).how = how
      BY EndsMade
    <3> QED
      BY <3>1 DEF Shape
  <2> QED
    BY <2>1
<1>3. Sized(t) <=> kind \notin Failures \cup {"void"}
  BY SizedIs
<1>4. Sensible("atom", t, t) => Sized(t)
  BY SensibleIs
<1> HIDE DEF f, kind
<1>5. CASE kind \in Failures
  <2>1. f.how = kind /\ f.type = t
    BY <1>1, <1>2, <1>5 DEF Hows, Failures
  <2>2. Excused(f, "atom", t, t)
    BY <1>3, <1>4, <1>5, <2>1, FailureExcused DEF kind
  <2> QED
    BY <2>1, <2>2 DEF f
<1>6. CASE kind = "void"
  <2>1. "undefined" \in Hows \ {"ok"}
    BY DEF Hows
  <2>2. f = [Ends("undefined") EXCEPT !.type = t]
    BY <1>1, <1>6
  <2>3. f.how = "undefined" /\ f.type = t
    BY <1>2, <2>1, <2>2
  <2>4. Excused(f, "atom", t, t)
    BY <1>3, <1>4, <1>6, <2>3, StopExcused DEF Stops
  <2> QED
    BY <2>3, <2>4 DEF f
<1>7. CASE kind \notin Failures \cup {"void"}
  BY <1>1, <1>3, <1>7 DEF f
<1> QED
  BY <1>5, <1>6, <1>7

\* The int of the language is an int64.
LEMMA IntIs ==
  ASSUME Table, WellFounded
  PROVE  get_llvm_type(Type("int")) = IntType(Width["int64"])
<1>1. "int" \in DOMAIN types /\ types["int"].kind = "alias" /\ types["int"].of = Type("int64")
  BY EntryParts DEF Table
<1>2. "int64" \in DOMAIN types /\ types["int64"].kind # "alias"
  BY DEF Table, Builtins
<1>3. BaseOf["int"] = Type("int64")
  <2>1. Type("int64").stars = 0 /\ Type("int64").name = "int64"
    BY DEF Type
  <2>2. BaseOf["int"] = BaseOf["int64"]
    BY <1>1, <2>1, BaseIs
  <2> QED
    BY <1>2, <2>2, BaseIs
<1>4. Type_get_base_type(Type("int")) = BaseOf["int"]
  BY DEF Type_get_base_type, Type
<1>5. get_llvm_type(Type("int")) = LLVMOf["int64"]
  BY <1>3, <1>4 DEF get_llvm_type, Type
<1> QED
  BY <1>2, <1>5, KindLLVM DEF Builtins

LEMMA SizeofExcused ==
  ASSUME TypesInv, NEW t \in AllTypes
  PROVE  Excused(Sizeof(t), "atom", Sizeof(t).type, Sizeof(t).type)
<1> DEFINE int == scope_get_Type_from_name("int")
           bytes == Bytes(get_llvm_type(t))
           v == Plain(bytes % TwoTo[Width["int64"]])
           w == Wrapped(Type("int64"), bytes)
           res == allocate_stack_for_temp(int, v, w)
           size == [res EXCEPT !.scope = Type("int64")]
           stop == [Ends("undefined") EXCEPT !.type = t]
           e == IF get_llvm_type(int) = IntType(Width["int64"]) THEN size ELSE stop
<1> USE DEF TypesInv
<1>1. Sizeof(t) = Needs(t, e)
  BY DEF Sizeof
<1>2. int \in AllTypes
  BY NamedTypes DEF scope_get_Type_from_name
<1>3. ASSUME get_llvm_type(int) = IntType(Width["int64"])
      PROVE  Excused(size, "atom", size.type, size.type)
  <2> HIDE DEF int, v, w
  <2>1. Sized(int)
    BY <1>3, LLVMParts DEF Sized
  <2>2. Shape(res)
    BY <1>2, AllocateEnds
  <2>3. size.how = res.how
    <3> HIDE DEF res
    <3> QED
      BY <2>2, Except
  <2> HIDE DEF size
  <2> QED
    BY <1>2, <2>1, <2>3, AllocateExcused
<1>4. ASSUME get_llvm_type(int) # IntType(Width["int64"])
      PROVE  Excused(stop, "atom", stop.type, stop.type)
  <2>1. Shadowed(LookedUp)
    <3>1. SUFFICES ASSUME ~Shadowed(LookedUp) PROVE FALSE
      OBVIOUS
    <3>2. int = Type("int")
      BY <3>1, NotShadowed DEF scope_get_Type_from_name
    <3> QED
      BY <1>4, <3>2, IntIs
  <2>2. stop.how = "undefined"
    <3>1. "undefined" \in Hows \ {"ok"}
      BY DEF Hows
    <3> QED
      BY <3>1, EndsMade, Except
  <2> HIDE DEF stop
  <2> QED
    BY <2>1, <2>2, StopExcused DEF Stops
<1> HIDE DEF int, size, stop
<1>5. Excused(e, "atom", e.type, e.type)
  BY <1>3, <1>4
<1> HIDE DEF e
<1> QED
  BY <1>1, <1>5, NeedsExcused

LEMMA NewExcused ==
  ASSUME TypesInv, NEW t \in AllTypes, t.stars < MaxStars
  PROVE  Excused(New(t), "atom", New(t).type, New(t).type)
<1> DEFINE p == Type_get_ptr_type(t)
           void == Type_get_ptr_type(Type("void"))
           res == allocate_stack_for_temp(p, Plain(1), Plain(1))
           e == [res EXCEPT !.scope = void, !.new = TRUE]
<1> USE DEF TypesInv
<1>1. New(t) = Needs(t, e)
  BY DEF New
<1>2. p \in AllTypes /\ Type_is_pointer(p)
  BY PtrTypeIs
<1> HIDE DEF p
<1>3. Sized(p)
  BY <1>2, SizedIs
<1>4. Shape(res)
  BY <1>2, AllocateEnds
<1>5. e.how = res.how
  <2> HIDE DEF res, void
  <2> QED
    BY <1>4, Except
<1> HIDE DEF e
<1>6. Excused(e, "atom", e.type, e.type)
  BY <1>2, <1>3, <1>5, AllocateExcused
<1> QED
  BY <1>1, <1>6, NeedsExcused

LEMMA AtomExcused ==
  ASSUME TypesInv, NEW a \in Atoms
  PROVE  Excused(a, "atom", a.type, a.type)
<1>1. CASE a \in Constants
  BY <1>1, ConstantsExcused
<1>2. CASE a = VoidCall
  BY <1>2, VoidCallSound DEF Excused, Stops
<1>3. CASE a \in Variables(Typenames)
  <2>1. PICK t \in Typenames : \E c \in ContentsOf(t) : a = Variable(t, c)
    BY <1>3 DEF Variables
  <2>2. PICK c \in ContentsOf(t) : a = Variable(t, c)
    BY <2>1
  <2> DEFINE w == Meaning(t, c)
  <2>3. a = [allocate_stack_for_temp(t, c, w) EXCEPT !.scope = t, !.type = t]
    BY <2>2 DEF Variable
  <2> HIDE DEF w
  <2>4. t \in AllTypes
    BY TypenamesAre
  <2> QED
    BY <2>3, <2>4, AtomicExcused
<1>4. CASE \E t \in Typenames : a = Sizeof(t)
  BY <1>4, TypenamesAre, SizeofExcused
<1>5. CASE \E t \in Typenames : a = New(t)
  BY <1>5, TypenamesAre, NewExcused
<1> QED
  BY <1>1, <1>2, <1>3, <1>4, <1>5 DEF Atoms

-----------------------------------------------------------------------------
\* What is said of types and of operands stays where the table and the scope do.
LEMMA SameCircular == ASSUME types' = types PROVE Circular' <=> Circular
<1>1. \A n, i : Within(n, i)' = Within(n, i)
  BY SameBase DEF Within, Type_get_base_type
<1> QED
  BY <1>1 DEF Circular, Type

LEMMA SameSensible ==
  ASSUME types' = types, NEW op, NEW lhs, NEW rhs
  PROVE  Sensible(op, lhs, rhs)' <=> Sensible(op, lhs, rhs)
<1>1. \A t : Type_get_base_type(t)' = Type_get_base_type(t)
  BY SameBase DEF Type_get_base_type
<1>2. \A t : Type_is_pointer(t)' = Type_is_pointer(t)
  BY <1>1 DEF Type_is_pointer, KindOf
<1>3. \A t : Type_is_integer(t)' = Type_is_integer(t)
  BY <1>1 DEF Type_is_integer, IsBuiltin, Type
<1>4. \A t : Pointee(t)' = Pointee(t)
  BY <1>1 DEF Pointee, Type_get_pointee_type
<1>5. \A t : get_llvm_type(t)' = get_llvm_type(t)
  BY SameTypes
<1>6. \A s, t : Type_eq(s, t)' = Type_eq(s, t)
  BY SameTypes
<1>7. \A t : Sized(t)' = Sized(t) /\ Scalar(t)' = Scalar(t)
  BY <1>5 DEF Sized, Scalar
<1> QED
  BY <1>2, <1>3, <1>4, <1>6, <1>7 DEF Sensible, Type

\* How the compiler ends is excused by the operation that made it.
Ending == /\ phase \in Stops => Shadowed(LookedUp) \/ ~Sensible(last.op, last.lhs, last.rhs)
          /\ phase = "endless" => Circular

LEMMA BecomesEnding ==
  ASSUME NEW e, NEW op, NEW lhs, NEW rhs, Becomes(e, op, lhs, rhs), Excused(e, op, lhs, rhs)
  PROVE  Ending'
<1>1. types' = types /\ names' = names
  BY DEF Becomes
<1>2. CASE e.how = "ok"
  <2>1. phase' = "expression"
    BY <1>2 DEF Becomes
  <2> QED
    BY <2>1 DEF Ending, Stops
<1>3. CASE e.how # "ok"
  <2>1. phase' = e.how /\ last' = [op |-> op, lhs |-> lhs, rhs |-> rhs]
    BY <1>3 DEF Becomes
  <2>2. last'.op = op /\ last'.lhs = lhs /\ last'.rhs = rhs
    BY <2>1
  <2>3. phase' = "endless" => Circular'
    BY <1>1, <2>1, SameCircular DEF Excused
  <2>4. ASSUME phase' \in Stops
        PROVE  Shadowed(LookedUp)' \/ ~Sensible(last.op, last.lhs, last.rhs)'
    <3>1. Shadowed(LookedUp) \/ ~Sensible(op, lhs, rhs)
      BY <2>1, <2>4 DEF Excused
    <3>2. Shadowed(LookedUp)' <=> Shadowed(LookedUp)
      BY <1>1 DEF Shadowed
    <3>3. Sensible(op, lhs, rhs)' <=> Sensible(op, lhs, rhs)
      BY <1>1, SameSensible
    <3>4. Sensible(last.op, last.lhs, last.rhs)' <=> Sensible(op, lhs, rhs)'
      BY <2>2
    <3> QED
      BY <3>1, <3>2, <3>3, <3>4
  <2> QED
    BY <2>3, <2>4 DEF Ending, Stops
<1> QED
  BY <1>2, <1>3

LEMMA StoresEnding ==
  ASSUME TypesInv, expr.how = "ok", NEW t \in AllTypes, NEW inferred, Stores(t, inferred)
  PROVE  Ending'
<1> DEFINE kind == get_llvm_type(t).kind
<1> USE DEF TypesInv
<1>1. \/ kind \in Failures /\ Becomes(Ends(kind), "store", t, expr.type)
      \/ Becomes(expr, "store", t, expr.type)
      \/ phase' = "stored"
  BY DEF Stores
<1>2. kind \in Failures => ~Sized(t)
  BY SizedIs
<1>3. Sensible("store", t, expr.type) => Sized(t)
  BY SensibleIs
<1> HIDE DEF kind
<1>4. CASE kind \in Failures /\ Becomes(Ends(kind), "store", t, expr.type)
  <2>1. Ends(kind).how = kind
    BY <1>4, EndsMade DEF Hows, Failures
  <2>2. Excused(Ends(kind), "store", t, expr.type)
    BY <1>2, <1>3, <1>4, <2>1, FailureExcused DEF kind
  <2> QED
    BY <1>4, <2>2, BecomesEnding
<1>5. CASE Becomes(expr, "store", t, expr.type)
  <2>1. Excused(expr, "store", t, expr.type)
    BY DEF Excused, Stops
  <2> QED
    BY <1>5, <2>1, BecomesEnding
<1>6. CASE phase' = "stored"
  BY <1>6 DEF Ending, Stops
<1> QED
  BY <1>1, <1>4, <1>5, <1>6

LEMMA EndsHow == \A how \in Hows \ {"ok"} : Ends(how).how = how
BY EndsMade

\* Every operation ends excused.
LEMMA NextEnding == IInv /\ Ending /\ [Next]_vars => Ending'
<1> SUFFICES ASSUME IInv, Ending, [Next]_vars PROVE Ending'
  OBVIOUS
<1>1. TypesInv
  BY DEF IInv
<1>2. phase = "expression" => expr.how = "ok" /\ Sound(expr)
  BY DEF IInv
<1>3. /\ Ends("refused").how = "refused" /\ Ends("dangling").how = "dangling"
      /\ Ends("undefined").how = "undefined"
  BY EndsHow DEF Hows
<1>4. CASE Declare
  <2>1. phase' = "refused" \/ phase' = "declare"
    BY <1>4 DEF Declare, build_ScopeSymbol_for_type
  <2> QED
    BY <2>1 DEF Ending, Stops
<1>5. CASE Atom
  <2>1. PICK a \in Atoms : Becomes(a, "atom", a.type, a.type)
    BY <1>5 DEF Atom
  <2>2. Excused(a, "atom", a.type, a.type)
    BY <1>1, AtomExcused
  <2> QED
    BY <2>1, <2>2, BecomesEnding
<1>6. CASE Binary
  <2>1. PICK a \in Operands, op \in BinaryOps :
          \E pair \in {<<expr, a>>, <<a, expr>>} :
            /\ Defined(op, pair[1], pair[2])
            /\ Becomes(codegenBinaryOperator(op, pair[1], pair[2]), op, pair[1].type, pair[2].type)
    BY <1>6 DEF Binary
  <2>2. Sound(a) /\ Sound(expr)
    BY <1>1, <1>2, <1>6, OperandSound DEF Binary
  <2>3. CASE Becomes(codegenBinaryOperator(op, expr, a), op, expr.type, a.type)
    <3>1. Excused(codegenBinaryOperator(op, expr, a), op, expr.type, a.type)
      BY <1>1, <2>2, BinaryExcused
    <3> QED
      BY <2>3, <3>1, BecomesEnding
  <2>4. CASE Becomes(codegenBinaryOperator(op, a, expr), op, a.type, expr.type)
    <3>1. Excused(codegenBinaryOperator(op, a, expr), op, a.type, expr.type)
      BY <1>1, <2>2, BinaryExcused
    <3> QED
      BY <2>4, <3>1, BecomesEnding
  <2>5. \/ Becomes(codegenBinaryOperator(op, expr, a), op, expr.type, a.type)
        \/ Becomes(codegenBinaryOperator(op, a, expr), op, a.type, expr.type)
    BY <2>1
  <2> QED
    BY <2>3, <2>4, <2>5
<1>7. CASE Unary
  <2>1. PICK op \in UnaryOps :
          /\ op = "TAKE_ADDRESS" => expr.type.stars < MaxStars /\ expr.scope.stars < MaxStars
          /\ \E c : Becomes(codegenUnaryOperator(op, expr, c), op, expr.type, expr.type)
    BY <1>7 DEF Unary
  <2>2. PICK c : Becomes(codegenUnaryOperator(op, expr, c), op, expr.type, expr.type)
    BY <2>1
  <2>3. Sound(expr)
    BY <1>2, <1>7 DEF Unary
  <2>4. Excused(codegenUnaryOperator(op, expr, c), op, expr.type, expr.type)
    BY <1>1, <2>1, <2>3, UnaryExcused
  <2> QED
    BY <2>2, <2>4, BecomesEnding
<1>8. CASE Cast
  <2>1. PICK t \in Typenames : Becomes(codegenCast(expr, t), "CAST", expr.type, t)
    BY <1>8 DEF Cast
  <2>2. Sound(expr) /\ t \in AllTypes
    BY <1>1, <1>2, <1>8, TypenamesAre DEF Cast
  <2>3. Excused(codegenCast(expr, t), "CAST", expr.type, t)
    BY <1>1, <2>2, CastExcused
  <2> QED
    BY <2>1, <2>3, BecomesEnding
<1>9. CASE FieldAccess
  <2>1. PICK field \in Fields :
          \/ Becomes(Ends("dangling"), "field", expr.type, expr.type)
          \/ \E c : Becomes([codegen_FieldAccess(expr, field, c) EXCEPT
                               !.scope = scope_get_Type_from_FieldAccess(expr.scope, field)],
                            "field", expr.type, expr.type)
    BY <1>9 DEF FieldAccess
  <2>2. CASE Becomes(Ends("dangling"), "field", expr.type, expr.type)
    <3>1. Excused(Ends("dangling"), "field", expr.type, expr.type)
      BY <1>3 DEF Excused, Stops
    <3> QED
      BY <2>2, <3>1, BecomesEnding
  <2>3. ASSUME NEW c,
               Becomes([codegen_FieldAccess(expr, field, c) EXCEPT
                          !.scope = scope_get_Type_from_FieldAccess(expr.scope, field)],
                       "field", expr.type, expr.type)
        PROVE  Ending'
    <3>1. Sound(expr)
      BY <1>2, <1>9 DEF FieldAccess
    <3>2. Excused([codegen_FieldAccess(expr, field, c) EXCEPT
                     !.scope = scope_get_Type_from_FieldAccess(expr.scope, field)],
                  "field", expr.type, expr.type)
      BY <1>1, <3>1, FieldExcused
    <3> QED
      BY <2>3, <3>2, BecomesEnding
  <2> QED
    BY <2>1, <2>2, <2>3
<1>10. CASE LetInferred
  <2>1. expr.how = "ok" /\ Sound(expr)
    BY <1>2, <1>10 DEF LetInferred
  <2>2. \/ Becomes(Ends("refused"), "let", expr.type, expr.type)
        \/ expr.scope # NoType /\ Stores(expr.scope, TRUE)
    BY <1>10 DEF LetInferred
  <2>3. CASE Becomes(Ends("refused"), "let", expr.type, expr.type)
    <3>1. Excused(Ends("refused"), "let", expr.type, expr.type)
      BY <1>3 DEF Excused, Stops
    <3> QED
      BY <2>3, <3>1, BecomesEnding
  <2>4. CASE expr.scope # NoType /\ Stores(expr.scope, TRUE)
    <3>1. expr.scope \in AllTypes
      BY <2>1, <2>4 DEF Sound
    <3> QED
      BY <1>1, <2>1, <2>4, <3>1, StoresEnding
  <2> QED
    BY <2>2, <2>3, <2>4
<1>11. CASE Store
  <2>1. PICK t \in Typenames : Stores(t, FALSE)
    BY <1>11 DEF Store
  <2>2. expr.how = "ok"
    BY <1>2, <1>11 DEF Store
  <2>3. t \in AllTypes
    BY <1>1, TypenamesAre
  <2> QED
    BY <1>1, <2>1, <2>2, <2>3, StoresEnding
<1>12. CASE Global
  <2>1. PICK t \in Typenames :
          \/ Becomes(Ends("refused"), "global", t, expr.type)
          \/ get_llvm_type(t) # expr.cg /\ Becomes(Ends("undefined"), "global", t, expr.type)
          \/ Stores(t, FALSE)
    BY <1>12 DEF Global
  <2>2. expr.how = "ok" /\ Sound(expr) /\ t \in AllTypes
    BY <1>1, <1>2, <1>12, TypenamesAre DEF Global
  <2>3. CASE Becomes(Ends("refused"), "global", t, expr.type)
    <3>1. Excused(Ends("refused"), "global", t, expr.type)
      BY <1>3 DEF Excused, Stops
    <3> QED
      BY <2>3, <3>1, BecomesEnding
  <2>4. CASE get_llvm_type(t) # expr.cg /\ Becomes(Ends("undefined"), "global", t, expr.type)
    <3>1. ~Sensible("global", t, expr.type)
      <4>1. SUFFICES ASSUME Sensible("global", t, expr.type) PROVE FALSE
        OBVIOUS
      <4>2. Type_eq(t, expr.type) /\ Sized(t)
        BY <4>1, SensibleIs
      <4>3. expr.type \in AllTypes
        BY <2>2 DEF Sound
      <4>4. get_llvm_type(t) = get_llvm_type(expr.type)
        BY <1>1, <2>2, <4>2, <4>3, EqLLVM DEF TypesInv
      <4>5. Sized(expr.type)
        BY <4>2, <4>4 DEF Sized
      <4>6. ~Type_is_void(expr.type)
        BY <1>1, <4>3, <4>5, SizedIs DEF TypesInv
      <4> QED
        BY <2>2, <2>4, <4>4, <4>6 DEF Sound
    <3>2. Excused(Ends("undefined"), "global", t, expr.type)
      BY <1>3, <3>1 DEF Excused, Stops
    <3> QED
      BY <2>4, <3>2, BecomesEnding
  <2>5. CASE Stores(t, FALSE)
    BY <1>1, <2>2, <2>5, StoresEnding
  <2> QED
    BY <2>1, <2>3, <2>4, <2>5
<1>13. CASE UNCHANGED vars
  <2>1. UNCHANGED <<types, names, phase, last>>
    BY <1>13 DEF vars
  <2>2. Circular' <=> Circular
    BY <2>1, SameCircular
  <2>3. Shadowed(LookedUp)' <=> Shadowed(LookedUp)
    BY <2>1 DEF Shadowed
  <2>4. Sensible(last.op, last.lhs, last.rhs)' <=> Sensible(last.op, last.lhs, last.rhs)
    <3> DEFINE op == last.op   lhs == last.lhs   rhs == last.rhs
    <3>1. \A o, l, r : Sensible(o, l, r)' <=> Sensible(o, l, r)
      BY <2>1, SameSensible
    <3> QED
      BY <2>1, <3>1
  <2> QED
    BY <2>1, <2>2, <2>3, <2>4 DEF Ending
<1> QED
  BY <1>4, <1>5, <1>6, <1>7, <1>8, <1>9, <1>10, <1>11, <1>12, <1>13 DEF Next

\* Whatever types are declared, unless bool, char, int, int64 or string are declared again,
\* operands of sensible types never stop the compiler by an assertion, a part it lacks or
\* instructions without a meaning (cg-operator.c, cg-helpers.c); and only a struct with a
\* field of its own type sends get_llvm_type round for ever.
THEOREM Generated == Spec => []SensibleIsGenerated
<1>1. InitExpressions => Ending
  BY DEF InitExpressions, Init, Ending, Stops
<1>2. Ending => SensibleIsGenerated
  BY DEF Ending, Stops, Circular, Within, SensibleIsGenerated
<1> QED
  BY <1>1, <1>2, InitIInv, Inductive, NextEnding, PTL DEF Spec
-----------------------------------------------------------------------------
(* Numbers modulo a power of two. *)

\* A function computed at a number from what it is at the one before exists.
Counts(f, n, a, h) == f[0] = a /\ \A i \in 1..n : f[i] = h[<<i, f[i - 1]>>]
LEMMA Counting ==
  ASSUME NEW n \in Nat, NEW V, NEW a \in V, NEW h, \A i \in 1..n : \A v \in V : h[<<i, v>>] \in V
  PROVE  \E f \in [0..n -> V] : Counts(f, n, a, h)
<1> DEFINE Right(f, m) == f[0] = a /\ \A i \in 1..n : i <= m => f[i] = h[<<i, f[i - 1]>>]
           G == {m \in Nat : \E f \in [0..n -> V] : Right(f, m)}
           S == 0..n
           id == [m \in S |-> m]
<1>1. ASSUME NEW m \in S, \A k \in S : id[k] < id[m] => k \in G
      PROVE  m \in G
  <2>1. CASE m = 0
    <3>1. [i \in 0..n |-> a] \in [0..n -> V] /\ Right([i \in 0..n |-> a], 0)
      OBVIOUS
    <3> QED
      BY <2>1, <3>1
  <2>2. CASE m # 0
    <3>1. m - 1 \in S /\ id[m - 1] < id[m] /\ m \in 1..n
      BY <2>2
    <3>2. m - 1 \in G
      BY <1>1, <3>1
    <3>3. PICK f \in [0..n -> V] : Right(f, m - 1)
      BY <3>2
    <3> DEFINE g == [i \in 0..n |-> IF i = m THEN h[<<m, f[m - 1]>>] ELSE f[i]]
    <3>4. h[<<m, f[m - 1]>>] \in V
      BY <3>1
    <3>5. g \in [0..n -> V]
      BY <3>4
    <3>6. \A i \in 0..n : g[i] = IF i = m THEN h[<<m, f[m - 1]>>] ELSE f[i]
      OBVIOUS
    <3> HIDE DEF g
    <3>7. ASSUME NEW i \in 1..n, i <= m PROVE g[i] = h[<<i, g[i - 1]>>]
      <4>1. i - 1 \in 0..n /\ i - 1 # m /\ i \in 0..n
        BY <3>1, <3>7
      <4>2. g[i - 1] = f[i - 1]
        BY <3>6, <4>1
      <4>3. i # m => i <= m - 1
        BY <3>1, <3>7
      <4> QED
        BY <3>3, <3>6, <4>1, <4>2, <4>3
    <3>8. g[0] = a
      BY <3>1, <3>3, <3>6
    <3> QED
      BY <3>5, <3>7, <3>8
  <2> QED
    BY <2>1, <2>2
<1>2. S \subseteq G
  <2>1. \A m \in S : id[m] \in Nat
    OBVIOUS
  <2> HIDE DEF G, id, S
  <2> QED
    BY <1>1, <2>1, ByRank
<1>3. n \in G
  <2> HIDE DEF G
  <2> QED
    BY <1>2
<1>4. PICK f \in [0..n -> V] : Right(f, n)
  BY <1>3
<1>5. Counts(f, n, a, h)
  BY <1>4 DEF Counts
<1> QED
  BY <1>5

\* It is computed in one way.
LEMMA CountingOnce ==
  ASSUME NEW n \in Nat, NEW h, NEW f, NEW g, NEW a,
         Counts(f, n, a, h), Counts(g, n, a, h)
  PROVE  f[n] = g[n]
<1> USE DEF Counts
<1> DEFINE S == 0..n
           G == {m \in S : f[m] = g[m]}
           id == [m \in S |-> m]
<1>1. ASSUME NEW m \in S, \A k \in S : id[k] < id[m] => k \in G
      PROVE  m \in G
  <2>1. CASE m = 0
    BY <2>1
  <2>2. CASE m # 0
    <3>1. m - 1 \in S /\ id[m - 1] < id[m] /\ m \in 1..n
      BY <2>2
    <3>2. f[m - 1] = g[m - 1]
      BY <1>1, <3>1
    <3> QED
      BY <3>1, <3>2
  <2> QED
    BY <2>1, <2>2
<1>2. S \subseteq G
  <2>1. \A m \in S : id[m] \in Nat
    OBVIOUS
  <2> HIDE DEF G, id, S
  <2> QED
    BY <1>1, <2>1, ByRank
<1> QED
  BY <1>2

LEMMA TwoToIs ==
  /\ TwoTo[0] = 1
  /\ \A n \in Nat : TwoTo[n] \in Nat \ {0} /\ TwoTo[n + 1] = 2 * TwoTo[n]
<1> DEFINE V == Nat \ {0}
           h == [p \in (Nat \ {0}) \X V |-> 2 * p[2]]
           Good(f, n) == f \in [0..n -> V] /\ Counts(f, n, 1, h)
           F(n) == CHOOSE f : Good(f, n)
           T == [n \in Nat |-> F(n)[n]]
<1>1. ASSUME NEW n \in Nat PROVE Good(F(n), n)
  <2>1. \A i \in 1..n : \A v \in V : h[<<i, v>>] \in V
    OBVIOUS
  <2>2. 1 \in V
    OBVIOUS
  <2>3. \E f \in [0..n -> V] : Counts(f, n, 1, h)
    <3> HIDE DEF h, V
    <3> QED
      BY <2>1, <2>2, Counting
  <2> QED
    BY <2>3
<1>2. ASSUME NEW n \in Nat PROVE T[n] \in V /\ F(n)[n] \in V
  <2>1. F(n) \in [0..n -> V] /\ n \in 0..n
    <3> DEFINE f == F(n)
    <3>1. Good(f, n)
      BY <1>1
    <3> HIDE DEF f, V, h
    <3>2. f \in [0..n -> V]
      BY <3>1
    <3> QED
      BY <3>2 DEF f
  <2> HIDE DEF F
  <2> QED
    BY <2>1
<1>3. T[0] = 1
  <2> HIDE DEF F
  <2> QED
    BY <1>1 DEF Counts
<1>4. ASSUME NEW n \in Nat PROVE T[n + 1] = 2 * T[n]
  <2>1. Good(F(n + 1), n + 1) /\ Good(F(n), n) /\ n + 1 \in Nat
    <3> HIDE DEF Good, F
    <3> QED
      BY <1>1
  <2> DEFINE f == F(n + 1)
             g == F(n)
  <2>2. T[n + 1] = f[n + 1] /\ T[n] = g[n]
    BY <2>1
  <2> HIDE DEF f, g, F, T
  <2>3. Counts(f, n, 1, h) /\ Counts(g, n, 1, h)
    <3>1. \A i \in 1..n : i \in 1..(n + 1)
      OBVIOUS
    <3>2. Good(f, n + 1) /\ Good(g, n)
      BY <2>1 DEF f, g
    <3> HIDE DEF h
    <3> QED
      BY <3>1, <3>2 DEF Counts
  <2>4. f[n] = g[n]
    <3> HIDE DEF h, Good
    <3> QED
      BY <2>3, CountingOnce
  <2>5. f[n + 1] = h[<<n + 1, f[n]>>] /\ f[n] \in V
    BY <2>1 DEF f, Counts
  <2> QED
    BY <2>2, <2>4, <2>5
<1>5. T = [n \in Nat |-> IF n = 0 THEN 1 ELSE 2 * T[n - 1]]
  <2> HIDE DEF F
  <2>1. T = [n \in Nat |-> T[n]]
    OBVIOUS
  <2> HIDE DEF T
  <2>2. ASSUME NEW n \in Nat PROVE T[n] = IF n = 0 THEN 1 ELSE 2 * T[n - 1]
    <3>1. n # 0 => n - 1 \in Nat /\ (n - 1) + 1 = n
      OBVIOUS
    <3> QED
      BY <1>3, <1>4, <3>1
  <2> QED
    BY <2>1, <2>2
<1>6. TwoTo = [n \in Nat |-> IF n = 0 THEN 1 ELSE 2 * TwoTo[n - 1]]
  <2> HIDE DEF T
  <2> QED
    BY <1>5 DEF TwoTo
<1> DEFINE G == {n \in Nat : TwoTo[n] \in V}
           id == [n \in Nat |-> n]
<1>7. ASSUME NEW n \in Nat, \A k \in Nat : id[k] < id[n] => k \in G
      PROVE  n \in G
  <2>1. CASE n = 0
    BY <1>6, <2>1
  <2>2. CASE n # 0
    <3>1. n - 1 \in Nat /\ id[n - 1] < id[n]
      BY <2>2
    <3>2. TwoTo[n - 1] \in V
      BY <1>7, <3>1
    <3>3. TwoTo[n] = 2 * TwoTo[n - 1]
      BY <1>6, <2>2
    <3> QED
      BY <3>2, <3>3
  <2> QED
    BY <2>1, <2>2
<1>8. Nat \subseteq G
  <2>1. \A m \in Nat : id[m] \in Nat
    OBVIOUS
  <2> HIDE DEF G, id
  <2> QED
    BY <1>7, <2>1, ByRank
<1>9. ASSUME NEW n \in Nat PROVE TwoTo[n + 1] = 2 * TwoTo[n]
  <2>1. n + 1 \in Nat /\ n + 1 # 0 /\ (n + 1) - 1 = n
    OBVIOUS
  <2> QED
    BY <1>6, <2>1
<1>10. TwoTo[0] = 1
  BY <1>6
<1> QED
  BY <1>8, <1>9, <1>10

LEMMA TwoToAdds == ASSUME NEW i \in Nat, NEW j \in Nat PROVE TwoTo[i + j] = TwoTo[i] * TwoTo[j]
<1> DEFINE G == {n \in Nat : TwoTo[i + n] = TwoTo[i] * TwoTo[n]}
           id == [n \in Nat |-> n]
<1>1. ASSUME NEW n \in Nat, \A k \in Nat : id[k] < id[n] => k \in G
      PROVE  n \in G
  <2>1. CASE n = 0
    <3>1. TwoTo[i] \in Nat /\ i + 0 = i /\ TwoTo[0] = 1
      BY TwoToIs
    <3> QED
      BY <2>1, <3>1
  <2>2. CASE n # 0
    <3>1. n - 1 \in Nat /\ id[n - 1] < id[n]
      BY <2>2
    <3> DEFINE k == n - 1
    <3>2. TwoTo[i + k] = TwoTo[i] * TwoTo[k]
      BY <1>1, <3>1
    <3>3. TwoTo[(i + k) + 1] = 2 * TwoTo[i + k] /\ TwoTo[k + 1] = 2 * TwoTo[k]
      BY <3>1, TwoToIs
    <3>4. (i + k) + 1 = i + n /\ k + 1 = n
      BY <3>1
    <3>5. TwoTo[i] \in Nat /\ TwoTo[k] \in Nat
      BY <3>1, TwoToIs
    <3>6. TwoTo[i + n] = 2 * (TwoTo[i] * TwoTo[k]) /\ TwoTo[n] = 2 * TwoTo[k]
      BY <3>2, <3>3, <3>4
    <3> HIDE DEF k
    <3> QED
      BY <3>5, <3>6
  <2> QED
    BY <2>1, <2>2
<1>2. Nat \subseteq G
  <2> DEFINE S == Nat
  <2>1. \A m \in S : id[m] \in Nat
    OBVIOUS
  <2>2. \A n \in S : (\A k \in S : id[k] < id[n] => k \in G) => n \in G
    BY <1>1
  <2> HIDE DEF G, id, S
  <2>3. S \subseteq G
    BY <2>1, <2>2, ByRank
  <2> QED
    BY <2>3 DEF S
<1> QED
  BY <1>2

LEMMA TwoToDivides ==
  ASSUME NEW i \in Nat, NEW j \in Nat, i <= j
  PROVE  \E d \in Nat \ {0} : TwoTo[j] = d * TwoTo[i]
<1>1. j - i \in Nat /\ i + (j - i) = j
  OBVIOUS
<1>2. TwoTo[j] = TwoTo[i] * TwoTo[j - i]
  BY <1>1, TwoToAdds
<1>3. TwoTo[j - i] \in Nat \ {0} /\ TwoTo[i] \in Nat
  BY <1>1, TwoToIs
<1>4. TwoTo[j] = TwoTo[j - i] * TwoTo[i]
  BY <1>2, <1>3
<1> QED
  BY <1>3, <1>4

LEMMA TwoToGrows ==
  ASSUME NEW i \in Nat, NEW j \in Nat, i <= j
  PROVE  TwoTo[i] <= TwoTo[j]
<1>1. PICK d \in Nat \ {0} : TwoTo[j] = d * TwoTo[i]
  BY TwoToDivides
<1>2. TwoTo[i] \in Nat
  BY TwoToIs
<1>3. (d - 1) * TwoTo[i] \in Nat
  BY <1>2
<1>4. d * TwoTo[i] = (d - 1) * TwoTo[i] + TwoTo[i]
  BY <1>2
<1> QED
  BY <1>1, <1>2, <1>3, <1>4

LEMMA ModIs ==
  ASSUME NEW m \in Nat \ {0}, NEW q \in Int, NEW r \in 0..(m - 1), NEW x, x = m * q + r
  PROVE  x % m = r
OBVIOUS

LEMMA ModShift ==
  ASSUME NEW m \in Nat \ {0}, NEW x \in Int, NEW k \in Int
  PROVE  (x + k * m) % m = x % m
<1> DEFINE q == x \div m
           r == x % m
<1>1. q \in Int /\ r \in 0..(m - 1) /\ x = m * q + r
  OBVIOUS
<1> HIDE DEF q, r
<1>2. x + k * m = m * (q + k) + r /\ q + k \in Int
  BY <1>1
<1>3. (x + k * m) % m = r
  BY <1>1, <1>2, ModIs
<1> QED
  BY <1>3 DEF r

\* A number and the one its pattern stands for are equal modulo the width.
LEMMA SignedIs ==
  ASSUME NEW w \in Nat, NEW n \in 0..(TwoTo[w] - 1)
  PROVE  /\ Signed(n, w) \in Int /\ (Signed(n, w) = 0 <=> n = 0)
         /\ \E i \in {0, 1} : n = Signed(n, w) + i * TwoTo[w]
         /\ Signed(n, w) % TwoTo[w] = n
         /\ 2 * n < TwoTo[w] => Signed(n, w) = n
<1>1. TwoTo[w] \in Nat \ {0}
  BY TwoToIs
<1>2. Signed(n, w) = IF 2 * n >= TwoTo[w] THEN n - TwoTo[w] ELSE n
  BY DEF Signed
<1> DEFINE s == Signed(n, w)
           m == TwoTo[w]
<1> HIDE DEF s, m
<1>3. s \in Int /\ (s = 0 <=> n = 0) /\ (s = n \/ n = s + m) /\ (2 * n < m => s = n)
  BY <1>1, <1>2 DEF s, m
<1>4. \E i \in {0, 1} : n = s + i * m
  <2>1. CASE s = n
    <3>1. n = s + 0 * m
      BY <1>1, <2>1 DEF m
    <3> QED
      BY <3>1
  <2>2. CASE n = s + m
    <3>1. n = s + 1 * m
      BY <1>1, <1>3, <2>2 DEF m
    <3> QED
      BY <3>1
  <2> QED
    BY <1>3, <2>1, <2>2
<1>5. s % m = n
  <2>1. n % m = n
    BY <1>1 DEF m
  <2>2. PICK i \in {0, 1} : n = s + i * m
    BY <1>4
  <2>3. n % m = s % m
    BY <1>1, <1>3, <2>2, ModShift DEF m
  <2> QED
    BY <2>1, <2>3
<1> QED
  BY <1>3, <1>4, <1>5 DEF s, m
-----------------------------------------------------------------------------
(* Sizes. *)

LEMMA TotalIs ==
  ASSUME NEW c, Len(c) \in Nat, \A i \in 1..Len(c) : c[i] \in Nat
  PROVE  Total(c) \in Nat
<1> DEFINE n == Len(c)
           V == Nat
           zero == 0
           h == [p \in (1..n) \X V |-> c[p[1]] + p[2]]
           Body(f) == [i \in 0..n |-> IF i = 0 THEN 0 ELSE c[i] + f[i - 1]]
           sum == CHOOSE f : f = Body(f)
<1>1. \A i \in 1..n : \A v \in V : h[<<i, v>>] = c[i] + v /\ h[<<i, v>>] \in V
  OBVIOUS
<1>2. PICK f \in [0..n -> V] : Counts(f, n, zero, h)
  <2>1. zero \in V /\ n \in Nat
    OBVIOUS
  <2> HIDE DEF h, V, zero, n
  <2> QED
    BY <1>1, <2>1, Counting
<1>3. f = Body(f)
  <2>1. f = [i \in 0..n |-> f[i]]
    OBVIOUS
  <2>2. ASSUME NEW i \in 0..n PROVE f[i] = IF i = 0 THEN 0 ELSE c[i] + f[i - 1]
    <3>1. CASE i = 0
      BY <1>2, <3>1 DEF Counts
    <3>2. CASE i # 0
      <4>1. i \in 1..n /\ i - 1 \in 0..n /\ f[i - 1] \in V
        BY <3>2
      <4>2. f[i] = h[<<i, f[i - 1]>>]
        BY <1>2, <4>1 DEF Counts
      <4> HIDE DEF h
      <4> QED
        BY <1>1, <3>2, <4>1, <4>2
    <3> QED
      BY <3>1, <3>2
  <2> QED
    BY <2>1, <2>2
<1>4. sum = Body(sum)
  <2> HIDE DEF Body
  <2> QED
    BY <1>3
<1>5. Total(c) = sum[n]
  BY DEF Total
<1> DEFINE S == 0..n
           G == {i \in S : sum[i] \in Nat}
           id == [i \in S |-> i]
<1>6. ASSUME NEW i \in S, \A k \in S : id[k] < id[i] => k \in G
      PROVE  i \in G
  <2> HIDE DEF sum
  <2>1. CASE i = 0
    BY <1>4, <2>1
  <2>2. CASE i # 0
    <3>1. i - 1 \in S /\ id[i - 1] < id[i] /\ i \in 1..n
      BY <2>2
    <3>2. sum[i - 1] \in Nat
      BY <1>6, <3>1
    <3>3. sum[i] = c[i] + sum[i - 1]
      BY <1>4, <2>2
    <3> QED
      BY <3>1, <3>2, <3>3
  <2> QED
    BY <2>1, <2>2
<1>7. S \subseteq G
  <2>1. \A i \in S : id[i] \in Nat
    OBVIOUS
  <2> HIDE DEF G, id, S
  <2> QED
    BY <1>6, <2>1, ByRank
<1> HIDE DEF sum
<1> QED
  BY <1>5, <1>7

\* The size of a name depends on names of lower rank alone.
LEMMA SizeSame ==
  ASSUME Table, NEW top, NEW rank, Ordered(rank, top), NEW n \in DOMAIN types, NEW A, NEW B,
         \A k \in DOMAIN types : rank[k] < rank[n] => A[k] = B[k]
  PROVE  NameSize(A, n) = NameSize(B, n)
<1>1. ASSUME NEW i \in 1..Len(types[n].fields)
      PROVE  FieldSize(A, n, i) = FieldSize(B, n, i)
  <2>1. Within(n, i) \in AllTypes
        /\ (Within(n, i).stars = 0 /\ Within(n, i).name # n => rank[Within(n, i).name] < rank[n])
    BY FieldLower
  <2>2. Within(n, i).name \in DOMAIN types /\ Within(n, i).stars \in Nat
    BY <2>1, TypesAssumption DEF AllTypes, TypesAssumption
  <2> QED
    BY <2>1, <2>2 DEF FieldSize
<1>2. [i \in 1..Len(types[n].fields) |-> FieldSize(A, n, i)]
        = [i \in 1..Len(types[n].fields) |-> FieldSize(B, n, i)]
  BY <1>1
<1> QED
  BY <1>2 DEF NameSize

\* The size of a name is what it is defined by.
LEMMA SizeIs ==
  ASSUME Table, WellFounded, NEW n \in DOMAIN types
  PROVE  SizeOf[n] = NameSize(SizeOf, n)
<1>1. PICK top \in Nat : \E rank \in [DOMAIN types -> 0..top] : Ordered(rank, top)
  BY DEF WellFounded
<1>2. PICK rank \in [DOMAIN types -> 0..top] : Ordered(rank, top)
  BY <1>1
<1> DEFINE S == DOMAIN types
           Right(A, x) == A[x] = NameSize(A, x)
           G == {m \in Nat : \E A : \A x \in S : rank[x] < m => Right(A, x)}
           Stages == 0 .. top + 1
           id == [m \in Stages |-> m]
<1>3. ASSUME NEW m \in Stages, \A k \in Stages : id[k] < id[m] => k \in G
      PROVE  m \in G
  <2>1. CASE m = 0
    BY <2>1
  <2>2. CASE m # 0
    <3>1. m - 1 \in Stages /\ id[m - 1] < id[m] /\ m - 1 \in Nat
      BY <2>2
    <3>2. m - 1 \in G
      BY <1>3, <3>1
    <3>3. PICK A : \A x \in S : rank[x] < m - 1 => Right(A, x)
      BY <3>2
    <3> DEFINE B == [x \in S |-> IF rank[x] < m - 1 THEN A[x] ELSE NameSize(A, x)]
    <3>4. ASSUME NEW x \in S, rank[x] < m PROVE Right(B, x)
      <4>1. B[x] = NameSize(A, x)
        BY <3>3
      <4>2. \A k \in S : rank[k] < rank[x] => rank[k] < m - 1
        <5>1. \A k \in S : rank[k] \in Nat
          OBVIOUS
        <5> QED
          BY <3>1, <3>4, <5>1
      <4>3. \A k \in S : rank[k] < rank[x] => A[k] = B[k]
        BY <4>2
      <4> HIDE DEF B
      <4>4. NameSize(A, x) = NameSize(B, x)
        BY <1>2, <4>3, SizeSame
      <4> QED
        BY <4>1, <4>4
    <3> HIDE DEF B, Right
    <3> QED
      BY <3>4
  <2> QED
    BY <2>1, <2>2
<1>4. \A m \in Stages : id[m] \in Nat
  OBVIOUS
<1>5. top + 1 \in G
  <2>1. Stages \subseteq G
    <3> HIDE DEF G, id, Stages
    <3> QED
      BY <1>3, <1>4, ByRank
  <2> HIDE DEF G, id
  <2> QED
    BY <2>1
<1>6. PICK A : \A x \in S : rank[x] < top + 1 => Right(A, x)
  BY <1>5
<1> DEFINE B == [x \in S |-> A[x]]
<1>7. ASSUME NEW x \in S PROVE B[x] = NameSize(B, x)
  <2>1. A[x] = NameSize(A, x)
    BY <1>6
  <2>2. \A k \in S : A[k] = B[k]
    OBVIOUS
  <2> HIDE DEF B
  <2>3. NameSize(A, x) = NameSize(B, x)
    BY <1>2, <2>2, SizeSame
  <2> QED
    BY <2>1, <2>2, <2>3
<1>8. B = [x \in S |-> NameSize(B, x)]
  <2>1. B = [x \in S |-> B[x]]
    OBVIOUS
  <2> HIDE DEF B
  <2> QED
    BY <1>7, <2>1
<1>9. SizeOf = [x \in DOMAIN types |-> NameSize(SizeOf, x)]
  <2> HIDE DEF B
  <2> QED
    BY <1>8 DEF SizeOf
<1> QED
  BY <1>9

LEMMA SizeNat == ASSUME Table, WellFounded PROVE \A n \in DOMAIN types : SizeOf[n] \in Nat
<1>1. PICK top \in Nat : \E rank \in [DOMAIN types -> 0..top] : Ordered(rank, top)
  BY DEF WellFounded
<1>2. PICK rank \in [DOMAIN types -> 0..top] : Ordered(rank, top)
  BY <1>1
<1> DEFINE S == DOMAIN types
           G == {n \in S : SizeOf[n] \in Nat}
<1>3. ASSUME NEW n \in S, \A k \in S : rank[k] < rank[n] => k \in G
      PROVE  n \in G
  <2>1. SizeOf[n] = NameSize(SizeOf, n)
    BY SizeIs
  <2>2. CASE types[n].kind = "builtin"
    <3>1. n \in Builtins /\ types[n].size = Width[n]
      BY <2>2 DEF Table
    <3> QED
      BY <2>1, <2>2, <3>1, TypesAssumption DEF NameSize, TypesAssumption
  <2>3. CASE types[n].kind # "builtin"
    <3> DEFINE c == [i \in 1..Len(types[n].fields) |-> FieldSize(SizeOf, n, i)]
    <3>1. Len(types[n].fields) \in Nat
      BY DEF Table, Entry, EntryOver
    <3>2. Len(c) = Len(types[n].fields)
      <4> HIDE DEF Total
      <4> QED
        BY <3>1
    <3>3. ASSUME NEW i \in 1..Len(types[n].fields) PROVE FieldSize(SizeOf, n, i) \in Nat
      <4>1. Within(n, i) \in AllTypes
            /\ (Within(n, i).stars = 0 /\ Within(n, i).name # n => rank[Within(n, i).name] < rank[n])
        BY <1>2, FieldLower
      <4>2. Within(n, i).name \in DOMAIN types /\ Within(n, i).stars \in Nat /\ Type_ptr_size \in Nat
        BY <4>1, TypesAssumption DEF AllTypes, TypesAssumption, Type_ptr_size, Builtins
      <4> QED
        BY <1>3, <4>1, <4>2 DEF FieldSize
    <3>4. \A i \in 1..Len(c) : c[i] \in Nat
      BY <3>2, <3>3
    <3>5. SizeOf[n] = Total(c)
      BY <2>1, <2>3 DEF NameSize
    <3> HIDE DEF c
    <3> QED
      BY <3>1, <3>2, <3>4, <3>5, TotalIs
  <2> QED
    BY <2>2, <2>3
<1>4. S \subseteq G
  <2>1. \A n \in S : rank[n] \in Nat
    OBVIOUS
  <2> HIDE DEF G, S
  <2> QED
    BY <1>3, <2>1, ByRank
<1> QED
  BY <1>4

\* What LLVM types of values there are.
LEMMA StructName ==
  ASSUME Table, WellFounded, NEW n \in DOMAIN types, LLVMOf[n].kind = "struct"
  PROVE  LLVMOf[n].name = n
<1>1. LLVMOf[n] = NameLLVM(LLVMOf, n)
  BY LLVMIs
<1> DEFINE Field(i) == FieldLLVM(LLVMOf, n, i)
           F == {i \in 1..Len(types[n].fields) : Field(i).kind \in Failures}
           first == CHOOSE i \in F : \A j \in F : i <= j
<1>2. F # {} => Field(first).kind # "struct"
  <2> SUFFICES ASSUME F # {} PROVE Field(first).kind \in Failures
    BY DEF Failures
  <2>1. F \subseteq Nat
    OBVIOUS
  <2>2. \E i \in F : \A j \in F : i <= j
    <3> HIDE DEF F
    <3> QED
      BY <2>1, LeastNumber
  <2>3. first \in F
    <3> HIDE DEF F
    <3> QED
      BY <2>2
  <2> HIDE DEF first
  <2> QED
    BY <2>3
<1>3. StructLLVM(LLVMOf, n) = IF F # {} THEN Field(first)
          ELSE IF \E i \in 1..Len(types[n].fields) : Field(i).kind = "void" THEN Failure("undefined")
          ELSE LLVM("struct", 0, n)
  BY DEF StructLLVM
<1> HIDE DEF F, first, Field
<1>4. LLVMOf[n] = StructLLVM(LLVMOf, n)
  BY <1>1, LLVMParts DEF NameLLVM, Failures
<1>5. LLVMOf[n] = LLVM("struct", 0, n)
  BY <1>2, <1>3, <1>4, LLVMParts DEF Failures
<1> QED
  BY <1>5 DEF LLVM
-----------------------------------------------------------------------------
(* Patterns and what they mean. *)

CgBits(cg) == CASE cg.kind = "int" -> cg.width [] cg.kind = "ptr" -> Type_ptr_size [] OTHER -> 0

LEMMA WidthsAre ==
  /\ \A b \in Builtins : Width[b] \in Nat /\ Width[b] <= Type_ptr_size
  /\ \A b \in Builtins \ {"void", "bool"} : Width[b] > 1
  /\ Width["void"] = 0 /\ Width["bool"] = 1
  /\ Type_ptr_size \in Nat /\ Type_ptr_size > 1 /\ Type_ptr_size = Width["int64"]
<1>1. /\ \A b \in Builtins : Width[b] \in Nat
      /\ \A b \in Builtins \ {"int64"} : Width[b] < Width["int64"]
      /\ \A b \in Builtins \ {"void", "bool"} : Width[b] > 1
      /\ Width["void"] = 0 /\ Width["bool"] = 1
  BY TypesAssumption DEF TypesAssumption
<1>2. "int64" \in Builtins \ {"void", "bool"}
  BY DEF Builtins
<1> QED
  BY <1>1, <1>2 DEF Type_ptr_size

\* The bits of a type are those of its LLVM type.
LEMMA BitsAre ==
  ASSUME Table, WellFounded, NEW t \in AllTypes
  PROVE  LET g == get_llvm_type(t) IN
         /\ Bits(t) \in Nat /\ Bits(t) <= Type_ptr_size /\ Bits(t) = CgBits(g)
         /\ Type_is_pointer(t) => Bits(t) = Type_ptr_size /\ ~Type_is_boolean(t) /\ ~Type_is_integer(t)
         /\ Type_is_boolean(t) => g = IntType(1) /\ Bits(t) = 1 /\ ~Type_is_integer(t)
         /\ Type_is_integer(t) => g = IntType(Bits(t)) /\ Bits(t) > 1
         /\ g.kind = "int" => g = IntType(Bits(t)) /\ (Type_is_boolean(t) \/ Type_is_integer(t))
         /\ g.kind \in {"struct", "void"} => Bits(t) = 0 /\ ~Type_is_boolean(t)
<1> DEFINE b == Type_get_base_type(t)
           g == get_llvm_type(t)
<1>1. b \in AllTypes /\ (Type_is_pointer(t) <=> b.stars > 0) /\ (~Type_is_pointer(t) => b = Type(b.name))
      /\ (~Type_is_pointer(t) => KindOf(b) = types[b.name].kind)
  BY BaseType, PointerIs
<1>2. g = IF b.stars > 0 THEN PointerType ELSE LLVMOf[b.name]
  BY DEF get_llvm_type
<1>3. /\ Type_is_boolean(t) <=> b = Type("bool")
      /\ Type_is_integer(t) <=> b \in {Type("int64"), Type("int8"), Type("char")}
  BY DEF Type_is_boolean, Type_is_integer, IsBuiltin
<1>4. Bits(t) = IF Type_is_pointer(t) THEN Type_ptr_size
                ELSE IF types[b.name].kind = "builtin" THEN types[b.name].size ELSE 0
  BY <1>1 DEF Bits, Type_get_size
<1> HIDE DEF b, g
<1>5. b.name \in DOMAIN types /\ b.stars \in Nat
  BY <1>1, TypesAssumption DEF AllTypes, TypesAssumption
<1>6. CASE b.stars > 0
  <2>1. ~Type_is_boolean(t) /\ ~Type_is_integer(t)
    BY <1>3, <1>5, <1>6 DEF Type
  <2>2. g.kind = "ptr" /\ Bits(t) = Type_ptr_size
    BY <1>1, <1>2, <1>4, <1>6, LLVMParts
  <2> QED
    BY <1>1, <1>6, <2>1, <2>2, WidthsAre DEF g, CgBits
<1>7. CASE ~(b.stars > 0)
  <2>1. g = LLVMOf[b.name] /\ b = Type(b.name) /\ ~Type_is_pointer(t)
    BY <1>1, <1>2, <1>7
  <2>2. /\ Type_is_boolean(t) <=> b.name = "bool"
        /\ Type_is_integer(t) <=> b.name \in {"int64", "int8", "char"}
    BY <1>3, <2>1 DEF Type
  <2>3. CASE b.name \in Builtins
    <3>1. Bits(t) = Width[b.name]
      BY <1>4, <1>5, <2>1, <2>3 DEF Table
    <3>2. CASE b.name = "void"
      <4>1. g = VoidType
        BY <1>5, <2>1, <3>2, KindLLVM
      <4> QED
        BY <2>1, <2>2, <3>1, <3>2, <4>1, LLVMParts, WidthsAre DEF g, CgBits
    <3>3. CASE b.name # "void"
      <4>1. g = IntType(Width[b.name])
        BY <1>5, <2>1, <2>3, <3>3, KindLLVM
      <4>2. b.name # "bool" => Width[b.name] > 1 /\ b.name \in {"int64", "int8", "char"}
        BY <2>3, <3>3, WidthsAre DEF Builtins
      <4> QED
        BY <2>1, <2>2, <2>3, <3>1, <3>3, <4>1, <4>2, LLVMParts, WidthsAre DEF g, CgBits
    <3> QED
      BY <3>2, <3>3
  <2>4. CASE b.name \notin Builtins
    <3>1. g.kind \in Failures \cup {"struct", "ptr"} /\ g.kind # "ptr"
      BY <1>5, <2>1, <2>4, KindLLVM
    <3>2. Bits(t) = 0
      BY <1>4, <1>5, <2>1, <2>4 DEF Table
    <3>3. ~Type_is_boolean(t) /\ ~Type_is_integer(t)
      BY <2>2, <2>4 DEF Builtins
    <3> QED
      BY <2>1, <3>1, <3>2, <3>3, WidthsAre DEF Failures, g, CgBits
  <2> QED
    BY <2>3, <2>4
<1> QED
  BY <1>6, <1>7

\* A size is a number.
LEMMA BytesAre ==
  ASSUME Table, WellFounded, NEW t \in AllTypes, Sized(t)
  PROVE  Bytes(get_llvm_type(t)) \in Nat
<1> DEFINE b == Type_get_base_type(t)
           g == get_llvm_type(t)
<1>1. g.kind \in {"int", "ptr", "struct"}
  BY DEF Sized
<1>2. g = IF b.stars > 0 THEN PointerType ELSE LLVMOf[b.name]
  BY DEF get_llvm_type
<1>3. b \in AllTypes
  BY BaseType
<1>4. g.kind = "int" => g.width \in Nat
  BY BitsAre, LLVMParts
<1> HIDE DEF b, g
<1>5. CASE g.kind = "int"
  BY <1>4, <1>5 DEF Bytes, g
<1>6. CASE g.kind = "ptr"
  BY <1>6, WidthsAre DEF Bytes, g
<1>7. CASE g.kind = "struct"
  <2>1. g = LLVMOf[b.name] /\ b.name \in DOMAIN types
    BY <1>2, <1>3, <1>7, LLVMParts DEF AllTypes
  <2>2. g.name = b.name
    BY <1>7, <2>1, StructName
  <2>3. Bytes(g) = SizeOf[b.name]
    BY <1>7, <2>2 DEF Bytes
  <2> QED
    BY <2>1, <2>3, SizeNat DEF g
<1> QED
  BY <1>1, <1>5, <1>6, <1>7

\* A pattern of the type; where an address leads, a pattern of the LLVM type there.
Below(bits) == 0 .. (TwoTo[bits] - 1)
Kept(v) == \E cg : \E n : /\ CgBits(cg) \in Nat /\ n \in Below(CgBits(cg))
                          /\ v.slot = << [cg |-> cg, at |-> Plain(n)] >>
Fitting(t, v) == /\ v = [num |-> v.num, slot |-> v.slot] /\ v.num \in Below(Bits(t))
                 /\ v.slot = << >> \/ (Type_is_pointer(t) /\ Kept(v))
\* What the instructions compute is a pattern of its type, and what it means is what is meant.
Right(e) == Fitting(e.type, e.value) /\ e.want = Meaning(e.type, e.value) /\ CgBits(e.cg) \in Nat
Outcomes(e) == e.how = "ok" => Right(e)

LEMMA PlainIs == \A n : Plain(n).num = n /\ Plain(n).slot = << >> /\ Plain(n) = [num |-> n, slot |-> << >>]
BY DEF Plain

\* A meaning has the pattern it is the meaning of.
LEMMA MeaningIs ==
  ASSUME Table, WellFounded, NEW t \in AllTypes, NEW v, Fitting(t, v)
  PROVE  LET m == Meaning(t, v) IN
         /\ m.num = IF Type_is_boolean(t) THEN v.num ELSE Signed(v.num, Bits(t))
         /\ m.slot = v.slot /\ m.num \in Int /\ (m.num = 0 <=> v.num = 0)
         /\ m = [num |-> m.num, slot |-> v.slot]
         /\ m.num % TwoTo[Bits(t)] = v.num
         /\ Pattern(t, m) = v
<1> DEFINE m == Meaning(t, v)
           w == Bits(t)
<1>1. w \in Nat /\ TwoTo[w] \in Nat \ {0} /\ v.num \in 0..(TwoTo[w] - 1)
      /\ v = [num |-> v.num, slot |-> v.slot]
  BY BitsAre, TwoToIs DEF Fitting, Below
<1>2. m = [num |-> IF Type_is_boolean(t) THEN v.num ELSE Signed(v.num, w), slot |-> v.slot]
  BY <1>1 DEF Meaning
<1>3. Pattern(t, m) = [m EXCEPT !.num = @ % TwoTo[w]]
  BY DEF Pattern
<1> HIDE DEF m, w
<1>4. m.num = (IF Type_is_boolean(t) THEN v.num ELSE Signed(v.num, w)) /\ m.slot = v.slot
  BY <1>2
<1>5. v.num % TwoTo[w] = v.num
  BY <1>1
<1>6. Signed(v.num, w) \in Int /\ (Signed(v.num, w) = 0 <=> v.num = 0) /\ Signed(v.num, w) % TwoTo[w] = v.num
  BY <1>1, SignedIs
<1>7. m.num \in Int /\ (m.num = 0 <=> v.num = 0) /\ m.num % TwoTo[w] = v.num
  BY <1>1, <1>4, <1>5, <1>6
<1>8. m = [num |-> m.num, slot |-> v.slot]
  BY <1>2, <1>4
<1>9. Pattern(t, m) = v
  BY <1>1, <1>3, <1>7, <1>8
<1> QED
  BY <1>4, <1>7, <1>8, <1>9 DEF m, w

LEMMA PlainFits ==
  ASSUME NEW t, NEW n \in Below(Bits(t))
  PROVE  Fitting(t, Plain(n))
BY PlainIs DEF Fitting

\* What wraps at the width of the type.
LEMMA WrappedIs ==
  ASSUME Table, WellFounded, NEW t \in AllTypes, NEW n \in Int
  PROVE  /\ Wrapped(t, n) = Meaning(t, Plain(n % TwoTo[Bits(t)]))
         /\ n % TwoTo[Bits(t)] \in Below(Bits(t))
         /\ Fitting(t, Plain(n % TwoTo[Bits(t)]))
<1>1. Bits(t) \in Nat /\ TwoTo[Bits(t)] \in Nat \ {0}
  BY BitsAre, TwoToIs
<1> DEFINE k == n % TwoTo[Bits(t)]
<1>2. k \in Below(Bits(t))
  BY <1>1 DEF Below
<1>3. Pattern(t, Plain(n)) = Plain(k)
  BY PlainIs DEF Pattern
<1> HIDE DEF k
<1> QED
  BY <1>2, <1>3, PlainFits DEF Wrapped, k

\* A truth value fits every type of numbers.
LEMMA TruthIs ==
  ASSUME Table, WellFounded, NEW t \in AllTypes, get_llvm_type(t).kind = "int", NEW b
  PROVE  Fitting(t, Truth(b)) /\ Meaning(t, Truth(b)) = Truth(b)
<1> DEFINE n == IF b THEN 1 ELSE 0
           w == Bits(t)
<1>1. Truth(b) = Plain(n) /\ n \in {0, 1}
  BY DEF Truth
<1>2. w \in Nat /\ w > 0 /\ (~Type_is_boolean(t) => w > 1)
  BY BitsAre
<1>3. TwoTo[w] \in Nat /\ TwoTo[1] = 2 /\ TwoTo[2] = 4
  BY <1>2, TwoToIs
<1>4. TwoTo[w] >= 2 /\ (~Type_is_boolean(t) => TwoTo[w] >= 4)
  <2>1. 1 <= w
    BY <1>2
  <2>2. TwoTo[1] <= TwoTo[w]
    BY <1>2, <2>1, TwoToGrows
  <2>3. w > 1 => TwoTo[2] <= TwoTo[w]
    BY <1>2, TwoToGrows
  <2> HIDE DEF w
  <2> QED
    BY <1>2, <1>3, <2>2, <2>3
<1> HIDE DEF n, w
<1>5. n \in 0..(TwoTo[w] - 1)
  BY <1>1, <1>3, <1>4
<1>6. Fitting(t, Plain(n))
  BY <1>5, PlainFits DEF w, Below
<1>7. ~Type_is_boolean(t) => Signed(n, w) = n
  BY <1>1, <1>3, <1>4 DEF Signed
<1>8. Meaning(t, Plain(n)) = [num |-> n, slot |-> << >>]
  BY <1>7, PlainIs DEF Meaning, w
<1> QED
  BY <1>1, <1>6, <1>8, PlainIs

\* Equal types, and pointers, have the same patterns, of the same meanings.
LEMMA EqBits ==
  ASSUME Table, WellFounded, NEW s \in AllTypes, NEW t \in AllTypes,
         Type_eq(s, t) \/ (Type_is_pointer(s) /\ Type_is_pointer(t))
  PROVE  /\ Bits(s) = Bits(t) /\ (Type_is_boolean(s) <=> Type_is_boolean(t))
         /\ (Type_is_integer(s) <=> Type_is_integer(t)) /\ (Type_is_pointer(s) <=> Type_is_pointer(t))
         /\ \A v : (Fitting(s, v) <=> Fitting(t, v)) /\ Meaning(s, v) = Meaning(t, v)
<1>1. Type_is_pointer(s) <=> Type_is_pointer(t)
  BY EqPointers
<1>2. /\ Bits(s) = Bits(t) /\ (Type_is_boolean(s) <=> Type_is_boolean(t))
      /\ (Type_is_integer(s) <=> Type_is_integer(t))
  <2>1. CASE Type_is_pointer(s)
    BY <1>1, <2>1, BitsAre
  <2>2. CASE ~Type_is_pointer(s)
    <3>1. Type_get_base_type(s) = Type_get_base_type(t)
      BY <1>1, <2>2, EqUnfolds
    <3> QED
      BY <1>1, <2>2, <3>1 DEF Bits, Type_get_size, Type_is_boolean, Type_is_integer, IsBuiltin
  <2> QED
    BY <2>1, <2>2
<1>3. \A v : Fitting(s, v) <=> Fitting(t, v)
  BY <1>1, <1>2 DEF Fitting
<1>4. \A v : Meaning(s, v) = Meaning(t, v)
  BY <1>2 DEF Meaning
<1> QED
  BY <1>1, <1>2, <1>3, <1>4

\* A slot of the type for a pattern of it and its meaning.
LEMMA AllocateRight ==
  ASSUME Table, WellFounded, NEW t \in AllTypes, NEW v, NEW w, Fitting(t, v), w = Meaning(t, v)
  PROVE  Outcomes(allocate_stack_for_temp(t, v, w))
<1> DEFINE cg == get_llvm_type(t)
           e == allocate_stack_for_temp(t, v, w)
<1>1. e = CASE cg.kind \in Failures -> Ends(cg.kind)
            [] cg.kind = "void" -> Ends("undefined")
            [] OTHER -> Expression(NoType, t, cg, v, w)
  BY DEF allocate_stack_for_temp
<1>6. CgBits(cg) \in Nat
  BY BitsAre
<1> HIDE DEF cg, e
<1>2. cg.kind \in Failures => cg.kind # "ok"
  BY DEF Failures
<1>3. CASE cg.kind \in Failures
  <2>1. e = Ends(cg.kind)
    BY <1>1, <1>3 DEF Failures
  <2> QED
    BY <1>2, <1>3, <2>1 DEF Outcomes, Ends, Outcome, e
<1>4. CASE cg.kind \notin Failures /\ cg.kind = "void"
  <2>1. e = Ends("undefined")
    BY <1>1, <1>4
  <2> QED
    BY <2>1 DEF Outcomes, Ends, Outcome, e
<1>5. CASE cg.kind \notin Failures /\ cg.kind # "void"
  <2>1. e = Expression(NoType, t, cg, v, w)
    BY <1>1, <1>5
  <2>2. e.type = t /\ e.value = v /\ e.want = w /\ e.cg = cg
    BY <2>1 DEF Expression, Outcome
  <2> QED
    BY <1>6, <2>2 DEF Outcomes, Right, e
<1> QED
  BY <1>3, <1>4, <1>5

\* Numbers computed modulo the width.
LEMMA NumberRight ==
  ASSUME Table, WellFounded, NEW t \in AllTypes, NEW x \in Int, NEW y \in Int, NEW m,
         m = TwoTo[Bits(t)], x % m = y % m
  PROVE  Outcomes(allocate_stack_for_temp(t, Plain(x % m), Wrapped(t, y)))
<1>1. Fitting(t, Plain(y % m)) /\ Wrapped(t, y) = Meaning(t, Plain(y % m))
  BY WrappedIs
<1> QED
  BY <1>1, AllocateRight

LEMMA TruthRight ==
  ASSUME Table, WellFounded, NEW t \in AllTypes, get_llvm_type(t).kind = "int", NEW a, NEW b, a <=> b
  PROVE  Outcomes(allocate_stack_for_temp(t, Truth(a), Truth(b)))
<1>1. Truth(a) = Truth(b)
  BY DEF Truth
<1> QED
  BY <1>1, TruthIs, AllocateRight

LEMMA EndsRight == ASSUME NEW how, how # "ok" PROVE Outcomes(Ends(how))
BY DEF Outcomes, Ends, Outcome

\* What the scope says of an expression is not about its value.
LEMMA ExceptRight ==
  ASSUME NEW e, Shape(e), Outcomes(e), NEW x, NEW y, NEW f,
         \/ f = [e EXCEPT !.scope = x]
         \/ f = [e EXCEPT !.scope = x, !.new = y]
         \/ f = [e EXCEPT !.scope = x, !.const = y]
  PROVE  Outcomes(f)
<1>1. f.how = e.how /\ f.type = e.type /\ f.value = e.value /\ f.want = e.want /\ f.cg = e.cg
  BY DEF Shape
<1> QED
  BY <1>1 DEF Outcomes, Right

LEMMA TypedRight ==
  ASSUME NEW e, Shape(e), Outcomes(e), NEW t, e.how = "ok" => e.type = t, NEW f,
         \/ f = [e EXCEPT !.scope = t, !.type = t]
         \/ f = [e EXCEPT !.scope = t, !.type = t, !.const = TRUE]
  PROVE  Outcomes(f)
<1>1. f.how = e.how /\ f.type = t /\ f.value = e.value /\ f.want = e.want /\ f.cg = e.cg
  BY DEF Shape
<1> QED
  BY <1>1 DEF Outcomes, Right
-----------------------------------------------------------------------------
(* The operators. *)

\* What is known of an operand.
LEMMA AnOperand ==
  ASSUME Table, WellFounded, NEW e, Sound(e), Right(e)
  PROVE  /\ e.type \in AllTypes /\ Bits(e.type) \in Nat /\ TwoTo[Bits(e.type)] \in Nat \ {0}
         /\ e.value.num \in Below(Bits(e.type)) /\ e.value.num \in Nat
         /\ e.want.num \in Int /\ (e.want.num = 0 <=> e.value.num = 0)
         /\ e.want.num % TwoTo[Bits(e.type)] = e.value.num
         /\ Pattern(e.type, e.want) = e.value /\ e.want.slot = e.value.slot
         /\ Type_is_boolean(e.type) => e.want.num = e.value.num
         /\ ~Type_is_boolean(e.type) => e.want.num = Signed(e.value.num, Bits(e.type))
         /\ ~Type_is_void(e.type) => CgBits(e.cg) = Bits(e.type)
         /\ e.cg.kind = "int" /\ ~Type_is_void(e.type) => e.cg.width = Bits(e.type)
<1>1. e.type \in AllTypes /\ (~Type_is_void(e.type) => e.cg = get_llvm_type(e.type))
  BY DEF Sound
<1>2. Bits(e.type) \in Nat /\ TwoTo[Bits(e.type)] \in Nat \ {0}
  BY <1>1, BitsAre, TwoToIs
<1>3. Fitting(e.type, e.value) /\ e.want = Meaning(e.type, e.value)
  BY DEF Right
<1>4. e.value.num \in Below(Bits(e.type)) /\ e.value.num \in Nat
  BY <1>2, <1>3 DEF Fitting, Below
<1>5. ~Type_is_void(e.type) => CgBits(e.cg) = Bits(e.type)
  BY <1>1, BitsAre
<1>6. e.cg.kind = "int" /\ ~Type_is_void(e.type) => e.cg.width = Bits(e.type)
  BY <1>1, BitsAre, LLVMParts
<1> QED
  BY <1>1, <1>2, <1>3, <1>4, <1>5, <1>6, MeaningIs

\* A number and its pattern.
Congruent(m, A, a) == \E i \in {0, 1} : a = A + i * m
Agreeing(m, A, B, a, b) ==
  /\ (a + b) % m = (A + B) % m
  /\ (a - b + m) % m = (A - B) % m
  /\ (a * b) % m = (A * B) % m
  /\ (m - a) % m = (-A) % m

\* Arithmetic of patterns is that of the numbers they stand for, modulo the width.
LEMMA ArithModulo ==
  ASSUME NEW m \in Nat \ {0}, NEW A \in Int, NEW B \in Int, NEW a, NEW b,
         Congruent(m, A, a), Congruent(m, B, b)
  PROVE  Agreeing(m, A, B, a, b)
<1>1. PICK i \in {0, 1} : a = A + i * m
  BY DEF Congruent
<1>2. PICK j \in {0, 1} : b = B + j * m
  BY DEF Congruent
<1>3. a \in Int /\ b \in Int
  BY <1>1, <1>2
<1>4. a + b = (A + B) + (i + j) * m /\ i + j \in Int /\ A + B \in Int
  BY <1>1, <1>2, <1>3
<1>5. a - b + m = (A - B) + ((i - j) + 1) * m /\ (i - j) + 1 \in Int /\ A - B \in Int
  BY <1>1, <1>2, <1>3
<1>6. a * b = (A * B) + ((A * j + B * i) + (i * j) * m) * m
      /\ (A * j + B * i) + (i * j) * m \in Int /\ A * B \in Int
  <2>1. i * j \in Int /\ A * j \in Int /\ B * i \in Int /\ (i * j) * m \in Int /\ A * B \in Int
    BY <1>3
  <2>2. CASE i = 0 /\ j = 0
    BY <1>1, <1>2, <2>1, <2>2
  <2>3. CASE i = 0 /\ j = 1
    BY <1>1, <1>2, <2>1, <2>3
  <2>4. CASE i = 1 /\ j = 0
    BY <1>1, <1>2, <2>1, <2>4
  <2>5. CASE i = 1 /\ j = 1
    BY <1>1, <1>2, <2>1, <2>5
  <2> QED
    BY <2>2, <2>3, <2>4, <2>5
<1>7. m - a = -A + (1 - i) * m /\ 1 - i \in Int /\ -A \in Int
  BY <1>1, <1>2, <1>3
<1>8. (a + b) % m = (A + B) % m
  <2> DEFINE k == i + j
             x == A + B
  <2>1. k \in Int /\ x \in Int /\ a + b = x + k * m
    BY <1>4
  <2> HIDE DEF k, x
  <2>2. (x + k * m) % m = x % m
    BY <2>1, ModShift
  <2> QED
    BY <2>1, <2>2 DEF x
<1>9. (a - b + m) % m = (A - B) % m
  <2> DEFINE k == (i - j) + 1
             x == A - B
  <2>1. k \in Int /\ x \in Int /\ a - b + m = x + k * m
    BY <1>5
  <2> HIDE DEF k, x
  <2>2. (x + k * m) % m = x % m
    BY <2>1, ModShift
  <2> QED
    BY <2>1, <2>2 DEF x
<1>10. (a * b) % m = (A * B) % m
  <2> DEFINE k == (A * j + B * i) + (i * j) * m
             x == A * B
  <2>1. k \in Int /\ x \in Int /\ a * b = x + k * m
    BY <1>6
  <2> HIDE DEF k, x
  <2>2. (x + k * m) % m = x % m
    BY <2>1, ModShift
  <2> QED
    BY <2>1, <2>2 DEF x
<1>11. (m - a) % m = (-A) % m
  <2> DEFINE k == 1 - i
             x == -A
  <2>1. k \in Int /\ x \in Int /\ m - a = x + k * m
    BY <1>7
  <2> HIDE DEF k, x
  <2>2. (x + k * m) % m = x % m
    BY <2>1, ModShift
  <2> QED
    BY <2>1, <2>2 DEF x
<1> QED
  BY <1>8, <1>9, <1>10, <1>11 DEF Agreeing

\* A signed number is a pattern less a multiple of the width.
LEMMA SignedOperand ==
  ASSUME Table, WellFounded, NEW e, Sound(e), Right(e), ~Type_is_boolean(e.type)
  PROVE  Congruent(TwoTo[Bits(e.type)], e.want.num, e.value.num)
<1>1. /\ Bits(e.type) \in Nat /\ e.value.num \in Below(Bits(e.type))
      /\ e.want.num = Signed(e.value.num, Bits(e.type))
  BY AnOperand
<1>2. e.value.num \in 0..(TwoTo[Bits(e.type)] - 1)
  BY <1>1 DEF Below
<1> QED
  BY <1>1, <1>2, SignedIs DEF Congruent

LEMMA TruncatedIs == ASSUME NEW a \in Int, NEW b \in Int, b # 0 PROVE Truncated(a, b) \in Int
<1> DEFINE Abs(n) == IF n < 0 THEN -n ELSE n
           q == Abs(a) \div Abs(b)
<1>1. Abs(a) \in Int /\ Abs(b) \in Int /\ Abs(b) > 0
  OBVIOUS
<1>2. q \in Int
  <2> HIDE DEF Abs
  <2> QED
    BY <1>1
<1>3. Truncated(a, b) \in {q, -q}
  BY DEF Truncated
<1> HIDE DEF q
<1> QED
  BY <1>2, <1>3

LEMMA sintBOpRight ==
  ASSUME Table, WellFounded, NEW op \in Arithmetic, NEW l, NEW r, Sound(l), Sound(r), Right(l), Right(r),
         Defined(op, l, r), NEW t \in AllTypes, Type_is_integer(t) => Type_eq(t, l.type)
  PROVE  Outcomes(sintBOp(op, l, r, t))
<1> DEFINE a == l.value.num
           b == r.value.num
           w == l.cg.width
           m == TwoTo[w]
           A == l.want.num
           B == r.want.num
           resVal == CASE op = "PLUS" -> a + b [] op = "MINUS" -> a - b + m
                       [] op = "MULT" -> a * b
                       [] op = "DIVIDE" -> Truncated(Signed(a, w), Signed(b, w)) + m
           checked == Type_is_signed(l.type) /\ Type_is_signed(r.type) /\ Type_is_signed(t)
                        /\ Type_eq(l.type, r.type)
           e == allocate_stack_for_temp(t, Plain(resVal % m), Wrapped(t, Arith(op, A, B)))
<1>1. sintBOp(op, l, r, t) = CASE ~checked -> Ends("assertion") [] OTHER -> e
  BY Zenon DEF sintBOp
<1>2. CASE ~checked
  <2> HIDE DEF checked, e
  <2>1. sintBOp(op, l, r, t) = Ends("assertion")
    BY <1>1, <1>2
  <2> QED
    BY <2>1, EndsRight
<1>3. CASE checked
  <2>1. /\ Type_is_integer(l.type) /\ Type_is_integer(r.type) /\ Type_eq(l.type, r.type)
        /\ Type_eq(t, l.type) /\ l.type \in AllTypes /\ r.type \in AllTypes
    BY <1>3 DEF Type_is_signed, Sound
  <2>2. ~Type_is_boolean(l.type) /\ ~Type_is_boolean(r.type)
    BY <2>1, BitsAre
  <2>3. Bits(l.type) = Bits(r.type) /\ Bits(t) = Bits(l.type)
    BY <2>1, EqBits
  <2>4. w = Bits(l.type)
    <3>1. ~Type_is_void(l.type) /\ get_llvm_type(l.type) = IntType(Bits(l.type))
      BY <2>1, BitsAre, LLVMOfType, LLVMParts
    <3> QED
      BY <3>1, LLVMParts DEF Sound
  <2>5. /\ m \in Nat \ {0} /\ A \in Int /\ B \in Int /\ A = Signed(a, w) /\ B = Signed(b, w)
        /\ m = TwoTo[Bits(t)]
    BY <2>2, <2>3, <2>4, AnOperand
  <2>6. Congruent(m, A, a)
    BY <2>2, <2>4, SignedOperand
  <2>7. Congruent(m, B, b)
    BY <2>2, <2>3, <2>4, SignedOperand
  <2>8. op = "DIVIDE" => B # 0
    BY <2>1 DEF Defined
  <2>9. sintBOp(op, l, r, t) = e
    <3> HIDE DEF checked, e
    <3> QED
      BY <1>1, <1>3
  <2> HIDE DEF a, b, w, m, A, B, resVal, checked
  <2>10. a \in Int /\ b \in Int
    <3>1. PICK i \in {0, 1} : a = A + i * m
      BY <2>6 DEF Congruent
    <3>2. PICK j \in {0, 1} : b = B + j * m
      BY <2>7 DEF Congruent
    <3> QED
      BY <2>5, <3>1, <3>2
  <2>11. /\ (a + b) % m = (A + B) % m /\ (a - b + m) % m = (A - B) % m
         /\ (a * b) % m = (A * B) % m
         /\ a + b \in Int /\ A + B \in Int /\ a - b + m \in Int /\ A - B \in Int
         /\ a * b \in Int /\ A * B \in Int
    <3>1. /\ (a + b) % m = (A + B) % m /\ (a - b + m) % m = (A - B) % m
          /\ (a * b) % m = (A * B) % m
      <4>1. m \in Nat \ {0} /\ A \in Int /\ B \in Int
        BY <2>5
      <4>2. Agreeing(m, A, B, a, b)
        BY <4>1, <2>6, <2>7, ArithModulo
      <4> QED
        BY <4>2 DEF Agreeing
    <3> QED
      BY <2>5, <2>10, <3>1
  <2>12. resVal \in Int /\ Arith(op, A, B) \in Int /\ resVal % m = Arith(op, A, B) % m
    <3>1. CASE op = "PLUS"
      <4>1. resVal = a + b /\ Arith(op, A, B) = A + B
        BY <3>1 DEF resVal, Arith
      <4> QED
        BY <2>5, <2>11, <4>1
    <3>2. CASE op = "MINUS"
      <4>1. resVal = a - b + m /\ Arith(op, A, B) = A - B
        BY <3>2 DEF resVal, Arith
      <4> QED
        BY <2>5, <2>11, <4>1
    <3>3. CASE op = "MULT"
      <4>1. resVal = a * b /\ Arith(op, A, B) = A * B
        BY <3>3 DEF resVal, Arith
      <4> QED
        BY <2>5, <2>11, <4>1
    <3>4. CASE op = "DIVIDE"
      <4> DEFINE q == Truncated(A, B)
      <4>1. resVal = q + m /\ Arith(op, A, B) = q
        BY <2>5, <3>4 DEF resVal, Arith
      <4>2. q \in Int
        BY <2>5, <2>8, <3>4, TruncatedIs
      <4> HIDE DEF q
      <4>3. (q + 1 * m) % m = q % m
        <5>1. 1 \in Int
          OBVIOUS
        <5> QED
          BY <2>5, <4>2, <5>1, ModShift, Zenon
      <4>4. q + m = q + 1 * m /\ q + m \in Int
        BY <2>5, <4>2
      <4>5. (q + m) % m = q % m
        <5> DEFINE p == q + m
        <5>1. p = q + 1 * m
          BY <4>4
        <5> HIDE DEF p
        <5>2. p % m = q % m
          BY <4>3, <5>1
        <5> QED
          BY <5>2 DEF p
      <4> QED
        BY <4>1, <4>2, <4>4, <4>5
    <3> QED
      BY <3>1, <3>2, <3>3, <3>4 DEF Arithmetic
  <2> QED
    BY <2>5, <2>9, <2>12, NumberRight DEF e
<1> QED
  BY <1>2, <1>3

LEMMA intNegateRight ==
  ASSUME Table, WellFounded, NEW l, Sound(l), Right(l), NEW t \in AllTypes
  PROVE  Outcomes(intNegate(l, t))
<1> DEFINE m == TwoTo[l.cg.width]
           checked == Type_is_integer(l.type) /\ Type_is_integer(t) /\ Type_eq(l.type, t)
<1>1. intNegate(l, t) = IF ~checked THEN Ends("assertion")
        ELSE allocate_stack_for_temp(t, Plain((m - l.value.num) % m), Wrapped(t, -l.want.num))
  BY DEF intNegate
<1>2. CASE ~checked
  BY <1>1, <1>2, EndsRight
<1>3. CASE checked
  <2>1. l.type \in AllTypes
    BY DEF Sound
  <2>2. ~Type_is_boolean(l.type) /\ Bits(l.type) = Bits(t)
    BY <1>3, <2>1, BitsAre, EqBits
  <2>3. l.cg.width = Bits(l.type)
    <3>1. ~Type_is_void(l.type) /\ get_llvm_type(l.type) = IntType(Bits(l.type))
      BY <1>3, <2>1, BitsAre, LLVMOfType, LLVMParts
    <3> QED
      BY <3>1, LLVMParts DEF Sound
  <2>4. m \in Nat \ {0} /\ l.want.num \in Int /\ m = TwoTo[Bits(t)] /\ l.value.num \in Int
    BY <2>2, <2>3, AnOperand
  <2>5. Congruent(m, l.want.num, l.value.num)
    BY <2>2, <2>3, SignedOperand
  <2>6. intNegate(l, t) = allocate_stack_for_temp(t, Plain((m - l.value.num) % m), Wrapped(t, -l.want.num))
    BY <1>1, <1>3
  <2> HIDE DEF m
  <2>7. (m - l.value.num) % m = (-l.want.num) % m
    <3> DEFINE A == l.want.num
               a == l.value.num
    <3>1. A \in Int /\ Congruent(m, A, a)
      BY <2>4, <2>5
    <3> HIDE DEF A, a
    <3>2. (m - a) % m = (-A) % m
      <4>1. m \in Nat \ {0}
        BY <2>4
      <4>2. Agreeing(m, A, A, a, a)
        BY <4>1, <3>1, ArithModulo
      <4> QED
        BY <4>2 DEF Agreeing
    <3> QED
      BY <3>2 DEF A, a
  <2>8. m - l.value.num \in Int /\ -l.want.num \in Int
    BY <2>4
  <2> QED
    BY <2>4, <2>6, <2>7, <2>8, NumberRight
<1> QED
  BY <1>2, <1>3

\* The number compared is the one meant; of a bool it is that of a signed bit.
LEMMA ComparedIs ==
  ASSUME Table, WellFounded, NEW e, Sound(e), Right(e), Usable(e)
  PROVE  Signed(e.value.num, IF e.cg.kind = "ptr" THEN Type_ptr_size ELSE e.cg.width)
           = Ordinal(e.type, e.want.num)
<1>1. e.cg.kind \in {"int", "ptr"} /\ ~Type_is_void(e.type)
  BY DEF Usable
<1>2. e.type \in AllTypes /\ e.cg = get_llvm_type(e.type)
  BY <1>1 DEF Sound
<1>3. (IF e.cg.kind = "ptr" THEN Type_ptr_size ELSE e.cg.width) = Bits(e.type)
  BY <1>1, <1>2, AnOperand, BitsAre, LLVMOfType
<1>4. CASE Type_is_boolean(e.type)
  <2>1. Bits(e.type) = 1 /\ e.value.num = e.want.num /\ e.value.num \in Below(1)
    BY <1>2, <1>4, BitsAre, AnOperand
  <2>2. TwoTo[1] = 2
    BY TwoToIs
  <2>3. e.value.num \in {0, 1}
    BY <2>1, <2>2 DEF Below
  <2>4. Signed(e.value.num, 1) = -e.value.num
    BY <2>2, <2>3 DEF Signed
  <2> QED
    BY <1>3, <1>4, <2>1, <2>4 DEF Ordinal
<1>5. CASE ~Type_is_boolean(e.type)
  BY <1>3, <1>5, AnOperand DEF Ordinal
<1> QED
  BY <1>4, <1>5

LEMMA compareRight ==
  ASSUME Table, WellFounded, NEW op, NEW l, NEW r, Sound(l), Sound(r), Right(l), Right(r), NEW t \in AllTypes
  PROVE  Outcomes(compare(op, l, r, t))
<1> DEFINE bothPointers == l.cg.kind = "ptr" /\ r.cg.kind = "ptr"
           Compared(e) == IF e.cg.kind = "ptr" /\ ~bothPointers THEN IntType(Type_ptr_size) ELSE e.cg
           N(e) == Signed(e.value.num, IF e.cg.kind = "ptr" THEN Type_ptr_size ELSE e.cg.width)
           O(e) == Ordinal(e.type, e.want.num)
           checked == Compared(l) = Compared(r) /\ Usable(l) /\ Usable(r)
<1>1. compare(op, l, r, t) = IF ~checked THEN Ends("undefined")
        ELSE IF get_llvm_type(t).kind # "int" THEN Ends("assertion")
        ELSE allocate_stack_for_temp(t, Truth(Holds(op, N(l), N(r))), Truth(Holds(op, O(l), O(r))))
  BY DEF compare
<1>2. CASE ~checked
  BY <1>1, <1>2, EndsRight
<1>3. CASE checked /\ get_llvm_type(t).kind # "int"
  BY <1>1, <1>3, EndsRight
<1>4. CASE checked /\ get_llvm_type(t).kind = "int"
  <2>1. N(l) = O(l) /\ N(r) = O(r)
    BY <1>4, ComparedIs
  <2>2. Holds(op, N(l), N(r)) = Holds(op, O(l), O(r))
    BY <2>1
  <2>3. compare(op, l, r, t)
          = allocate_stack_for_temp(t, Truth(Holds(op, N(l), N(r))), Truth(Holds(op, O(l), O(r))))
    BY <1>1, <1>4
  <2> HIDE DEF N, O
  <2>4. compare(op, l, r, t)
          = allocate_stack_for_temp(t, Truth(Holds(op, O(l), O(r))), Truth(Holds(op, O(l), O(r))))
    BY <2>1, <2>3
  <2> QED
    BY <1>4, <2>4, TruthIs, AllocateRight
<1> QED
  BY <1>2, <1>3, <1>4

LEMMA booleanAndOrRight ==
  ASSUME Table, WellFounded, NEW op, NEW l, NEW r, Sound(l), Sound(r), Right(l), Right(r), NEW t \in AllTypes
  PROVE  Outcomes(booleanAndOr(op, l, r, t))
<1> DEFINE initial == IF op = "OR" THEN 1 ELSE 0
           lhsCond == l.value.num # 0
           skipped == IF op = "OR" THEN lhsCond ELSE ~lhsCond
           v == IF skipped THEN Plain(initial) ELSE Truth(r.value.num # 0)
           w == Truth(IF op = "OR" THEN l.want.num # 0 \/ r.want.num # 0
                                   ELSE l.want.num # 0 /\ r.want.num # 0)
<1>1. booleanAndOr(op, l, r, t) = IF ~Type_is_boolean(t) THEN Ends("assertion")
        ELSE IF ~(Usable(l) /\ Usable(r)) THEN Ends("undefined")
        ELSE allocate_stack_for_temp(t, v, w)
  BY DEF booleanAndOr
<1>2. CASE ~Type_is_boolean(t)
  BY <1>1, <1>2, EndsRight
<1>3. CASE Type_is_boolean(t) /\ ~(Usable(l) /\ Usable(r))
  BY <1>1, <1>3, EndsRight
<1>4. CASE Type_is_boolean(t) /\ Usable(l) /\ Usable(r)
  <2>1. (l.want.num = 0 <=> l.value.num = 0) /\ (r.want.num = 0 <=> r.value.num = 0)
    BY AnOperand
  <2>2. Truth(TRUE) = Plain(1) /\ Truth(FALSE) = Plain(0)
    BY DEF Truth
  <2>3. v = Truth(IF op = "OR" THEN l.value.num # 0 \/ r.value.num # 0
                                ELSE l.value.num # 0 /\ r.value.num # 0)
    BY <2>2 DEF Truth
  <2>4. v = w
    BY <2>1, <2>3 DEF Truth
  <2>5. get_llvm_type(t).kind = "int"
    BY <1>4, BitsAre, LLVMParts
  <2>6. Fitting(t, w) /\ Meaning(t, w) = w
    BY <2>5, TruthIs
  <2> HIDE DEF v, w
  <2> QED
    BY <1>1, <1>4, <2>4, <2>6, AllocateRight
<1> QED
  BY <1>2, <1>3, <1>4

LEMMA booleanNotRight ==
  ASSUME Table, WellFounded, NEW l, Sound(l), Right(l), NEW t \in AllTypes
  PROVE  Outcomes(booleanNot(l, t))
<1>1. booleanNot(l, t) = IF ~Usable(l) THEN Ends("undefined")
        ELSE IF get_llvm_type(t).kind # "int" THEN Ends("assertion")
        ELSE allocate_stack_for_temp(t, Truth(l.value.num = 0), Truth(l.want.num = 0))
  BY DEF booleanNot
<1>2. CASE ~Usable(l)
  BY <1>1, <1>2, EndsRight
<1>3. CASE Usable(l) /\ get_llvm_type(t).kind # "int"
  BY <1>1, <1>3, EndsRight
<1>4. CASE Usable(l) /\ get_llvm_type(t).kind = "int"
  BY <1>1, <1>4, AnOperand, TruthRight
<1> QED
  BY <1>2, <1>3, <1>4
-----------------------------------------------------------------------------
(* Addresses and what is at them. *)

\* What memory holds is a pattern of the type it is read as.
LEMMA ContentFits ==
  ASSUME Table, WellFounded, NEW t \in AllTypes, NEW c \in ContentsOf(t)
  PROVE  Fitting(t, c)
<1> DEFINE g == get_llvm_type(t)
           w == Bits(t)
<1>1. w \in Nat /\ TwoTo[w] \in Nat \ {0}
  BY BitsAre, TwoToIs
<1>2. g.kind \in Failures \cup {"int", "ptr", "struct", "void"}
  BY LLVMOfType
<1>3. Fitting(t, Plain(0))
  <2>1. 0 \in Below(w)
    BY <1>1 DEF Below
  <2> QED
    BY <2>1, PlainFits
<1>4. CASE g.kind \in Failures
  BY <1>3, <1>4 DEF ContentsOf
<1>5. CASE g.kind = "int"
  <2>1. PICK n \in Samples[g.width] : c = Plain(n)
    BY <1>5 DEF ContentsOf, Contents, Failures
  <2>2. g.width = w /\ ~Type_is_pointer(t) /\ (Type_is_boolean(t) \/ Type_is_integer(t))
    <3>1. g = IntType(w) /\ (Type_is_boolean(t) \/ Type_is_integer(t))
      BY <1>5, BitsAre
    <3>2. ~Type_is_pointer(t)
      BY <3>1, BitsAre
    <3> QED
      BY <3>1, <3>2, LLVMParts
  <2>3. PICK b \in Builtins : Type_get_base_type(t) = Type(b)
    BY <2>2 DEF Type_is_boolean, Type_is_integer, IsBuiltin, Builtins
  <2>4. Type(b).name = b
    BY DEF Type
  <2>5. w = Width[b]
    BY <2>2, <2>3, <2>4, PointerIs DEF Bits, Type_get_size, Table
  <2>6. n \in Below(w)
    BY <2>1, <2>2, <2>5, ExpressionsAssumption DEF ExpressionsAssumption, Below
  <2> QED
    BY <2>1, <2>6, PlainFits
<1>6. CASE g.kind = "ptr"
  <2>1. c = Plain(1)
    BY <1>6 DEF ContentsOf, Contents, Failures
  <2>2. w = Type_ptr_size /\ w > 1
    BY <1>6, LLVMOfType, BitsAre, WidthsAre
  <2>3. TwoTo[1] = 2 /\ TwoTo[1] <= TwoTo[w]
    <3> HIDE DEF w
    <3> QED
      BY <1>1, <2>2, TwoToIs, TwoToGrows
  <2>4. 1 \in Below(w)
    BY <1>1, <2>3 DEF Below
  <2> QED
    BY <2>1, <2>4, PlainFits
<1>7. CASE g.kind \in {"struct", "void"}
  BY <1>3, <1>7 DEF ContentsOf, Contents, Failures
<1> QED
  BY <1>2, <1>4, <1>5, <1>6, <1>7

\* An address and one moved by the same bytes.
LEMMA OffsetFits ==
  ASSUME Table, WellFounded, NEW t \in AllTypes, Type_is_pointer(t), NEW v, Fitting(t, v),
         NEW k \in Int, NEW size \in Int
  PROVE  Fitting(t, Offset(v, k, size))
<1>1. Bits(t) = Type_ptr_size /\ TwoTo[Bits(t)] \in Nat \ {0} /\ v.num \in Int
  <2>1. Bits(t) = Type_ptr_size /\ TwoTo[Bits(t)] \in Nat \ {0}
    BY BitsAre, TwoToIs
  <2> QED
    BY <2>1 DEF Fitting, Below
<1> DEFINE m == TwoTo[Type_ptr_size]
           n == v.num + k * size
<1>2. Offset(v, k, size) = IF k = 0 THEN v ELSE Plain(n % m)
  BY DEF Offset
<1>3. n \in Int /\ m \in Nat \ {0}
  <2>1. k * size \in Int
    OBVIOUS
  <2> QED
    BY <1>1, <2>1
<1> HIDE DEF n
<1>4. n % m \in Below(Bits(t))
  BY <1>1, <1>3 DEF Below
<1>5. Fitting(t, Plain(n % m))
  BY <1>4, PlainFits
<1> QED
  BY <1>2, <1>5

LEMMA addrOffsetRight ==
  ASSUME Table, WellFounded, NEW op, NEW l, NEW r, Sound(l), Sound(r), Right(l), Right(r),
         \/ Type_is_pointer(l.type) /\ Type_is_integer(r.type)
         \/ Type_is_integer(l.type) /\ Type_is_pointer(r.type)
  PROVE  Outcomes(addrOffset(op, l, r))
<1> DEFINE ptr == IF Type_is_pointer(Type_get_base_type(l.type)) THEN l ELSE r
           offset == IF ptr = l THEN r ELSE l
           pointee == get_llvm_type(Type_get_pointee_type(ptr.type))
           k == Signed(offset.value.num, offset.cg.width)
           v == Offset(ptr.value, k, Bytes(pointee))
           w == Meaning(ptr.type, Offset(Pattern(ptr.type, ptr.want), offset.want.num, Bytes(pointee)))
           t == Type_get_base_type(ptr.type)
           e == allocate_stack_for_temp(t, v, w)
<1>1. addrOffset(op, l, r) =
        IF ~Type_is_pointer(ptr.type) THEN Ends("assertion")
        ELSE IF op # "PLUS" THEN Ends("unimplemented")
        ELSE CASE pointee.kind \in Failures -> Ends(pointee.kind)
               [] pointee.kind = "void" -> Ends("undefined")
               [] OTHER -> e
  BY DEF addrOffset
<1>2. l.type \in AllTypes /\ r.type \in AllTypes
  BY DEF Sound
<1>3. Type_is_pointer(Type_get_base_type(l.type)) <=> Type_is_pointer(l.type)
  BY <1>2, PointerIs
<1>4. /\ ptr \in {l, r} /\ offset \in {l, r}
      /\ Type_is_pointer(ptr.type) /\ Type_is_integer(offset.type)
  <2>1. CASE Type_is_pointer(l.type) /\ Type_is_integer(r.type)
    BY <1>3, <2>1
  <2>2. CASE Type_is_integer(l.type) /\ Type_is_pointer(r.type)
    <3>1. ~Type_is_pointer(l.type)
      BY <1>2, <2>2, BitsAre
    <3>2. ptr = r
      BY <1>3, <3>1
    <3>3. r # l
      BY <2>2, <3>1
    <3> QED
      BY <2>2, <3>2, <3>3
  <2> QED
    BY <2>1, <2>2
<1> HIDE DEF ptr, offset
<1>5. Sound(ptr) /\ Right(ptr) /\ Sound(offset) /\ Right(offset)
  BY <1>4
<1>6. ptr.type \in AllTypes /\ offset.type \in AllTypes
  BY <1>5 DEF Sound
<1>7. k = offset.want.num /\ k \in Int
  <2>1. ~Type_is_boolean(offset.type) /\ ~Type_is_void(offset.type) /\ offset.cg.kind = "int"
    <3>1. /\ ~Type_is_boolean(offset.type) /\ get_llvm_type(offset.type) = IntType(Bits(offset.type))
          /\ ~Type_is_void(offset.type)
      BY <1>4, <1>6, BitsAre, LLVMOfType, LLVMParts
    <3> QED
      BY <1>5, <3>1, LLVMParts DEF Sound
  <2>2. /\ offset.want.num = Signed(offset.value.num, Bits(offset.type)) /\ offset.want.num \in Int
        /\ offset.cg.width = Bits(offset.type)
    BY <1>5, <2>1, AnOperand
  <2> QED
    BY <2>2
<1>8. Pattern(ptr.type, ptr.want) = ptr.value /\ Fitting(ptr.type, ptr.value)
  BY <1>5, AnOperand DEF Right
<1>9. w = Meaning(ptr.type, v)
  BY <1>7, <1>8
<1>10. CASE ~(op = "PLUS" /\ pointee.kind \notin Failures \cup {"void"})
  <2>1. addrOffset(op, l, r) \in {Ends("unimplemented"), Ends("undefined")} \cup {Ends(f) : f \in Failures}
    <3> HIDE DEF e, pointee
    <3>1. CASE op # "PLUS"
      BY <1>1, <1>4, <3>1
    <3>2. CASE op = "PLUS" /\ pointee.kind \in Failures
      <4>1. pointee.kind # "void"
        BY <3>2 DEF Failures
      <4>2. addrOffset(op, l, r) = Ends(pointee.kind)
        BY <1>1, <1>4, <3>2, <4>1
      <4> QED
        BY <3>2, <4>2
    <3>3. CASE op = "PLUS" /\ pointee.kind \notin Failures /\ pointee.kind = "void"
      BY <1>1, <1>4, <3>3
    <3> QED
      BY <1>10, <3>1, <3>2, <3>3
  <2> QED
    BY <2>1, EndsRight DEF Failures
<1>11. CASE op = "PLUS" /\ pointee.kind \notin Failures \cup {"void"}
  <2>1. addrOffset(op, l, r) = e
    <3> HIDE DEF e, pointee
    <3> QED
      BY <1>1, <1>4, <1>11
  <2>2. Bytes(pointee) \in Nat
    <3>1. Type_get_pointee_type(ptr.type) \in AllTypes
      BY <1>4, <1>6, PointeeIs
    <3> QED
      BY <1>11, <3>1, SizedIs, BytesAre
  <2> DEFINE size == Bytes(pointee)
  <2>3. Fitting(ptr.type, v)
    <3> HIDE DEF pointee, k
    <3> QED
      BY <1>4, <1>6, <1>7, <1>8, <2>2, OffsetFits
  <2>4. t \in AllTypes /\ Type_eq(ptr.type, t)
    BY <1>6, BaseType, EqOfBase
  <2> HIDE DEF v, w, t
  <2>5. Fitting(t, v) /\ w = Meaning(t, v)
    BY <1>6, <1>9, <2>3, <2>4, EqBits
  <2> QED
    BY <2>1, <2>4, <2>5, AllocateRight
<1> QED
  BY <1>10, <1>11

LEMMA getValueAtAddressRight ==
  ASSUME Table, WellFounded, NEW l, Sound(l), Right(l), NEW c,
         Type_is_pointer(l.type) => c \in ContentsOf(Type_get_pointee_type(l.type))
  PROVE  Outcomes(getValueAtAddress(l, c))
<1> DEFINE t == Type_get_pointee_type(l.type)
           g == get_llvm_type(t)
           At(v) == IF v.slot # << >> /\ v.slot[1].cg = g THEN v.slot[1].at ELSE c
<1>1. getValueAtAddress(l, c) = IF ~Type_is_pointer(l.type) THEN Ends("assertion")
        ELSE allocate_stack_for_temp(t, At(l.value), Meaning(t, At(l.want)))
  BY DEF getValueAtAddress
<1>2. CASE ~Type_is_pointer(l.type)
  BY <1>1, <1>2, EndsRight
<1>3. CASE Type_is_pointer(l.type)
  <2>1. t \in AllTypes
    BY <1>3, PointeeIs DEF Sound
  <2>2. Bits(t) = CgBits(g)
    BY <2>1, BitsAre
  <2>3. l.want.slot = l.value.slot
    BY AnOperand
  <2>4. Fitting(t, At(l.value))
    <3>1. CASE l.value.slot # << >> /\ l.value.slot[1].cg = g
      <4>1. Kept(l.value)
        BY <3>1 DEF Right, Fitting
      <4>2. PICK cg, n : /\ CgBits(cg) \in Nat /\ n \in Below(CgBits(cg))
                         /\ l.value.slot = << [cg |-> cg, at |-> Plain(n)] >>
        BY <4>1 DEF Kept
      <4>3. cg = g /\ At(l.value) = Plain(n)
        BY <3>1, <4>2
      <4> QED
        BY <2>2, <4>2, <4>3, PlainFits
    <3>2. CASE ~(l.value.slot # << >> /\ l.value.slot[1].cg = g)
      <4>1. At(l.value) = c
        BY <3>2
      <4> QED
        BY <1>3, <2>1, <4>1, ContentFits
    <3> QED
      BY <3>1, <3>2
  <2>5. At(l.want) = At(l.value)
    BY <2>3
  <2>6. getValueAtAddress(l, c) = allocate_stack_for_temp(t, At(l.value), Meaning(t, At(l.value)))
    BY <1>1, <1>3, <2>5
  <2> HIDE DEF At, t
  <2> QED
    BY <2>1, <2>4, <2>6, AllocateRight
<1> QED
  BY <1>2, <1>3

LEMMA getAddressOfValueRight ==
  ASSUME Table, WellFounded, NEW l, Sound(l), Right(l), l.type.stars < MaxStars
  PROVE  Outcomes(getAddressOfValue(l))
<1> DEFINE t == Type_get_ptr_type(l.type)
           v == AddressOf(l.cg, l.value)
           n == l.value.num
<1>1. l.type \in AllTypes /\ t \in AllTypes /\ Type_is_pointer(t)
  BY PtrTypeIs DEF Sound
<1>2. getAddressOfValue(l) = allocate_stack_for_temp(t, v, Meaning(t, v))
  BY AnOperand DEF getAddressOfValue
<1>3. v.num = StackAddress /\ v.slot = << [cg |-> l.cg, at |-> Plain(n)] >>
      /\ v = [num |-> v.num, slot |-> v.slot]
  BY DEF AddressOf
<1>4. StackAddress \in Below(Bits(t))
  <2> DEFINE p == Type_ptr_size
  <2>1. Bits(t) = p /\ p \in Nat /\ p > 1
    BY <1>1, BitsAre, WidthsAre
  <2> HIDE DEF p
  <2>2. p - 1 \in Nat /\ p = (p - 1) + 1
    BY <2>1
  <2>3. TwoTo[p - 1] \in Nat \ {0} /\ TwoTo[p] = 2 * TwoTo[p - 1]
    <3>1. TwoTo[1] = 2 /\ TwoTo[p - 1] \in Nat \ {0}
      BY <2>2, TwoToIs
    <3>2. TwoTo[(p - 1) + 1] = TwoTo[p - 1] * TwoTo[1]
      BY <2>2, TwoToAdds
    <3> QED
      BY <2>2, <3>1, <3>2
  <2>4. TwoTo[p - 1] \in 0 .. (TwoTo[p] - 1)
    BY <2>3
  <2> QED
    BY <2>1, <2>4 DEF Below, StackAddress, p
<1>5. Kept(v)
  <2>1. CgBits(l.cg) \in Nat /\ n \in Nat
    BY AnOperand DEF Right
  <2>2. n \in Below(CgBits(l.cg))
    <3>1. CASE ~Type_is_void(l.type)
      BY <3>1, AnOperand
    <3>2. CASE Type_is_void(l.type)
      <4>1. Bits(l.type) = 0 /\ n \in Below(Bits(l.type)) /\ TwoTo[0] = 1
        BY <1>1, <3>2, AnOperand, LLVMOfType, BitsAre, TwoToIs
      <4>2. n = 0
        BY <4>1 DEF Below
      <4>3. TwoTo[CgBits(l.cg)] \in Nat \ {0}
        BY <2>1, TwoToIs
      <4> QED
        BY <4>2, <4>3 DEF Below
    <3> QED
      BY <3>1, <3>2
  <2> QED
    BY <1>3, <2>1, <2>2 DEF Kept
<1> HIDE DEF v, t
<1>6. Fitting(t, v)
  BY <1>1, <1>3, <1>4, <1>5 DEF Fitting
<1> QED
  BY <1>1, <1>2, <1>6, AllocateRight
-----------------------------------------------------------------------------
\* A number cast to a type is kept modulo the width of the type.
LEMMA IntCastRight ==
  ASSUME Table, WellFounded, NEW l, Sound(l), Right(l), NEW t \in AllTypes, NEW signed \in BOOLEAN,
         \/ signed /\ ~Type_is_boolean(l.type)
         \/ ~signed /\ Type_is_boolean(l.type)
         \/ ~signed /\ Bits(t) <= Bits(l.type)
  PROVE  /\ IntCast(l.value, Bits(l.type), Bits(t), signed) = Plain(l.want.num % TwoTo[Bits(t)])
<1> DEFINE n == l.value.num
           N == l.want.num
           from == Bits(l.type)
           to == Bits(t)
<1>1. /\ from \in Nat /\ n \in Nat /\ N \in Int /\ TwoTo[from] \in Nat \ {0}
      /\ (Type_is_boolean(l.type) => N = n) /\ (~Type_is_boolean(l.type) => N = Signed(n, from))
  BY AnOperand
<1>2. to \in Nat /\ TwoTo[to] \in Nat \ {0}
  BY BitsAre, TwoToIs
<1>3. IntCast(l.value, from, to, signed) = Plain((IF signed THEN Signed(n, from) ELSE n) % TwoTo[to])
  BY DEF IntCast
<1>4. ~Type_is_boolean(l.type) => Congruent(TwoTo[from], N, n)
  BY SignedOperand
<1> HIDE DEF n, N, from, to
<1>5. CASE signed /\ ~Type_is_boolean(l.type)
  BY <1>1, <1>3, <1>5 DEF n, N, from, to
<1>6. CASE ~signed /\ Type_is_boolean(l.type)
  BY <1>1, <1>3, <1>6 DEF n, N, from, to
<1>7. CASE ~signed /\ ~Type_is_boolean(l.type) /\ to <= from
  <2>1. PICK i \in {0, 1} : n = N + i * TwoTo[from]
    BY <1>4, <1>7 DEF Congruent
  <2>2. PICK d \in Nat : TwoTo[from] = d * TwoTo[to]
    BY <1>1, <1>2, <1>7, TwoToDivides
  <2> DEFINE m == TwoTo[to]
             k == i * d
  <2>3. i * TwoTo[from] = k * m /\ k \in Int
    <3>1. CASE i = 0
      BY <1>1, <1>2, <2>2, <3>1
    <3>2. CASE i = 1
      BY <1>1, <1>2, <2>2, <3>2
    <3> QED
      BY <3>1, <3>2
  <2>4. m \in Nat \ {0} /\ n = N + k * m
    BY <1>2, <2>1, <2>3
  <2> HIDE DEF m, k
  <2>5. (N + k * m) % m = N % m
    BY <1>1, <2>3, <2>4, ModShift
  <2>6. n % m = N % m
    BY <2>4, <2>5
  <2>7. IntCast(l.value, from, to, signed) = Plain(n % m)
    BY <1>3, <1>7 DEF m
  <2> QED
    BY <2>6, <2>7 DEF n, N, from, to, m
<1> QED
  BY <1>5, <1>6, <1>7 DEF from, to

\* Of the casts there are, each makes the pattern of the number meant.
LEMMA build_castRight ==
  ASSUME Table, WellFounded, NEW l, Sound(l), Right(l), NEW t \in AllTypes,
         NEW v, v = build_cast(l.type, l.value, t), v # NULL
  PROVE  Fitting(t, v) /\ Converted(l.type, t, l.want) = Meaning(t, v)
<1> DEFINE s == l.type
           from == Bits(s)
           to == Bits(t)
           int == Type_is_integer(s)
           bool == Type_is_boolean(s)
           ptr == Type_is_pointer(s)
           same == Type_eq(s, t) \/ (ptr /\ Type_is_pointer(t))
           N == l.want.num
<1>1. /\ s \in AllTypes /\ from \in Nat /\ N \in Int /\ l.value.num \in Nat
      /\ (N = 0 <=> l.value.num = 0) /\ N % TwoTo[from] = l.value.num
      /\ Fitting(s, l.value) /\ l.want = Meaning(s, l.value)
  BY AnOperand DEF Right
<1>2. /\ ptr => from = Type_ptr_size /\ ~bool /\ ~int
      /\ bool => ~int
      /\ Type_is_pointer(t) => to = Type_ptr_size /\ ~Type_is_boolean(t) /\ ~Type_is_integer(t)
      /\ Type_is_boolean(t) => ~Type_is_integer(t) /\ get_llvm_type(t).kind = "int"
      /\ to <= Type_ptr_size
  BY <1>1, BitsAre, LLVMParts
<1>3. CASE same
  <2>1. v = l.value
    BY <1>3 DEF build_cast
  <2>2. Converted(s, t, l.want) = l.want
    <3>1. ~(~Type_eq(s, t) /\ Type_is_boolean(t))
      BY <1>2, <1>3
    <3> HIDE DEF s, ptr
    <3> QED
      BY <1>3, <3>1 DEF Converted, ptr
  <2>3. (Fitting(s, l.value) <=> Fitting(t, l.value)) /\ Meaning(s, l.value) = Meaning(t, l.value)
    BY <1>1, <1>3, EqBits
  <2> QED
    BY <1>1, <2>1, <2>2, <2>3
<1>4. CASE ~same /\ Type_is_boolean(t)
  <2>1. Converted(s, t, l.want) = Truth(N # 0)
    BY <1>4 DEF Converted
  <2>2. v = Truth(l.value.num # 0)
    <3>1. v = CASE int /\ Type_is_integer(t) ->
                   IF from = to THEN l.value ELSE IntCast(l.value, from, to, Type_is_signed(s))
                [] ptr /\ Type_is_integer(t) -> IntCast(l.value, from, to, FALSE)
                [] int /\ Type_is_pointer(t) -> IntCast(l.value, from, to, Type_is_signed(s))
                [] (int \/ bool) /\ Type_is_boolean(t) -> Truth(l.value.num # 0)
                [] bool /\ Type_is_integer(t) -> IntCast(l.value, from, to, Type_is_signed(s))
                [] OTHER -> NULL
      BY <1>4 DEF build_cast
    <3>2. ~Type_is_integer(t) /\ ~Type_is_pointer(t)
      BY <1>2, <1>4
    <3> HIDE DEF s, from, to, int, bool, ptr
    <3>3. v = IF int \/ bool THEN Truth(l.value.num # 0) ELSE NULL
      BY <1>4, <3>1, <3>2
    <3> QED
      BY <3>3
  <2>3. Truth(N # 0) = Truth(l.value.num # 0)
    BY <1>1 DEF Truth
  <2> QED
    BY <1>2, <1>4, <2>1, <2>2, <2>3, TruthIs
<1>5. CASE ~same /\ ~Type_is_boolean(t)
  <2>1. Converted(s, t, l.want) = Wrapped(t, N)
    BY <1>5 DEF Converted
  <2>2. v = Plain(N % TwoTo[to])
    <3>1. v = CASE int /\ Type_is_integer(t) ->
                   IF from = to THEN l.value ELSE IntCast(l.value, from, to, Type_is_signed(s))
                [] ptr /\ Type_is_integer(t) -> IntCast(l.value, from, to, FALSE)
                [] int /\ Type_is_pointer(t) -> IntCast(l.value, from, to, Type_is_signed(s))
                [] (int \/ bool) /\ Type_is_boolean(t) -> Truth(l.value.num # 0)
                [] bool /\ Type_is_integer(t) -> IntCast(l.value, from, to, Type_is_signed(s))
                [] OTHER -> NULL
      BY <1>5 DEF build_cast
    <3>2. Type_is_signed(s) = int
      BY DEF Type_is_signed
    <3>3. int \/ (bool /\ ~int) => IntCast(l.value, from, to, int) = Plain(N % TwoTo[to])
      <4>1. CASE int
        <5>1. int = TRUE /\ ~bool
          BY <1>2, <4>1
        <5> QED
          BY <5>1, IntCastRight
      <4>2. CASE bool /\ ~int
        <5>1. int = FALSE
          BY <4>2
        <5> QED
          BY <4>2, <5>1, IntCastRight
      <4> QED
        BY <4>1, <4>2
    <3>4. ptr => IntCast(l.value, from, to, FALSE) = Plain(N % TwoTo[to])
      BY <1>2, IntCastRight
    <3>5. int /\ from = to => l.value = Plain(N % TwoTo[to])
      BY <1>1, <1>2 DEF Fitting, Plain
    <3>6. int \in BOOLEAN /\ (bool => ~int) /\ (ptr => ~int /\ ~bool)
          /\ (Type_is_pointer(t) => ~Type_is_integer(t))
      BY <1>2 DEF Type_is_integer, IsBuiltin
    <3> HIDE DEF s, from, to, int, bool, ptr, N
    <3>7. CASE int /\ Type_is_integer(t)
      <4>1. v = IF from = to THEN l.value ELSE IntCast(l.value, from, to, int)
        BY <1>5, <3>1, <3>2, <3>6, <3>7
      <4> QED
        BY <3>3, <3>5, <3>7, <4>1
    <3>8. CASE ptr /\ Type_is_integer(t)
      <4>1. v = IntCast(l.value, from, to, FALSE)
        BY <1>5, <3>1, <3>6, <3>8
      <4> QED
        BY <3>4, <3>8, <4>1
    <3>9. CASE int /\ Type_is_pointer(t)
      <4>1. v = IntCast(l.value, from, to, int)
        BY <1>5, <3>1, <3>2, <3>6, <3>9
      <4> QED
        BY <3>3, <3>9, <4>1
    <3>10. CASE bool /\ Type_is_integer(t)
      <4>1. v = IntCast(l.value, from, to, int)
        BY <1>5, <3>1, <3>2, <3>6, <3>10
      <4> QED
        BY <3>3, <3>6, <3>10, <4>1
    <3>11. CASE ~(\/ (int \/ ptr \/ bool) /\ Type_is_integer(t)
                  \/ int /\ Type_is_pointer(t))
      <4>1. v = NULL
        BY <1>5, <3>1, <3>11
      <4> QED
        BY <4>1
    <3> QED
      BY <3>7, <3>8, <3>9, <3>10, <3>11
  <2> QED
    BY <1>1, <2>1, <2>2, WrappedIs
<1> QED
  BY <1>3, <1>4, <1>5

LEMMA castRight ==
  ASSUME Table, WellFounded, NEW l, Sound(l), Right(l), NEW t \in AllTypes
  PROVE  Outcomes(cast(l, t))
<1> DEFINE failing == get_llvm_type(t).kind
           v == build_cast(l.type, l.value, t)
           w == Converted(l.type, t, l.want)
<1>1. cast(l, t) = CASE failing \in Failures -> Ends(failing)
                     [] failing \notin Failures /\ v = NULL -> Ends("refused")
                     [] OTHER -> allocate_stack_for_temp(t, v, w)
  BY DEF cast
<1> HIDE DEF failing, v, w
<1>2. CASE failing \in Failures
  <2>1. cast(l, t) = Ends(failing)
    BY <1>1, <1>2
  <2> QED
    BY <1>2, <2>1, EndsRight DEF Failures
<1>3. CASE failing \notin Failures /\ v = NULL
  <2>1. cast(l, t) = Ends("refused")
    BY <1>1, <1>3
  <2> QED
    BY <2>1, EndsRight
<1>4. CASE failing \notin Failures /\ v # NULL
  <2>1. cast(l, t) = allocate_stack_for_temp(t, v, w)
    BY <1>1, <1>4
  <2>2. Fitting(t, v) /\ w = Meaning(t, v)
    BY <1>4, build_castRight DEF v, w
  <2> QED
    BY <2>1, <2>2, AllocateRight
<1> QED
  BY <1>2, <1>3, <1>4
-----------------------------------------------------------------------------
(* The generators, whichever the compiler chooses. *)

LEMMA AllocateStops ==
  ASSUME NEW t, NEW v, NEW w, get_llvm_type(t).kind \in Failures \cup {"void"}
  PROVE  \E how \in Hows \ {"ok"} : allocate_stack_for_temp(t, v, w) = Ends(how)
<1> DEFINE kind == get_llvm_type(t).kind
           e == allocate_stack_for_temp(t, v, w)
<1>1. (kind \in Failures => e = Ends(kind)) /\ (kind \notin Failures /\ kind = "void" => e = Ends("undefined"))
  BY DEF allocate_stack_for_temp, Failures
<1> HIDE DEF kind, e
<1> QED
  BY <1>1 DEF Failures, Hows, kind, e

LEMMA StoppedRight == ASSUME NEW e, \E how \in Hows \ {"ok"} : e = Ends(how) PROVE Outcomes(e)
BY EndsRight

LEMMA FieldRight ==
  ASSUME Table, WellFounded, NEW l, Sound(l), NEW field, NEW c,
         LET found == codegen_FieldAccess(l, field, Plain(0))
         IN found.how = "ok" => c \in ContentsOf(found.type)
  PROVE  Outcomes(codegen_FieldAccess(l, field, c))
<1> DEFINE base == Type_get_base_type(l.type)
           objectType == IF Type_is_pointer(base) THEN Type_get_pointee_type(base) ELSE base
           failing == get_llvm_type(objectType).kind
           there == Type_is_typedef(objectType) /\ FieldPlaces(objectType, field) # {}
           t == Type_get_TypeField(objectType, field).type
<1>1. \A v : codegen_FieldAccess(l, field, v) = IF ~there THEN Ends("refused")
             ELSE IF failing \in Failures THEN Ends(failing)
             ELSE allocate_stack_for_temp(t, v, Meaning(t, v))
  BY DEF codegen_FieldAccess
<1>2. objectType \in AllTypes
  <2>1. base \in AllTypes /\ Type_get_base_type(base) = base
    BY BaseType DEF Sound
  <2> HIDE DEF base
  <2> QED
    BY <2>1, PointeeIs
<1>3. there => t \in AllTypes
  BY <1>2, FieldType
<1> HIDE DEF objectType, failing, there, t
<1>4. CASE ~there \/ failing \in Failures
  BY <1>1, <1>4, EndsRight DEF Failures
<1>5. CASE there /\ failing \notin Failures
  <2>1. \A v : codegen_FieldAccess(l, field, v) = allocate_stack_for_temp(t, v, Meaning(t, v))
    BY <1>1, <1>5
  <2>2. CASE get_llvm_type(t).kind \in Failures \cup {"void"}
    BY <2>1, <2>2, AllocateStops, StoppedRight
  <2>3. CASE get_llvm_type(t).kind \notin Failures \cup {"void"}
    <3> DEFINE w == Meaning(t, Plain(0))
               found == allocate_stack_for_temp(t, Plain(0), w)
    <3>1. found = Expression(NoType, t, get_llvm_type(t), Plain(0), w)
      <4> HIDE DEF w
      <4> QED
        BY <2>3 DEF allocate_stack_for_temp, Failures
    <3>2. found.how = "ok" /\ found.type = t
      BY <3>1 DEF Expression, Outcome
    <3>3. codegen_FieldAccess(l, field, Plain(0)) = found
      BY <2>1
    <3>4. c \in ContentsOf(t)
      <4> HIDE DEF found
      <4> QED
        BY <3>2, <3>3
    <3>5. Fitting(t, c)
      BY <1>3, <1>5, <3>4, ContentFits
    <3> QED
      BY <1>3, <1>5, <2>1, <3>5, AllocateRight
  <2> QED
    BY <2>2, <2>3
<1> QED
  BY <1>4, <1>5
-----------------------------------------------------------------------------
LEMMA BinaryRight ==
  ASSUME TypesInv, NEW op \in BinaryOps, NEW l, NEW r, Sound(l), Sound(r), Right(l), Right(r),
         Defined(op, l, r)
  PROVE  Outcomes(codegenBinaryOperator(op, l, r))
<1> DEFINE scope == scope_get_Type_from_binop(op, l.scope, r.scope)
           gen == RuleFor(op, l.scope, r.scope).gen
           res == CASE scope = NoType -> Ends("refused")
                    [] scope # NoType /\ gen = "addrOffset" -> addrOffset(op, l, r)
                    [] scope # NoType /\ gen = "sintBOp" -> sintBOp(op, l, r, scope)
                    [] scope # NoType /\ gen = "compare" -> compare(op, l, r, scope)
                    [] scope # NoType /\ gen \in {"booleanAnd", "booleanOr"} ->
                         booleanAndOr(op, l, r, scope)
           new == scope # NoType /\ gen = "addrOffset" /\ (l.new \/ r.new)
           f == [res EXCEPT !.scope = scope, !.new = new]
<1> USE DEF TypesInv
<1>1. codegenBinaryOperator(op, l, r) = f
  BY DEF codegenBinaryOperator
<1>2. /\ l.type \in AllTypes /\ l.scope \in AllTypes \cup {NoType}
      /\ r.type \in AllTypes /\ r.scope \in AllTypes \cup {NoType}
  BY DEF Sound
<1>3. op # "CAST"
  BY DEF BinaryOps, Arithmetic, Comparisons
<1>4. /\ gen \in {"addrOffset", "sintBOp", "compare", "booleanAnd", "booleanOr"}
      /\ gen = "sintBOp" => op \in Arithmetic
      /\ gen = "addrOffset" => Type_is_pointer(l.scope) \/ Type_is_pointer(r.scope)
  <2>1. op \in BinaryOps \cup {"CAST"}
    OBVIOUS
  <2>2. gen = RuleFor(op, l.scope, r.scope).gen
    OBVIOUS
  <2> HIDE DEF gen
  <2>3. gen = "addrOffset" => Type_is_pointer(l.scope) \/ Type_is_pointer(r.scope)
    BY <2>2, RuleOfAddresses
  <2>4. gen \in {"addrOffset", "sintBOp", "compare", "booleanAnd", "booleanOr"}
    BY <1>3, <2>1, <2>2, RuleIs
  <2>5. gen = "sintBOp" => op \in Arithmetic
    BY <2>1, <2>2, RuleIs
  <2> QED
    BY <2>3, <2>4, <2>5
<1>5. scope # NoType =>
        /\ scope \in AllTypes /\ l.scope \in AllTypes /\ r.scope \in AllTypes
        /\ gen \in {"addrOffset", "sintBOp"} =>
             \/ Type_is_integer(l.scope) /\ Type_is_pointer(r.scope) /\ scope = r.scope
             \/ Type_is_pointer(l.scope) /\ Type_is_integer(r.scope) /\ scope = l.scope
             \/ Type_eq(l.scope, r.scope) /\ Type_is_integer(l.scope) /\ scope = l.scope
  BY <1>2, BinopTypes
<1>6. /\ scope = NoType => res = Ends("refused")
      /\ scope # NoType /\ gen = "addrOffset" => res = addrOffset(op, l, r)
      /\ scope # NoType /\ gen = "sintBOp" => res = sintBOp(op, l, r, scope)
      /\ scope # NoType /\ gen = "compare" => res = compare(op, l, r, scope)
      /\ scope # NoType /\ gen \in {"booleanAnd", "booleanOr"} => res = booleanAndOr(op, l, r, scope)
  OBVIOUS
<1> HIDE DEF scope, gen, res, new
<1>7. Shape(res) /\ Outcomes(res) => Outcomes(f)
  BY ExceptRight
<1> HIDE DEF f
<1>8. CASE scope = NoType
  BY <1>1, <1>6, <1>7, <1>8, EndsMade, EndsRight DEF Hows
<1>9. CASE scope # NoType /\ gen \in {"compare", "booleanAnd", "booleanOr"}
  <2>1. Made(res, scope)
    BY <1>5, <1>6, <1>9, compareMade, booleanAndOrMade
  <2>2. Outcomes(res)
    BY <1>5, <1>6, <1>9, compareRight, booleanAndOrRight
  <2> QED
    BY <1>1, <1>7, <2>1, <2>2 DEF Made
<1>10. CASE scope # NoType /\ gen = "sintBOp"
  <2>1. Made(res, scope)
    BY <1>5, <1>6, <1>10, sintBOpMade
  <2>2. Type_is_integer(scope) => Type_eq(scope, l.type)
    <3>1. Type_is_integer(scope) => scope = l.scope
      <4>1. Type_is_pointer(scope) => ~Type_is_integer(scope)
        BY <1>5, <1>10, BitsAre
      <4> QED
        BY <1>5, <1>10, <4>1
    <3> QED
      BY <1>10, <3>1, OperandIs, <1>5, NoTypeIsNone
  <2>3. Outcomes(res)
    BY <1>4, <1>5, <1>6, <1>10, <2>2, sintBOpRight
  <2> QED
    BY <1>1, <1>7, <2>1, <2>3 DEF Made
<1>11. CASE scope # NoType /\ gen = "addrOffset"
  <2>1. Shape(res)
    BY <1>2, <1>6, <1>11, addrOffsetMade DEF Made
  <2>2. l.scope # NoType /\ r.scope # NoType
    BY <1>5, <1>11, NoTypeIsNone
  <2>3. \/ Type_is_integer(l.scope) /\ Type_is_pointer(r.scope)
        \/ Type_is_pointer(l.scope) /\ Type_is_integer(r.scope)
    <3>1. ASSUME Type_eq(l.scope, r.scope), Type_is_integer(l.scope) PROVE FALSE
      <4>1. Type_is_integer(r.scope) /\ ~Type_is_pointer(l.scope) /\ ~Type_is_pointer(r.scope)
        BY <1>5, <1>11, <3>1, IntegerIs
      <4> QED
        BY <1>4, <1>11, <4>1
    <3> QED
      BY <1>5, <1>11, <3>1
  <2>4. \/ Type_is_pointer(l.type) /\ Type_is_integer(r.type)
        \/ Type_is_integer(l.type) /\ Type_is_pointer(r.type)
    BY <2>2, <2>3, OperandIs
  <2>5. Outcomes(res)
    BY <1>6, <1>11, <2>4, addrOffsetRight
  <2> QED
    BY <1>1, <1>7, <2>1, <2>5
<1> QED
  BY <1>4, <1>8, <1>9, <1>10, <1>11

LEMMA UnaryRight ==
  ASSUME TypesInv, NEW op \in UnaryOps, NEW l, Sound(l), Right(l), NEW c,
         op = "TAKE_ADDRESS" => l.type.stars < MaxStars /\ l.scope.stars < MaxStars,
         Type_is_pointer(l.type) => c \in ContentsOf(Type_get_pointee_type(l.type))
  PROVE  Outcomes(codegenUnaryOperator(op, l, c))
<1> DEFINE scope == scope_get_Type_from_uop(op, l.scope)
           res == CASE scope = NoType -> Ends("refused")
                    [] scope # NoType /\ op = "MINUS" -> intNegate(l, scope)
                    [] scope # NoType /\ op = "NOT" -> booleanNot(l, scope)
                    [] scope # NoType /\ op = "TAKE_ADDRESS" -> getAddressOfValue(l)
                    [] scope # NoType /\ op = "PTR_DEREFERENCE" -> getValueAtAddress(l, c)
           new == l.new /\ op \in {"TAKE_ADDRESS", "PTR_DEREFERENCE"}
           f == [res EXCEPT !.scope = scope, !.new = new]
<1> USE DEF TypesInv
<1>1. codegenUnaryOperator(op, l, c) = f
  BY DEF codegenUnaryOperator
<1>2. l.type \in AllTypes /\ l.scope \in AllTypes \cup {NoType}
  BY DEF Sound
<1>3. scope # NoType => scope \in AllTypes
  BY <1>2, UnopTypes
<1>4. /\ scope = NoType => res = Ends("refused")
      /\ scope # NoType /\ op = "MINUS" => res = intNegate(l, scope)
      /\ scope # NoType /\ op = "NOT" => res = booleanNot(l, scope)
      /\ scope # NoType /\ op = "TAKE_ADDRESS" => res = getAddressOfValue(l)
      /\ scope # NoType /\ op = "PTR_DEREFERENCE" => res = getValueAtAddress(l, c)
  OBVIOUS
<1> HIDE DEF scope, res, new
<1>5. Shape(res) /\ Outcomes(res) => Outcomes(f)
  BY ExceptRight
<1> HIDE DEF f
<1>6. CASE scope = NoType
  BY <1>1, <1>4, <1>5, <1>6, EndsMade, EndsRight DEF Hows
<1>7. CASE scope # NoType /\ op \in {"MINUS", "NOT"}
  <2>1. Made(res, scope)
    BY <1>3, <1>4, <1>7, intNegateMade, booleanNotMade
  <2>2. Outcomes(res)
    BY <1>3, <1>4, <1>7, intNegateRight, booleanNotRight
  <2> QED
    BY <1>1, <1>5, <2>1, <2>2 DEF Made
<1>8. CASE scope # NoType /\ op = "TAKE_ADDRESS"
  <2>1. Shape(res)
    BY <1>2, <1>4, <1>8, getAddressOfValueMade DEF Made
  <2>2. Outcomes(res)
    BY <1>4, <1>8, getAddressOfValueRight
  <2> QED
    BY <1>1, <1>5, <2>1, <2>2
<1>9. CASE scope # NoType /\ op = "PTR_DEREFERENCE"
  <2>1. Shape(res)
    <3>1. Type_is_pointer(l.type) => Shape(getValueAtAddress(l, c))
      BY <1>2, getValueAtAddressMade DEF Made
    <3>2. ~Type_is_pointer(l.type) => Shape(getValueAtAddress(l, c))
      <4>1. "assertion" \in Hows \ {"ok"}
        BY DEF Hows
      <4> QED
        BY <1>2, <4>1, getValueAtAddressMade, EndsMade
    <3> QED
      BY <1>4, <1>9, <3>1, <3>2
  <2>2. Outcomes(res)
    BY <1>4, <1>9, getValueAtAddressRight
  <2> QED
    BY <1>1, <1>5, <2>1, <2>2
<1> QED
  BY <1>6, <1>7, <1>8, <1>9 DEF UnaryOps

LEMMA CastRight ==
  ASSUME TypesInv, NEW l, Sound(l), Right(l), NEW t \in AllTypes
  PROVE  Outcomes(codegenCast(l, t))
<1> DEFINE scope == scope_get_Type_from_binop("CAST", l.scope, t)
           res == CASE scope = NoType -> Ends("refused")
                    [] OTHER -> cast(l, t)
           f == [res EXCEPT !.scope = scope, !.const = l.const]
<1> USE DEF TypesInv
<1>1. codegenCast(l, t) = f
  BY DEF codegenCast
<1>2. res = Ends("refused") \/ res = cast(l, t)
  OBVIOUS
<1> HIDE DEF scope, res
<1>3. Shape(res) /\ Outcomes(res) => Outcomes(f)
  BY ExceptRight
<1>4. Shape(res) /\ Outcomes(res)
  <2>1. CASE res = Ends("refused")
    BY <2>1, EndsMade, EndsRight DEF Hows
  <2>2. CASE res = cast(l, t)
    BY <2>2, castMade, castRight DEF Made
  <2> QED
    BY <1>2, <2>1, <2>2
<1> QED
  BY <1>1, <1>3, <1>4
-----------------------------------------------------------------------------
(* Expressions of one node. *)

\* Small numbers mean themselves.
LEMMA SmallRight ==
  ASSUME Table, WellFounded, NEW t \in AllTypes, NEW n \in Nat, 2 * n < TwoTo[Bits(t)]
  PROVE  Fitting(t, Plain(n)) /\ Meaning(t, Plain(n)) = Plain(n)
<1> DEFINE w == Bits(t)
<1>1. w \in Nat /\ TwoTo[w] \in Nat \ {0}
  BY BitsAre, TwoToIs
<1> HIDE DEF w
<1>2. n \in 0..(TwoTo[w] - 1) /\ Signed(n, w) = n
  BY <1>1 DEF Signed, w
<1>3. Fitting(t, Plain(n))
  BY <1>2, PlainFits DEF Below, w
<1>4. Meaning(t, Plain(n)) = [num |-> n, slot |-> << >>]
  BY <1>2, PlainIs DEF Meaning, w
<1> QED
  BY <1>3, <1>4, PlainIs

LEMMA PointerRight ==
  ASSUME Table, WellFounded, NEW t \in AllTypes, Type_is_pointer(t), NEW n \in {0, 1}
  PROVE  Fitting(t, Plain(n)) /\ Meaning(t, Plain(n)) = Plain(n)
<1> DEFINE w == Bits(t)
<1>1. w \in Nat /\ w > 1
  BY BitsAre, WidthsAre
<1> HIDE DEF w
<1>2. TwoTo[2] = 4 /\ TwoTo[2] <= TwoTo[w] /\ TwoTo[w] \in Nat
  BY <1>1, TwoToIs, TwoToGrows
<1>3. n \in Nat /\ 2 * n < TwoTo[w]
  BY <1>2
<1> QED
  BY <1>3, SmallRight DEF w

\* What is allocated and then said to be of a type.
LEMMA AllocateTyped ==
  ASSUME Table, WellFounded, NEW t \in AllTypes, NEW v, NEW w, Fitting(t, v), w = Meaning(t, v), NEW f,
         LET res == allocate_stack_for_temp(t, v, w)
         IN \/ f = [res EXCEPT !.scope = t, !.const = TRUE]
            \/ f = [res EXCEPT !.scope = t, !.type = t]
            \/ f = [res EXCEPT !.scope = t, !.type = t, !.const = TRUE]
  PROVE  Outcomes(f)
<1> DEFINE res == allocate_stack_for_temp(t, v, w)
<1>1. Shape(res) /\ (res.how = "ok" => res.type = t)
  <2>1. Made(res, t)
    BY AllocateMade
  <2> HIDE DEF res
  <2> QED
    BY <2>1 DEF Made
<1>2. Outcomes(res)
  BY AllocateRight
<1>3. \/ f = [res EXCEPT !.scope = t, !.const = TRUE]
      \/ f = [res EXCEPT !.scope = t, !.type = t]
      \/ f = [res EXCEPT !.scope = t, !.type = t, !.const = TRUE]
  OBVIOUS
<1> HIDE DEF res
<1>4. CASE f = [res EXCEPT !.scope = t, !.const = TRUE]
  BY <1>1, <1>2, <1>4, ExceptRight
<1>5. CASE f = [res EXCEPT !.scope = t, !.type = t] \/ f = [res EXCEPT !.scope = t, !.type = t, !.const = TRUE]
  BY <1>1, <1>2, <1>5, TypedRight
<1> QED
  BY <1>3, <1>4, <1>5

LEMMA BuiltinBits ==
  ASSUME Table, WellFounded, NEW b \in Builtins
  PROVE  Type(b) \in AllTypes /\ Bits(Type(b)) = Width[b]
<1> DEFINE t == Type(b)
<1>1. b \in DOMAIN types /\ types[b].kind = "builtin" /\ types[b].size = Width[b]
  BY DEF Table
<1>2. t \in AllTypes /\ t.stars = 0 /\ t.name = b
  BY <1>1, TypesAssumption DEF Type, AllTypes, TypesAssumption
<1>3. Type_get_base_type(t) = t
  <2>1. t = Type(b) /\ BaseOf[b] = Type(b)
    BY <1>1, BaseIs
  <2> HIDE DEF t
  <2> QED
    BY <1>2, <2>1 DEF Type_get_base_type
<1>4. ~Type_is_pointer(t)
  BY <1>2, <1>3, PointerIs
<1> HIDE DEF t
<1>5. Bits(t) = Width[b]
  BY <1>1, <1>2, <1>3, <1>4 DEF Bits, KindOf, Type_get_size
<1> QED
  BY <1>2, <1>5 DEF t

LEMMA ConstantsRight == ASSUME TypesInv, NEW a \in Constants PROVE Outcomes(a)
<1>1. CASE \E w \in {Width[b] : b \in Literals} : \E n \in Samples[w] : a = Number(w, n)
  <2>1. PICK b \in Literals : \E n \in Samples[Width[b]] : a = Number(Width[b], n)
    BY <1>1
  <2> PICK n \in Samples[Width[b]] : a = Number(Width[b], n)
    BY <2>1
  <2>2. b \in Builtins
    BY DEF Literals, Builtins
  <2> DEFINE d == CHOOSE k \in Builtins : Width[k] = Width[b]
             t == Type_int_type(Width[b])
  <2>3. d \in Builtins /\ Width[d] = Width[b] /\ t = Type(d)
    BY <2>2 DEF Type_int_type
  <2> DEFINE v == Plain(n)
             w == Meaning(t, Plain(n))
  <2>4. a = [allocate_stack_for_temp(t, v, w) EXCEPT !.scope = t, !.const = TRUE]
    BY DEF Number
  <2> HIDE DEF t, d
  <2>5. t \in AllTypes /\ Bits(t) = Width[b]
    BY <2>3, BuiltinBits DEF TypesInv
  <2>6. n \in Below(Bits(t))
    BY <2>2, <2>5, ExpressionsAssumption DEF ExpressionsAssumption, Below
  <2>7. Fitting(t, v)
    BY <2>6, PlainFits
  <2> HIDE DEF v
  <2> QED
    BY <2>4, <2>5, <2>7, AllocateTyped DEF TypesInv, v
<1>2. CASE a = Null
  <2> DEFINE t == Type_get_ptr_type(Type("void"))
  <2>1. t \in AllTypes
    BY NamedTypes
  <2>2. Type_is_pointer(t)
    <3>1. t.name = "void" /\ t.stars = 1
      BY NamedTypes
    <3> HIDE DEF t
    <3> QED
      BY <2>1, <3>1, VoidIs DEF TypesInv
  <2>3. a = [allocate_stack_for_temp(t, Plain(0), Plain(0)) EXCEPT !.scope = t, !.const = TRUE]
    BY <1>2 DEF Null
  <2> HIDE DEF t
  <2>4. Fitting(t, Plain(0)) /\ Plain(0) = Meaning(t, Plain(0))
    BY <2>1, <2>2, PointerRight DEF TypesInv
  <2> QED
    BY <2>1, <2>3, <2>4, AllocateTyped DEF TypesInv
<1>3. CASE a = String
  <2> DEFINE t == Type(names["string"])
             char == Type(names["char"])
             base == Type_get_base_type(char)
             size == IF Type_is_typedef(base) THEN SizeOf[base.name] ELSE Type_get_size(char)
             made == get_llvm_type(t) = PointerType /\ size > 0
  <2>1. t \in AllTypes
    BY NamedTypes
  <2>2. CASE made
    <3>1. a = [allocate_stack_for_temp(t, Plain(1), Plain(1)) EXCEPT !.scope = t, !.type = t, !.const = TRUE]
      BY <1>3, <2>2 DEF String, scope_get_Type_from_name
    <3> HIDE DEF t
    <3>2. Type_is_pointer(t)
      BY <2>1, <2>2, LLVMOfType, LLVMParts DEF TypesInv
    <3>3. Fitting(t, Plain(1)) /\ Plain(1) = Meaning(t, Plain(1))
      BY <2>1, <3>2, PointerRight DEF TypesInv
    <3> QED
      BY <2>1, <3>1, <3>3, AllocateTyped DEF TypesInv
  <2>3. CASE ~made
    <3>1. a = [Ends("undefined") EXCEPT !.scope = t, !.type = t, !.const = TRUE]
      BY <1>3, <2>3 DEF String, scope_get_Type_from_name
    <3>2. a.how = "undefined"
      <4>1. "undefined" \in Hows \ {"ok"}
        BY DEF Hows
      <4> HIDE DEF t
      <4> QED
        BY <3>1, <4>1, EndsMade, Except
    <3> QED
      BY <3>2 DEF Outcomes
  <2> QED
    BY <2>2, <2>3
<1> QED
  BY <1>1, <1>2, <1>3 DEF Constants

LEMMA VariableRight ==
  ASSUME TypesInv, NEW t \in AllTypes, NEW c \in ContentsOf(t)
  PROVE  Outcomes(Variable(t, c))
<1>1. Fitting(t, c)
  BY ContentFits DEF TypesInv
<1> QED
  BY <1>1, AllocateTyped DEF Variable, TypesInv

LEMMA VoidCallRight == ASSUME TypesInv PROVE Outcomes(VoidCall)
<1> DEFINE t == Type("void")
<1> USE DEF TypesInv
<1>1. /\ VoidCall.type = t /\ VoidCall.value = Plain(0) /\ VoidCall.want = Plain(0)
      /\ VoidCall.cg = PointerType
  BY DEF VoidCall, Expression, Outcome
<1>2. t \in AllTypes /\ Bits(t) \in Nat
  BY BuiltinBits, BitsAre DEF Builtins
<1>3. 2 * 0 < TwoTo[Bits(t)]
  BY <1>2, TwoToIs
<1>4. Fitting(t, Plain(0)) /\ Meaning(t, Plain(0)) = Plain(0)
  BY <1>2, <1>3, SmallRight
<1>5. CgBits(PointerType) \in Nat
  BY LLVMParts, WidthsAre DEF CgBits
<1> QED
  BY <1>1, <1>4, <1>5 DEF Outcomes, Right

LEMMA NeedsRight ==
  ASSUME TypesInv, NEW t \in AllTypes, NEW e, Sized(t) => Outcomes(e)
  PROVE  Outcomes(Needs(t, e))
<1> DEFINE kind == get_llvm_type(t).kind
<1>1. \/ kind \in Failures /\ Needs(t, e) = [Ends(kind) EXCEPT !.type = t]
      \/ Needs(t, e) = [Ends("undefined") EXCEPT !.type = t]
      \/ kind \notin Failures \cup {"void"} /\ Needs(t, e) = e
  BY DEF Needs
<1>2. \A how \in Hows \ {"ok"} : [Ends(how) EXCEPT !.type = t].how = how
  BY EndsMade, Except
<1>3. kind \notin Failures \cup {"void"} => Sized(t)
  BY SizedIs DEF TypesInv
<1> HIDE DEF kind
<1>4. kind \in Failures => kind \in Hows \ {"ok"}
  BY DEF Failures, Hows
<1>5. "undefined" \in Hows \ {"ok"}
  BY DEF Hows
<1> QED
  BY <1>1, <1>2, <1>3, <1>4, <1>5 DEF Outcomes

LEMMA SizeofRight == ASSUME TypesInv, NEW t \in AllTypes PROVE Outcomes(Sizeof(t))
<1> DEFINE int == scope_get_Type_from_name("int")
           word == Type("int64")
           bytes == Bytes(get_llvm_type(t))
           v == Plain(bytes % TwoTo[Width["int64"]])
           w == Wrapped(word, bytes)
           res == allocate_stack_for_temp(int, v, w)
           size == [res EXCEPT !.scope = word]
           stop == [Ends("undefined") EXCEPT !.type = t]
           e == IF get_llvm_type(int) = IntType(Width["int64"]) THEN size ELSE stop
<1> USE DEF TypesInv
<1>1. Sizeof(t) = Needs(t, e)
  BY DEF Sizeof
<1>2. Outcomes(stop)
  <2>1. "undefined" \in Hows \ {"ok"}
    BY DEF Hows
  <2>2. stop.how = "undefined"
    BY <2>1, EndsMade, Except
  <2> HIDE DEF stop
  <2> QED
    BY <2>2 DEF Outcomes
<1>3. ASSUME get_llvm_type(int) = IntType(Width["int64"]), Sized(t)
      PROVE  Outcomes(size)
  <2>1. int \in AllTypes /\ word \in AllTypes /\ Bits(word) = Width["int64"]
    BY NamedTypes, BuiltinBits DEF scope_get_Type_from_name, Builtins
  <2>2. bytes \in Nat
    BY <1>3, BytesAre
  <2> HIDE DEF int, word, bytes
  <2>3. Type_eq(int, word)
    <3>1. Type_get_base_type(int) = word
      BY <1>3, <2>1, LLVMOfType DEF word
    <3> QED
      BY <2>1, <3>1, EqOfBase
  <2>4. Fitting(word, v) /\ w = Meaning(word, v)
    BY <2>1, <2>2, WrappedIs
  <2>5. Fitting(int, v) /\ w = Meaning(int, v)
    <3> HIDE DEF v, w
    <3> QED
      BY <2>1, <2>3, <2>4, EqBits
  <2> HIDE DEF v, w
  <2>6. Shape(res) /\ Outcomes(res)
    BY <2>1, <2>5, AllocateMade, AllocateRight DEF Made
  <2> HIDE DEF res
  <2> QED
    BY <2>6, ExceptRight
<1> HIDE DEF int, size, stop
<1>4. Sized(t) => Outcomes(e)
  BY <1>2, <1>3
<1> HIDE DEF e
<1> QED
  BY <1>1, <1>4, NeedsRight

LEMMA NewRight == ASSUME TypesInv, NEW t \in AllTypes, t.stars < MaxStars PROVE Outcomes(New(t))
<1> DEFINE p == Type_get_ptr_type(t)
           void == Type_get_ptr_type(Type("void"))
           res == allocate_stack_for_temp(p, Plain(1), Plain(1))
           e == [res EXCEPT !.scope = void, !.new = TRUE]
<1> USE DEF TypesInv
<1>1. New(t) = Needs(t, e)
  BY DEF New
<1>2. p \in AllTypes /\ Type_is_pointer(p)
  BY PtrTypeIs
<1> HIDE DEF p
<1>3. Fitting(p, Plain(1)) /\ Plain(1) = Meaning(p, Plain(1))
  BY <1>2, PointerRight
<1>4. Shape(res) /\ Outcomes(res)
  BY <1>2, <1>3, AllocateMade, AllocateRight DEF Made
<1> HIDE DEF res, void
<1>5. Outcomes(e)
  BY <1>4, ExceptRight
<1> HIDE DEF e
<1> QED
  BY <1>1, <1>5, NeedsRight

LEMMA AtomRight == ASSUME TypesInv, NEW a \in Atoms PROVE Outcomes(a)
<1>1. CASE a \in Constants
  BY <1>1, ConstantsRight
<1>2. CASE a = VoidCall
  BY <1>2, VoidCallRight
<1>3. CASE a \in Variables(Typenames)
  <2>1. PICK t \in Typenames : \E c \in ContentsOf(t) : a = Variable(t, c)
    BY <1>3 DEF Variables
  <2> QED
    BY <2>1, TypenamesAre, VariableRight
<1>4. CASE \E t \in Typenames : a = Sizeof(t)
  BY <1>4, TypenamesAre, SizeofRight
<1>5. CASE \E t \in Typenames : a = New(t)
  BY <1>5, TypenamesAre, NewRight
<1> QED
  BY <1>1, <1>2, <1>3, <1>4, <1>5 DEF Atoms

LEMMA OperandRight == ASSUME TypesInv, NEW a \in Operands PROVE Right(a)
<1>1. a.how = "ok"
  BY DEF Operands
<1>2. CASE a \in Constants
  BY <1>1, <1>2, ConstantsRight DEF Outcomes
<1>3. CASE a \in Variables(Typenames \ {c.type : c \in Constants})
  <2>1. PICK t \in Typenames : \E c \in ContentsOf(t) : a = Variable(t, c)
    BY <1>3 DEF Variables
  <2> QED
    BY <1>1, <2>1, TypenamesAre, VariableRight DEF Outcomes
<1> QED
  BY <1>2, <1>3 DEF Operands
-----------------------------------------------------------------------------
(* What every operation keeps. *)

LEMMA SameRight ==
  ASSUME types' = types, NEW e
  PROVE  Right(e)' <=> Right(e)
<1>1. \A t : Type_get_base_type(t)' = Type_get_base_type(t)
  BY SameBase DEF Type_get_base_type
<1>2. \A t : Type_is_pointer(t)' = Type_is_pointer(t)
  BY <1>1 DEF Type_is_pointer, KindOf
<1>3. \A t : Type_is_boolean(t)' = Type_is_boolean(t)
  BY <1>1 DEF Type_is_boolean, IsBuiltin, Type
<1>4. \A t : Bits(t)' = Bits(t)
  BY <1>1, <1>2 DEF Bits, KindOf, Type_get_size, Type_ptr_size
<1>5. \A t, v : Meaning(t, v)' = Meaning(t, v)
  BY <1>3, <1>4 DEF Meaning, Signed
<1>6. \A t, v : Fitting(t, v)' <=> Fitting(t, v)
  BY <1>2, <1>4 DEF Fitting, Below, Kept, CgBits, Type_ptr_size
<1> QED
  BY <1>5, <1>6 DEF Right, CgBits, Type_ptr_size

Reckoned == (phase = "expression" => Right(expr)) /\ InferredHolds

LEMMA BecomesReckoned ==
  ASSUME NEW e, Result(e), Outcomes(e), NEW op, NEW lhs, NEW rhs, Becomes(e, op, lhs, rhs)
  PROVE  Reckoned'
<1>1. types' = types
  BY DEF Becomes
<1>2. CASE e.how = "ok"
  <2>1. phase' = "expression" /\ expr' = e
    BY <1>2 DEF Becomes
  <2>2. Right(e)'
    BY <1>1, <1>2, SameRight DEF Outcomes
  <2>3. Right(expr)'
    BY <2>1, <2>2 DEF Right
  <2> QED
    BY <2>1, <2>3 DEF Reckoned, InferredHolds
<1>3. CASE e.how # "ok"
  <2>1. phase' = e.how
    BY <1>3 DEF Becomes
  <2>2. phase' # "expression" /\ phase' # "stored"
    BY <1>3, <2>1 DEF Result, Hows
  <2> QED
    BY <2>2 DEF Reckoned, InferredHolds
<1> QED
  BY <1>2, <1>3

\* The slot of a variable is as its value is where the types are equal.
LEMMA SlotIs ==
  ASSUME TypesInv, NEW e, Sound(e), NEW t \in AllTypes, NEW inferred, inferred => t = e.scope,
         inferred \/ Type_eq(t, e.type), Sized(t)
  PROVE  get_llvm_type(t) = e.cg
<1> USE DEF TypesInv
<1>1. e.type \in AllTypes
  BY DEF Sound
<1>2. CASE Type_eq(t, e.type)
  <2>1. get_llvm_type(t) = get_llvm_type(e.type)
    BY <1>1, <1>2, EqLLVM
  <2>2. Sized(e.type)
    BY <2>1 DEF Sized
  <2>3. ~Type_is_void(e.type)
    BY <1>1, <2>2, SizedIs
  <2> QED
    BY <2>1, <2>3 DEF Sound
<1>3. CASE ~Type_eq(t, e.type)
  <2>1. t = e.scope /\ e.scope # NoType
    BY <1>3, NoTypeIsNone
  <2>2. e.scope.name = "void" /\ e.scope.stars <= e.type.stars
    BY <1>3, <2>1 DEF Sound
  <2>3. t.name = "void" /\ t.stars \in Nat /\ t.stars <= e.type.stars /\ e.type.stars \in Nat
    BY <1>1, <2>1, <2>2, TypesAssumption DEF AllTypes, TypesAssumption
  <2>4. Type_get_base_type(t) = t /\ (Type_is_pointer(t) <=> t.stars > 0)
    BY <2>3, VoidIs
  <2>5. t.stars > 0
    <3>1. ~Type_is_void(t)
      BY SizedIs
    <3>2. t = [name |-> "void", stars |-> t.stars]
      BY <2>3 DEF AllTypes
    <3>3. t # Type("void")
      BY <2>4, <3>1 DEF Type_is_void, IsBuiltin
    <3> QED
      BY <2>3, <3>2, <3>3 DEF Type
  <2>6. Type_is_pointer(e.type)
    <3>1. e.type.stars > 0
      BY <2>3, <2>5
    <3> QED
      BY <3>1 DEF Type_is_pointer, Type_get_base_type, KindOf
  <2>7. get_llvm_type(t) = PointerType /\ get_llvm_type(e.type) = PointerType
    BY <1>1, <2>4, <2>5, <2>6, LLVMOfType
  <2>8. ~Type_is_void(e.type)
    BY <1>1, <2>6, SizedIs
  <2> QED
    BY <2>7, <2>8 DEF Sound
<1> QED
  BY <1>2, <1>3

LEMMA StoresReckoned ==
  ASSUME TypesInv, expr.how = "ok", Sound(expr), Right(expr), NEW t \in AllTypes,
         NEW inferred, inferred => t = expr.scope, Stores(t, inferred)
  PROVE  Reckoned'
<1> DEFINE cg == get_llvm_type(t)
           held == IF cg = expr.cg THEN expr.value ELSE NULL
           meant == Pattern(expr.type, expr.want)
           new == [declared |-> t, from |-> expr.type, inferred |-> inferred, held |-> held,
                   meant |-> meant]
<1> USE DEF TypesInv
<1>1. \/ cg.kind \in Failures /\ Becomes(Ends(cg.kind), "store", t, expr.type)
      \/ Becomes(expr, "store", t, expr.type)
      \/ /\ cg.kind \notin Failures \cup {"void"} /\ phase' = "stored" /\ stored' = new
         /\ UNCHANGED types
  BY DEF Stores
<1>2. meant = expr.value
  BY AnOperand
<1>3. inferred \/ Type_eq(t, expr.type) => cg = expr.cg \/ cg.kind \in Failures \cup {"void"}
  BY SlotIs, SizedIs
<1> HIDE DEF cg, meant
<1>4. CASE cg.kind \in Failures /\ Becomes(Ends(cg.kind), "store", t, expr.type)
  <2>1. cg.kind \in Hows \ {"ok"}
    BY <1>4 DEF Failures, Hows
  <2>2. Result(Ends(cg.kind)) /\ Outcomes(Ends(cg.kind))
    BY <2>1, EndsResult, EndsRight
  <2> QED
    BY <1>4, <2>2, BecomesReckoned
<1>5. CASE Becomes(expr, "store", t, expr.type)
  <2>1. Result(expr) /\ Outcomes(expr)
    BY DEF Result, Hows, Outcomes
  <2> QED
    BY <1>5, <2>1, BecomesReckoned
<1>6. CASE /\ cg.kind \notin Failures \cup {"void"} /\ phase' = "stored" /\ stored' = new
           /\ UNCHANGED types
  <2>1. /\ stored'.declared = t /\ stored'.from = expr.type /\ stored'.inferred = inferred
        /\ stored'.held = held /\ stored'.meant = meant
    BY <1>6
  <2>2. inferred \/ Type_eq(t, expr.type) => held = meant
    BY <1>2, <1>3, <1>6
  <2> HIDE DEF held, new
  <2>3. Type_eq(stored.declared, stored.from)' <=> Type_eq(t, expr.type)
    <3>1. Equal' = Equal
      BY <1>6, SameEqual
    <3>2. Type_eq(stored.declared, stored.from)' <=> Equal'[<<stored'.declared, stored'.from>>]
      BY DEF Type_eq
    <3> QED
      BY <2>1, <3>1, <3>2 DEF Type_eq
  <2>4. InferredHolds'
    BY <2>1, <2>2, <2>3 DEF InferredHolds
  <2> QED
    BY <1>6, <2>4 DEF Reckoned
<1> QED
  BY <1>1, <1>4, <1>5, <1>6

LEMMA InitReckoned == InitExpressions => Reckoned
BY DEF InitExpressions, Init, Reckoned, InferredHolds

\* Every operation keeps what is computed what is meant.
LEMMA NextReckoned == IInv /\ Reckoned /\ [Next]_vars => Reckoned'
<1> SUFFICES ASSUME IInv, Reckoned, [Next]_vars PROVE Reckoned'
  OBVIOUS
<1>1. TypesInv
  BY DEF IInv
<1>2. phase = "expression" => expr.how = "ok" /\ Sound(expr) /\ Right(expr)
  BY DEF IInv, Reckoned
<1>3. \A how \in {"refused", "undefined", "dangling"} : Result(Ends(how)) /\ Outcomes(Ends(how))
  BY EndsResult, EndsRight DEF Hows
<1>4. CASE Declare
  <2>1. phase' = "refused" \/ phase' = phase
    BY <1>4 DEF Declare, build_ScopeSymbol_for_type
  <2>2. phase = "declare"
    BY <1>4 DEF Declare, build_ScopeSymbol_for_type
  <2> QED
    BY <2>1, <2>2 DEF Reckoned, InferredHolds
<1>5. CASE Atom
  <2>1. PICK a \in Atoms : Becomes(a, "atom", a.type, a.type)
    BY <1>5 DEF Atom
  <2>2. Result(a) /\ Outcomes(a)
    BY <1>1, AtomResult, AtomRight
  <2> QED
    BY <2>1, <2>2, BecomesReckoned
<1>6. CASE Binary
  <2>1. PICK a \in Operands, op \in BinaryOps :
          \E pair \in {<<expr, a>>, <<a, expr>>} :
            /\ Defined(op, pair[1], pair[2])
            /\ Becomes(codegenBinaryOperator(op, pair[1], pair[2]), op, pair[1].type, pair[2].type)
    BY <1>6 DEF Binary
  <2>2. Sound(a) /\ Sound(expr) /\ Right(a) /\ Right(expr)
    BY <1>1, <1>2, <1>6, OperandSound, OperandRight DEF Binary
  <2>3. ASSUME NEW l, NEW r, Sound(l), Sound(r), Right(l), Right(r), Defined(op, l, r),
               Becomes(codegenBinaryOperator(op, l, r), op, l.type, r.type)
        PROVE  Reckoned'
    <3>1. Result(codegenBinaryOperator(op, l, r))
      BY <1>1, <2>3, BinaryResult
    <3>2. Outcomes(codegenBinaryOperator(op, l, r))
      BY <1>1, <2>3, BinaryRight
    <3> QED
      BY <2>3, <3>1, <3>2, BecomesReckoned
  <2>4. \/ /\ Defined(op, expr, a)
           /\ Becomes(codegenBinaryOperator(op, expr, a), op, expr.type, a.type)
        \/ /\ Defined(op, a, expr)
           /\ Becomes(codegenBinaryOperator(op, a, expr), op, a.type, expr.type)
    BY <2>1
  <2> QED
    BY <2>2, <2>3, <2>4
<1>7. CASE Unary
  <2>1. PICK op \in UnaryOps :
          /\ op = "TAKE_ADDRESS" => expr.type.stars < MaxStars /\ expr.scope.stars < MaxStars
          /\ \E c \in IF Type_is_pointer(expr.type) THEN ContentsOf(Type_get_pointee_type(expr.type))
                       ELSE {Plain(0)} :
               Becomes(codegenUnaryOperator(op, expr, c), op, expr.type, expr.type)
    BY <1>7 DEF Unary
  <2>2. PICK c : /\ Type_is_pointer(expr.type) => c \in ContentsOf(Type_get_pointee_type(expr.type))
                 /\ Becomes(codegenUnaryOperator(op, expr, c), op, expr.type, expr.type)
    BY <2>1
  <2>3. Sound(expr) /\ Right(expr)
    BY <1>2, <1>7 DEF Unary
  <2>4. Result(codegenUnaryOperator(op, expr, c))
    BY <1>1, <2>1, <2>3, UnaryResult
  <2>5. Outcomes(codegenUnaryOperator(op, expr, c))
    BY <1>1, <2>1, <2>2, <2>3, UnaryRight
  <2> QED
    BY <2>2, <2>4, <2>5, BecomesReckoned
<1>8. CASE Cast
  <2>1. PICK t \in Typenames : Becomes(codegenCast(expr, t), "CAST", expr.type, t)
    BY <1>8 DEF Cast
  <2>2. Sound(expr) /\ Right(expr) /\ t \in AllTypes
    BY <1>1, <1>2, <1>8, TypenamesAre DEF Cast
  <2>3. Result(codegenCast(expr, t)) /\ Outcomes(codegenCast(expr, t))
    BY <1>1, <2>2, CastResult, CastRight
  <2> QED
    BY <2>1, <2>3, BecomesReckoned
<1>9. CASE FieldAccess
  <2>1. PICK field \in Fields :
          LET scope == scope_get_Type_from_FieldAccess(expr.scope, field)
              found == codegen_FieldAccess(expr, field, Plain(0))
          IN \/ scope = DanglingType /\ Becomes(Ends("dangling"), "field", expr.type, expr.type)
             \/ \E c \in IF found.how = "ok" THEN ContentsOf(found.type) ELSE {Plain(0)} :
                  Becomes([codegen_FieldAccess(expr, field, c) EXCEPT !.scope = scope],
                          "field", expr.type, expr.type)
    BY <1>9 DEF FieldAccess
  <2> DEFINE scope == scope_get_Type_from_FieldAccess(expr.scope, field)
             found == codegen_FieldAccess(expr, field, Plain(0))
             Accessed(c) == [codegen_FieldAccess(expr, field, c) EXCEPT !.scope = scope]
  <2>2. CASE Becomes(Ends("dangling"), "field", expr.type, expr.type)
    BY <1>3, <2>2, BecomesReckoned
  <2>3. ASSUME NEW c, found.how = "ok" => c \in ContentsOf(found.type),
               Becomes(Accessed(c), "field", expr.type, expr.type)
        PROVE  Reckoned'
    <3>1. Sound(expr)
      BY <1>2, <1>9 DEF FieldAccess
    <3>2. Result(Accessed(c))
      BY <1>1, <3>1, FieldResult
    <3>3. Outcomes(codegen_FieldAccess(expr, field, c))
      BY <1>1, <2>3, <3>1, FieldRight DEF TypesInv
    <3>4. Shape(codegen_FieldAccess(expr, field, c))
      <4>1. Table /\ WellFounded /\ expr.type \in AllTypes
        BY <1>1, <3>1 DEF TypesInv, Sound
      <4> QED
        BY <4>1, codegen_FieldAccessMade
    <3>5. Outcomes(Accessed(c))
      <4> HIDE DEF scope
      <4> QED
        BY <3>3, <3>4, ExceptRight
    <3> QED
      BY <2>3, <3>2, <3>5, BecomesReckoned
  <2>4. \/ Becomes(Ends("dangling"), "field", expr.type, expr.type)
        \/ \E c : /\ found.how = "ok" => c \in ContentsOf(found.type)
                 /\ Becomes(Accessed(c), "field", expr.type, expr.type)
    BY <2>1
  <2> QED
    BY <2>2, <2>3, <2>4
<1>10. CASE LetInferred
  <2>1. expr.how = "ok" /\ Sound(expr) /\ Right(expr)
    BY <1>2, <1>10 DEF LetInferred
  <2>2. \/ Becomes(Ends("refused"), "let", expr.type, expr.type)
        \/ expr.scope # NoType /\ Stores(expr.scope, TRUE)
    BY <1>10 DEF LetInferred
  <2>3. CASE Becomes(Ends("refused"), "let", expr.type, expr.type)
    BY <1>3, <2>3, BecomesReckoned
  <2>4. CASE expr.scope # NoType /\ Stores(expr.scope, TRUE)
    <3>1. expr.scope \in AllTypes
      BY <2>1, <2>4 DEF Sound
    <3> QED
      BY <1>1, <2>1, <2>4, <3>1, StoresReckoned
  <2> QED
    BY <2>2, <2>3, <2>4
<1>11. CASE Store
  <2>1. PICK t \in Typenames : Stores(t, FALSE)
    BY <1>11 DEF Store
  <2>2. expr.how = "ok" /\ Sound(expr) /\ Right(expr)
    BY <1>2, <1>11 DEF Store
  <2>3. t \in AllTypes
    BY <1>1, TypenamesAre
  <2> QED
    BY <1>1, <2>1, <2>2, <2>3, StoresReckoned
<1>12. CASE Global
  <2>1. PICK t \in Typenames :
          \/ Becomes(Ends("refused"), "global", t, expr.type)
          \/ Becomes(Ends("undefined"), "global", t, expr.type)
          \/ Stores(t, FALSE)
    BY <1>12 DEF Global
  <2>2. expr.how = "ok" /\ Sound(expr) /\ Right(expr) /\ t \in AllTypes
    BY <1>1, <1>2, <1>12, TypenamesAre DEF Global
  <2>3. CASE \/ Becomes(Ends("refused"), "global", t, expr.type)
             \/ Becomes(Ends("undefined"), "global", t, expr.type)
    BY <1>3, <2>3, BecomesReckoned
  <2>4. CASE Stores(t, FALSE)
    BY <1>1, <2>2, <2>4, StoresReckoned
  <2> QED
    BY <2>1, <2>3, <2>4
<1>13. CASE UNCHANGED vars
  <2>1. UNCHANGED <<types, phase, expr, stored>>
    BY <1>13 DEF vars
  <2>2. Right(expr)' <=> Right(expr)
    <3>1. PICK e : e = expr
      OBVIOUS
    <3>2. Right(e)' <=> Right(e)
      BY <2>1, SameRight
    <3>3. expr' = e
      BY <2>1, <3>1
    <3>4. Right(expr)' <=> Right(e)'
      BY <3>3 DEF Right
    <3> QED
      BY <3>1, <3>2, <3>4
  <2>3. InferredHolds' <=> InferredHolds
    <3>1. Equal' = Equal
      BY <2>1, SameEqual
    <3> QED
      BY <2>1, <3>1 DEF InferredHolds, Type_eq
  <2> QED
    BY <2>1, <2>2, <2>3 DEF Reckoned
<1> QED
  BY <1>4, <1>5, <1>6, <1>7, <1>8, <1>9, <1>10, <1>11, <1>12, <1>13 DEF Next

\* Whatever types are declared and whatever values are tried, the instructions compute what the
\* operators mean, at every width (cg-operator.c, cg-helpers.c, cg-inst.c).
THEOREM Computation == Spec => []Computes
<1>1. IInv /\ Reckoned => Computes
  BY AnOperand DEF IInv, TypesInv, Reckoned, Computes
<1> QED
  BY <1>1, InitIInv, InitReckoned, Inductive, NextReckoned, PTL DEF Spec

\* A variable whose type is inferred, or declared as the type the expression has, holds the value
\* (cg-inst.c, cg-helpers.c).
THEOREM Inference == Spec => []InferredHolds
<1>1. Reckoned => InferredHolds
  BY DEF Reckoned
<1> QED
  BY <1>1, InitIInv, InitReckoned, Inductive, NextReckoned, PTL DEF Spec
=============================================================================
