----------------------------- MODULE BindingProofs -----------------------------
(***************************************************************************)
(* Name binding is lexical: the two walks, with a table that grows in the  *)
(* first and is complete in the second, bind every name alike.  The first  *)
(* part says what a step of either walk does to the invariant, the second  *)
(* that every action is such a step; the properties follow.                *)
(***************************************************************************)
EXTENDS SymbolCodegen, TLAPS, SequenceTheorems

B == Len(BuiltinTypes)
N == Len(nodes)

\* What the first walk keeps of nodes, scopes and symbols.
Shape ==
  /\ nodes \in Seq(Node) /\ N >= B
  /\ Syms \subseteq 1..N
  /\ cur \in Scopes /\ 0 \in Scopes
  /\ \A s \in Scopes : s \in Nat /\ s <= N /\ s \in chain[s] /\ chain[s] \subseteq 0..s
  /\ \A s \in Scopes : chain[s] \subseteq Scopes
  /\ \A i \in 1..N : nodes[i].scope \in Scopes /\ nodes[i].scope < i
  /\ \A i \in 1..B : nodes[i].kind = "builtin" /\ nodes[i].scope = 0

\* The scope of the next node follows from the kind of the node before it.
After(i, s) ==
  CASE nodes[i].kind \in {"open", "func"} -> s = i
    [] nodes[i].kind = "close"            -> s \in Parent(nodes[i].scope)
    [] OTHER                              -> s = nodes[i].scope
ScopeAt(i) == IF i <= N THEN nodes[i].scope ELSE cur
Follows == \A i \in B..N : After(i, ScopeAt(i + 1))

SameFunction(y, f) ==
  /\ y \in Syms /\ y < f
  /\ nodes[y].kind \in FuncKinds /\ nodes[f].kind \in FuncKinds
  /\ nodes[y].name = nodes[f].name

\* The table holds every declaration, but for functions declared before and
\* the parameters a prototype has no room for.
Declared ==
  /\ \A y \in Syms : Declares(y)
  /\ \A d \in 1..N : nodes[d].kind \in TypeKinds \cup (VarKinds \ {"param"}) => d \in Syms
  /\ \A f \in 1..N : nodes[f].kind \in FuncKinds =>
       /\ nodes[f].scope = 0
       /\ f \in Syms \/ \E y \in Syms : SameFunction(y, f)
  /\ \A y, z \in Syms : nodes[y].kind \in FuncKinds /\ nodes[z].kind \in FuncKinds
                          /\ nodes[y].name = nodes[z].name => y = z

Params ==
  /\ \A f \in 1..N : nodes[f].kind = "func" =>
       /\ f + nodes[f].args <= N
       /\ \A j \in f + 1 .. f + nodes[f].args : nodes[j].kind = "param" /\ nodes[j].scope = f
       /\ f \in Syms => f + 1 .. f + nodes[f].args \subseteq Syms
       /\ \A y \in Syms : SameFunction(y, f) =>
            \A j \in f + 1 .. f + nodes[f].args : j - f <= nodes[y].args => j \in Syms
  /\ \A p \in 1..N : nodes[p].kind = "param" =>
       LET f == nodes[p].scope
       IN f \in 1..N /\ nodes[f].kind = "func" /\ p \in f + 1 .. f + nodes[f].args

\* What the first walk made of an initialiser that is an identifier, and of the
\* type a literal is cast to.
Inferred ==
  \A d \in 1..N : nodes[d].kind \in {"let", "cast"} =>
    \E y \in Syms : /\ InReach(y, d) /\ table[d] = table[y]
                    /\ \A z \in Syms : InReach(z, d) => Nearer(y, z)

RInv == Shape /\ Follows /\ Declared /\ Params /\ Inferred

\* What the second walk keeps, over a table and nodes that no longer change.
Walk2 ==
  /\ pc \in Nat /\ pc > B
  /\ phase = "resolve" => pc = B + 1 /\ sr = 0
  /\ phase = "codegen" => pc <= N + 1 /\ sr = ScopeAt(pc)
  /\ vals \subseteq Syms /\ \A y \in vals : y < pc
  /\ \A p \in 1 .. pc - 1 : p <= N /\ nodes[p].kind = "param" => p \in Syms
  /\ \A n \in DOMAIN funs : funs[n] \in CgFunction
  /\ \A y \in Syms : y < pc /\ nodes[y].kind \in FuncKinds =>
       nodes[y].name \in DOMAIN funs /\ funs[nodes[y].name].args = nodes[y].args
  /\ \A n \in DOMAIN funs : \E y \in Syms :
       y < pc /\ nodes[y].kind \in FuncKinds /\ nodes[y].name = n

\* A reference is to the declaration its use denotes, and of the type the first
\* walk found; but a cast may be captured by an alias of its function.
Right(r) ==
  /\ nodes[r.use].kind # "cast" => Denotes(r.use, r.decl)
  /\ nodes[r.use].kind = "let" => r.type = table[r.use]
  /\ nodes[r.use].kind = "cast" =>
       \/ Denotes(r.use, r.decl) /\ r.type = table[r.use]
       \/ r.decl > r.use /\ nodes[r.decl].scope # 0
Bound == \A r \in refs : r.use \in 1 .. N /\ r.use < pc /\ Right(r)

IInv == RInv /\ Walk2 /\ (phase = "resolve" => refs = {}) /\ Bound
-----------------------------------------------------------------------------
\* The first walk.  A step appends k nodes, and keeps what was there.
Grows(k) ==
  /\ N' = N + k
  /\ \A i \in 1..N : nodes'[i] = nodes[i]
  /\ Scopes \subseteq Scopes' /\ \A s \in Scopes : chain'[s] = chain[s]
  /\ Syms \subseteq Syms' /\ \A y \in Syms : table'[y] = table[y]

\* The numbers of nodes and of built-in types are naturals.
LEMMA Sizes ==
  ASSUME nodes \in Seq(Node)
  PROVE  N \in Nat /\ Here = N + 1 /\ B \in Nat /\ B > 0
BY NamesAssumption, LenProperties DEF N, Here, B

\* A node of the tree is a node.
LEMMA NodeAt ==
  ASSUME nodes \in Seq(Node), NEW i \in 1..N
  PROVE  nodes[i] \in Node
BY ElementOfSeq DEF N

\* Appending a node keeps the ones before it.
LEMMA AppendNode ==
  ASSUME nodes \in Seq(Node), NEW nd \in Node, nodes' = Append(nodes, nd)
  PROVE  /\ nodes' \in Seq(Node) /\ N' = N + 1 /\ nodes'[N + 1] = nd
         /\ \A i \in 1..N : nodes'[i] = nodes[i]
BY DEF N

\* A step that appends one node, of any kind but a function with a body.
OneNode(nd) ==
  /\ nd \in Node /\ nd.scope = cur /\ nd.kind \notin {"param", "func", "builtin"}
  /\ nodes' = Append(nodes, nd)
  /\ Grows(1)
  /\ Scopes' \subseteq Scopes \cup {Here}
  /\ Here \in Scopes' => chain'[Here] = chain[cur] \cup {Here}
  /\ cur' \in Scopes'
  /\ CASE nd.kind = "open"  -> cur' = Here
       [] nd.kind = "close" -> cur' \in Parent(cur)
       [] OTHER             -> cur' = cur
  /\ Syms' \subseteq Syms \cup {Here}
  /\ Here \in Syms' => nd.kind \in TypeKinds \cup VarKinds \cup FuncKinds
  /\ nd.kind \in TypeKinds \cup VarKinds => Here \in Syms'
  /\ nd.kind = "proto" =>
       /\ cur = 0
       /\ \/ /\ Here \in Syms'
             /\ \A y \in Syms : nodes[y].kind \in FuncKinds => nodes[y].name # nd.name
          \/ /\ Here \notin Syms'
             /\ \E y \in Syms : nodes[y].kind \in FuncKinds /\ nodes[y].name = nd.name
  /\ nd.kind \in {"let", "cast"} =>
       \E y \in Syms : /\ nodes[y].name = nd.of /\ nodes[y].scope \in chain[cur]
                       /\ \A z \in Syms : nodes[z].name = nd.of /\ nodes[z].scope \in chain[cur]
                            => Nearer(y, z)
                       /\ table'[Here] = table[y]

\* Appending one node keeps the shape of scopes and nodes.
LEMMA OneNodeShape ==
  ASSUME RInv, NEW nd, OneNode(nd)
  PROVE  Shape'
<1> USE DEF RInv, OneNode, Grows
<1>1. nodes' \in Seq(Node) /\ N' = N + 1 /\ nodes'[N + 1] = nd
  BY AppendNode DEF Shape
<1>2. N \in Nat /\ Here = N + 1 /\ B \in Nat
  BY Sizes DEF Shape
<1>3. Syms' \subseteq 1..N' /\ N' >= B
  BY <1>1, <1>2 DEF Shape
<1>4. \A s \in Scopes' : s \in Nat /\ s <= N' /\ s \in chain'[s] /\ chain'[s] \subseteq 0..s
  BY <1>1, <1>2 DEF Shape
<1>5. \A i \in 1..N' : nodes'[i].scope \in Scopes' /\ nodes'[i].scope < i
  <2>1. \A i \in 1..N : nodes'[i].scope \in Scopes' /\ nodes'[i].scope < i
    BY DEF Shape
  <2>2. cur \in Scopes' /\ cur < N + 1
    BY <1>2 DEF Shape
  <2>3. \A i \in 1..N' : i \in 1..N \/ i = N + 1
    BY <1>1, <1>2
  <2>4. QED
    BY <1>1, <2>1, <2>2, <2>3
<1>6. \A i \in 1..B : nodes'[i].kind = "builtin" /\ nodes'[i].scope = 0
  BY <1>1, <1>2 DEF Shape
<1>7. \A s \in Scopes' : chain'[s] \subseteq Scopes'
  <2>1. \A s \in Scopes : chain'[s] \subseteq Scopes'
    BY DEF Shape
  <2>2. cur \in Scopes /\ chain[cur] \subseteq Scopes
    BY DEF Shape
  <2>3. QED
    BY <2>1, <2>2
<1>8. QED
  BY <1>1, <1>3, <1>4, <1>5, <1>6, <1>7 DEF Shape

\* What a node says of the next one, and the parent of a scope, stay.
LEMMA AfterStable ==
  ASSUME Shape, NEW k, Grows(k), NEW CONSTANT i \in 1..N, NEW CONSTANT s, After(i, s)
  PROVE  After(i, s)'
<1>1. nodes'[i] = nodes[i]
  BY DEF Grows
<1>2. Parent(nodes[i].scope)' = Parent(nodes[i].scope)
  <2>1. nodes[i].scope \in Scopes
    BY DEF Shape
  <2>2. chain'[nodes[i].scope] = chain[nodes[i].scope]
    BY <2>1 DEF Grows
  <2>3. QED
    BY <1>1, <2>2 DEF Parent
<1>3. QED
  BY <1>1, <1>2 DEF After

\* Appending one node: its scope follows from the node before it.
LEMMA OneNodeFollows ==
  ASSUME RInv, NEW nd, OneNode(nd)
  PROVE  Follows'
<1>1. nodes' \in Seq(Node) /\ N' = N + 1 /\ nodes'[N + 1] = nd
  BY AppendNode DEF Shape, RInv, OneNode
<1>2. N \in Nat /\ Here = N + 1 /\ B \in Nat /\ B > 0 /\ N >= B /\ B' = B
  BY Sizes DEF Shape, RInv, B
<1>3. Shape /\ Grows(1) /\ Follows
  BY DEF RInv, OneNode
<1> SUFFICES ASSUME NEW i \in (B..N)' PROVE After(i, ScopeAt(i + 1))'
  BY DEF Follows
<1>4. CASE i <= N
  <2>1. i \in 1..N /\ i \in B..N
    BY <1>2, <1>4
  <2>2. After(i, ScopeAt(i + 1))
    BY <1>3, <2>1 DEF Follows
  <2>3. ScopeAt(i + 1)' = ScopeAt(i + 1)
    <3>1. CASE i = N
      <4>1. ScopeAt(i + 1) = cur
        BY <1>2, <3>1 DEF ScopeAt
      <4>2. ScopeAt(i + 1)' = nodes'[N + 1].scope
        BY <1>1, <1>2, <3>1 DEF ScopeAt
      <4>3. QED
        BY <1>1, <4>1, <4>2 DEF OneNode
    <3>2. CASE i # N
      <4>1. i + 1 \in 1..N
        BY <1>2, <2>1, <3>2
      <4>2. nodes'[i + 1] = nodes[i + 1]
        BY <1>3, <4>1 DEF Grows
      <4>3. QED
        BY <1>1, <1>2, <4>1, <4>2 DEF ScopeAt
    <3>3. QED
      BY <3>1, <3>2
  <2> DEFINE s == ScopeAt(i + 1)
  <2>4. PICK c : c = s
    OBVIOUS
  <2>5. After(i, c)
    BY <2>2, <2>4
  <2>6. After(i, c)'
    BY <1>3, <2>1, <2>5, AfterStable
  <2>7. c = s'
    BY <2>3, <2>4
  <2> HIDE DEF s
  <2>8. After(i, s)'
    BY <2>6, <2>7
  <2> QED
    BY <2>8 DEF s
<1>5. CASE i = N + 1
  <2>1. ScopeAt(i + 1)' = cur'
    BY <1>1, <1>2, <1>5 DEF ScopeAt
  <2>2. nodes'[i] = nd /\ nd.scope = cur /\ cur \in Scopes
    BY <1>1, <1>5, <1>3 DEF OneNode, Shape
  <2>3. Parent(cur)' = {p \in chain'[cur'] \ {cur'} : \A q \in chain'[cur'] \ {cur'} : q <= p}
    BY DEF Parent
  <2>4. nd.kind = "close" => cur' \in Parent(cur)
    BY DEF OneNode
  <2>5. chain'[cur] = chain[cur]
    BY <1>3, <2>2 DEF Grows
  <2>6. nd.kind = "close" =>
          cur' \in {p \in chain'[cur] \ {cur} : \A q \in chain'[cur] \ {cur} : q <= p}
    BY <2>4, <2>5 DEF Parent
  <2>7. nd.kind = "open" => cur' = i
    BY <1>2, <1>5 DEF OneNode
  <2>8. nd.kind \notin {"open", "close", "func"} => cur' = nd.scope
    BY DEF OneNode
  <2>9. nd.kind # "func"
    BY DEF OneNode
  <2>10. After(i, cur)'
    BY <2>2, <2>6, <2>7, <2>8, <2>9 DEF After, Parent
  <2> QED
    BY <2>1, <2>10 DEF After
<1>6. QED
  BY <1>1, <1>2, <1>4, <1>5

\* The bare facts of a step of one node, for the lemmas below.
LEMMA OneNodeFacts ==
  ASSUME RInv, NEW nd, OneNode(nd)
  PROVE  /\ N \in Nat /\ Here = N + 1 /\ N' = N + 1 /\ B' = B
         /\ nodes'[N + 1] = nd /\ \A i \in 1..N : nodes'[i] = nodes[i]
         /\ \A i \in 1..N' : i \in 1..N \/ i = N + 1
         /\ Syms \subseteq 1..N /\ Syms \subseteq Syms' /\ Syms' \subseteq Syms \cup {N + 1}
         /\ \A y \in Syms : table'[y] = table[y]
<1>1. nodes' \in Seq(Node) /\ N' = N + 1 /\ nodes'[N + 1] = nd
  BY AppendNode DEF Shape, RInv, OneNode
<1>2. N \in Nat /\ Here = N + 1 /\ B \in Nat /\ B' = B
  BY Sizes DEF Shape, RInv, B
<1>3. Shape /\ Grows(1)
  BY DEF RInv, OneNode
<1>4. \A i \in 1..N' : i \in 1..N \/ i = N + 1
  BY <1>1, <1>2
<1>5. QED
  BY <1>1, <1>2, <1>3, <1>4 DEF Shape, Grows, OneNode

\* Appending one node: what it declares is in the table.
LEMMA OneNodeDeclared ==
  ASSUME RInv, NEW nd, OneNode(nd)
  PROVE  Declared'
<1>1. /\ N \in Nat /\ Here = N + 1 /\ N' = N + 1
      /\ nodes'[N + 1] = nd /\ \A i \in 1..N : nodes'[i] = nodes[i]
      /\ \A i \in 1..N' : i \in 1..N \/ i = N + 1
      /\ Syms \subseteq 1..N /\ Syms \subseteq Syms' /\ Syms' \subseteq Syms \cup {N + 1}
  BY OneNodeFacts
<1>2. Declared
  BY DEF RInv
<1>3. \A y \in Syms' : Declares(y)'
  BY <1>1, <1>2 DEF Declared, Declares, OneNode
<1>4. \A d \in 1..N' : nodes'[d].kind \in TypeKinds \cup (VarKinds \ {"param"}) => d \in Syms'
  BY <1>1, <1>2 DEF Declared, OneNode
<1>5. \A f \in 1..N' : nodes'[f].kind \in FuncKinds =>
        /\ nodes'[f].scope = 0
        /\ f \in Syms' \/ \E y \in Syms' : SameFunction(y, f)'
  <2> SUFFICES ASSUME NEW f \in 1..N', nodes'[f].kind \in FuncKinds
               PROVE  /\ nodes'[f].scope = 0
                      /\ f \in Syms' \/ \E y \in Syms' : SameFunction(y, f)'
    OBVIOUS
  <2>1. CASE f \in 1..N
    <3>1. nodes[f].kind \in FuncKinds /\ nodes'[f] = nodes[f]
      BY <1>1, <2>1
    <3>2. nodes[f].scope = 0 /\ (f \in Syms \/ \E y \in Syms : SameFunction(y, f))
      BY <1>2, <2>1, <3>1 DEF Declared
    <3>3. \A y \in Syms : SameFunction(y, f) => SameFunction(y, f)'
      BY <1>1, <3>1 DEF SameFunction
    <3>4. QED
      BY <1>1, <3>1, <3>2, <3>3
  <2>2. CASE f = N + 1
    <3>1. nd.kind = "proto" /\ nodes'[f] = nd
      BY <1>1, <2>2 DEF FuncKinds, OneNode
    <3>2. nd.scope = 0
      BY <3>1 DEF OneNode
    <3>3. CASE Here \in Syms'
      BY <1>1, <2>2, <3>1, <3>2, <3>3
    <3>4. CASE Here \notin Syms'
      <4>1. PICK y \in Syms : nodes[y].kind \in FuncKinds /\ nodes[y].name = nd.name
        BY <3>1, <3>4 DEF OneNode
      <4>2. y \in 1..N /\ y \in Syms' /\ nodes'[y] = nodes[y]
        BY <1>1
      <4>3. y < f
        BY <1>1, <2>2, <4>2
      <4>4. SameFunction(y, f)'
        BY <2>2, <3>1, <4>1, <4>2, <4>3 DEF SameFunction, FuncKinds
      <4>5. QED
        BY <3>1, <3>2, <4>2, <4>4
    <3>5. QED
      BY <3>3, <3>4
  <2>3. QED
    BY <1>1, <2>1, <2>2
<1>6. \A y, z \in Syms' : nodes'[y].kind \in FuncKinds /\ nodes'[z].kind \in FuncKinds
                            /\ nodes'[y].name = nodes'[z].name => y = z
  <2>1. \A y \in Syms : nodes'[y] = nodes[y]
    BY <1>1
  <2>2. N + 1 \in Syms' /\ nd.kind \in FuncKinds =>
          \A y \in Syms : nodes[y].kind \in FuncKinds => nodes[y].name # nd.name
    BY <1>1 DEF OneNode, FuncKinds
  <2>3. \A y, z \in Syms : nodes[y].kind \in FuncKinds /\ nodes[z].kind \in FuncKinds
                            /\ nodes[y].name = nodes[z].name => y = z
    BY <1>2 DEF Declared
  <2>4. QED
    BY <1>1, <2>1, <2>2, <2>3
<1>7. QED
  BY <1>3, <1>4, <1>5, <1>6 DEF Declared

\* Appending one node leaves functions and their parameters together.
LEMMA OneNodeParams ==
  ASSUME RInv, NEW nd, OneNode(nd)
  PROVE  Params'
<1>1. /\ N \in Nat /\ Here = N + 1 /\ N' = N + 1
      /\ nodes'[N + 1] = nd /\ \A i \in 1..N : nodes'[i] = nodes[i]
      /\ \A i \in 1..N' : i \in 1..N \/ i = N + 1
      /\ Syms \subseteq 1..N /\ Syms \subseteq Syms' /\ Syms' \subseteq Syms \cup {N + 1}
  BY OneNodeFacts
<1>2. Params /\ nodes \in Seq(Node) /\ nd.kind # "func" /\ nd.kind # "param"
  BY DEF RInv, Shape, OneNode
<1>3. ASSUME NEW f \in 1..N', nodes'[f].kind = "func"
      PROVE  /\ f + nodes'[f].args <= N'
             /\ \A j \in f + 1 .. f + nodes'[f].args :
                  nodes'[j].kind = "param" /\ nodes'[j].scope = f
             /\ f \in Syms' => f + 1 .. f + nodes'[f].args \subseteq Syms'
             /\ \A y \in Syms' : SameFunction(y, f)' =>
                  \A j \in f + 1 .. f + nodes'[f].args : j - f <= nodes'[y].args => j \in Syms'
  <2>1. f \in 1..N /\ nodes'[f] = nodes[f]
    BY <1>1, <1>2, <1>3
  <2>2. nodes[f].args \in Nat
    BY <1>2, <2>1, NodeAt DEF Node
  <2>3. f + nodes[f].args <= N
    BY <1>2, <1>3, <2>1 DEF Params
  <2>4. \A j \in f + 1 .. f + nodes[f].args : j \in 1..N
    BY <1>1, <2>1, <2>2, <2>3
  <2>5. ASSUME NEW y \in Syms', SameFunction(y, f)'
        PROVE  y \in Syms /\ SameFunction(y, f) /\ nodes'[y] = nodes[y]
    <3>1. y < f
      BY <2>5 DEF SameFunction
    <3>2. y \in Syms
      BY <1>1, <2>1, <3>1
    <3>3. QED
      BY <1>1, <2>1, <2>5, <3>1, <3>2 DEF SameFunction
  <2>6. f \in Syms' => f \in Syms
    BY <1>1, <2>1
  <2>7. /\ \A j \in f + 1 .. f + nodes[f].args : nodes[j].kind = "param" /\ nodes[j].scope = f
        /\ f \in Syms => f + 1 .. f + nodes[f].args \subseteq Syms
        /\ \A y \in Syms : SameFunction(y, f) =>
            \A j \in f + 1 .. f + nodes[f].args : j - f <= nodes[y].args => j \in Syms
    BY <1>2, <1>3, <2>1 DEF Params
  <2>8. f + nodes'[f].args <= N'
    BY <1>1, <2>1, <2>2, <2>3
  <2>9. QED
    BY <1>1, <2>1, <2>4, <2>5, <2>6, <2>7, <2>8
<1>4. ASSUME NEW p \in 1..N', nodes'[p].kind = "param"
      PROVE  LET f == nodes'[p].scope
             IN f \in 1..N' /\ nodes'[f].kind = "func" /\ p \in f + 1 .. f + nodes'[f].args
  <2>1. p \in 1..N /\ nodes'[p] = nodes[p]
    BY <1>1, <1>2, <1>4
  <2> DEFINE f == nodes[p].scope
  <2>2. f \in 1..N /\ nodes[f].kind = "func" /\ p \in f + 1 .. f + nodes[f].args
    BY <1>2, <1>4, <2>1 DEF Params
  <2>3. f \in 1..N' /\ nodes'[f] = nodes[f]
    BY <1>1, <2>2
  <2>4. QED
    BY <2>1, <2>2, <2>3
<1>5. QED
  BY <1>3, <1>4 DEF Params

\* Appending one node leaves the declarations inferred types come from the
\* nearest ones: a later declaration is not in reach of an earlier use.
LEMMA OneNodeInferred ==
  ASSUME RInv, NEW nd, OneNode(nd)
  PROVE  Inferred'
<1>1. /\ N \in Nat /\ Here = N + 1 /\ N' = N + 1
      /\ nodes'[N + 1] = nd /\ \A i \in 1..N : nodes'[i] = nodes[i]
      /\ \A i \in 1..N' : i \in 1..N \/ i = N + 1
      /\ Syms \subseteq 1..N /\ Syms \subseteq Syms' /\ Syms' \subseteq Syms \cup {N + 1}
      /\ \A y \in Syms : table'[y] = table[y]
  BY OneNodeFacts
<1>2. Inferred /\ Shape /\ Declared /\ Grows(1)
  BY DEF RInv, OneNode
<1> SUFFICES ASSUME NEW d \in 1..N', nodes'[d].kind \in {"let", "cast"}
             PROVE  \E y \in Syms' : /\ InReach(y, d)' /\ table'[d] = table'[y]
                                     /\ \A z \in Syms' : InReach(z, d)' => Nearer(y, z)'
  BY DEF Inferred
<1>3. CASE d \in 1..N
  <2>1. nodes'[d] = nodes[d] /\ nodes[d].scope \in Scopes
    BY <1>1, <1>2, <1>3 DEF Shape
  <2>2. chain'[nodes[d].scope] = chain[nodes[d].scope]
    BY <1>2, <2>1 DEF Grows
  <2>3. PICK y \in Syms : /\ InReach(y, d) /\ table[d] = table[y]
                          /\ \A z \in Syms : InReach(z, d) => Nearer(y, z)
    BY <1>2, <1>3, <2>1 DEF Inferred
  <2>4. UsedName(d)' = UsedName(d)
    BY <2>1 DEF UsedName
  <2>5. \A z \in Syms' : InReach(z, d)' => z \in Syms /\ InReach(z, d) /\ nodes'[z] = nodes[z]
    <3> SUFFICES ASSUME NEW z \in Syms', InReach(z, d)'
                 PROVE  z \in Syms /\ InReach(z, d) /\ nodes'[z] = nodes[z]
      OBVIOUS
    <3>1. z < d
      BY DEF InReach
    <3>2. z \in Syms /\ nodes'[z] = nodes[z]
      BY <1>1, <1>3, <3>1
    <3>3. QED
      BY <2>1, <2>2, <2>4, <3>2 DEF InReach, Declares
  <2>6. InReach(y, d)' /\ nodes'[y] = nodes[y]
    BY <1>1, <2>1, <2>2, <2>3, <2>4 DEF InReach, Declares
  <2>7. d \in Syms
    BY <1>2, <1>3, <2>1 DEF Declared, TypeKinds, VarKinds
  <2>8. table'[d] = table'[y]
    BY <1>1, <2>3, <2>7
  <2>9. QED
    BY <1>1, <2>3, <2>5, <2>6, <2>8 DEF Nearer
<1>4. CASE d = N + 1
  <2>1. nodes'[d] = nd /\ nd.kind \in {"let", "cast"} /\ nd.scope = cur
    BY <1>1, <1>4 DEF OneNode
  <2>2. PICK y \in Syms : /\ nodes[y].name = nd.of /\ nodes[y].scope \in chain[cur]
                          /\ \A z \in Syms : nodes[z].name = nd.of /\ nodes[z].scope \in chain[cur]
                               => Nearer(y, z)
                          /\ table'[Here] = table[y]
    BY <2>1 DEF OneNode
  <2>3. chain'[cur] = chain[cur]
    BY <1>2 DEF Grows, Shape
  <2>4. UsedName(d)' = nd.of
    BY <2>1 DEF UsedName
  <2>5. InReach(y, d)'
    <3>1. y \in 1..N /\ nodes'[y] = nodes[y]
      BY <1>1
    <3>2. Declares(y)'
      BY <1>2, <3>1 DEF Declared, Declares
    <3>3. QED
      BY <1>1, <1>4, <2>1, <2>2, <2>3, <2>4, <3>1, <3>2 DEF InReach
  <2>6. \A z \in Syms' : InReach(z, d)' =>
          z \in Syms /\ nodes'[z] = nodes[z] /\ nodes[z].name = nd.of /\ nodes[z].scope \in chain[cur]
    BY <1>1, <1>4, <2>1, <2>3, <2>4 DEF InReach
  <2>7. nodes'[y] = nodes[y] /\ y \in Syms' /\ table'[d] = table'[y]
    BY <1>1, <1>4, <2>2
  <2>8. QED
    BY <2>2, <2>5, <2>6, <2>7 DEF Nearer
<1>5. QED
  BY <1>1, <1>3, <1>4

\* The step of a function with a body: its node, m nodes of parameters, a new
\* scope, and one of two symbols: a new one, or the one of its prototype.
OneFunction(nd, m) ==
  /\ nd \in Node /\ nd.kind = "func" /\ nd.scope = 0 /\ nd.args = m /\ m \in Nat
  /\ cur = 0 /\ cur' = Here
  /\ nodes' \in Seq(Node) /\ Grows(1 + m)
  /\ nodes'[Here] = nd
  /\ \A j \in Here + 1 .. Here + m : nodes'[j].kind = "param" /\ nodes'[j].scope = Here
  /\ Scopes' = Scopes \cup {Here} /\ chain'[Here] = chain[cur] \cup {Here}
  /\ \/ /\ \A y \in Syms : nodes[y].kind \in FuncKinds => nodes[y].name # nd.name
        /\ Syms' = Syms \cup Here .. Here + m
     \/ \E sym \in Syms :
          /\ nodes[sym].kind \in FuncKinds /\ nodes[sym].name = nd.name
          /\ Syms' \subseteq Syms \cup Here + 1 .. Here + m
          /\ Syms \subseteq Syms'
          /\ \A j \in Here + 1 .. Here + m : j - Here <= nodes[sym].args => j \in Syms'

\* What a function with m parameters adds to the tree and to the table.
LEMMA OneFunctionFacts ==
  ASSUME RInv, NEW nd, NEW m, OneFunction(nd, m)
  PROVE  /\ N \in Nat /\ m \in Nat /\ Here = N + 1 /\ N' = N + 1 + m /\ B' = B
         /\ B \in Nat /\ B > 0 /\ N >= B
         /\ nodes'[N + 1] = nd /\ \A i \in 1..N : nodes'[i] = nodes[i]
         /\ \A j \in N + 2 .. N + 1 + m : nodes'[j].kind = "param" /\ nodes'[j].scope = N + 1
         /\ \A i \in 1..N' : i \in 1..N \/ i = N + 1 \/ i \in N + 2 .. N + 1 + m
         /\ Syms \subseteq 1..N /\ Syms \subseteq Syms' /\ Syms' \subseteq Syms \cup N + 1 .. N + 1 + m
         /\ \A y \in Syms : table'[y] = table[y]
<1>1. N \in Nat /\ Here = N + 1 /\ B \in Nat /\ B > 0 /\ B' = B
  BY Sizes DEF Shape, RInv, B
<1>2. m \in Nat /\ N' = N + 1 + m
  BY <1>1 DEF OneFunction, Grows
<1>3. Shape
  BY DEF RInv
<1>4. \A i \in 1..N' : i \in 1..N \/ i = N + 1 \/ i \in N + 2 .. N + 1 + m
  BY <1>1, <1>2
<1>5. \A j \in N + 2 .. N + 1 + m : nodes'[j].kind = "param" /\ nodes'[j].scope = N + 1
  BY <1>1, <1>2 DEF OneFunction
<1>6. nodes'[N + 1] = nd /\ \A i \in 1..N : nodes'[i] = nodes[i]
  BY <1>1 DEF OneFunction, Grows
<1>7. Syms \subseteq 1..N /\ Syms \subseteq Syms' /\ \A y \in Syms : table'[y] = table[y]
  BY <1>3 DEF OneFunction, Grows, Shape
<1>8. Syms' \subseteq Syms \cup N + 1 .. N + 1 + m
  <2>1. Here .. Here + m \subseteq N + 1 .. N + 1 + m /\ Here + 1 .. Here + m \subseteq N + 1 .. N + 1 + m
    BY <1>1, <1>2
  <2>2. QED
    BY <2>1 DEF OneFunction
<1>9. QED
  BY <1>1, <1>2, <1>3, <1>4, <1>5, <1>6, <1>7, <1>8 DEF Shape

\* A function with its parameters keeps the shape of scopes and nodes.
LEMMA OneFunctionShape ==
  ASSUME RInv, NEW nd, NEW m, OneFunction(nd, m)
  PROVE  Shape'
<1>1. /\ N \in Nat /\ m \in Nat /\ Here = N + 1 /\ N' = N + 1 + m /\ B' = B
      /\ B \in Nat /\ B > 0 /\ N >= B
      /\ nodes'[N + 1] = nd /\ \A i \in 1..N : nodes'[i] = nodes[i]
      /\ \A j \in N + 2 .. N + 1 + m : nodes'[j].kind = "param" /\ nodes'[j].scope = N + 1
      /\ \A i \in 1..N' : i \in 1..N \/ i = N + 1 \/ i \in N + 2 .. N + 1 + m
      /\ Syms \subseteq 1..N /\ Syms' \subseteq Syms \cup N + 1 .. N + 1 + m
  BY OneFunctionFacts
<1>2. Shape /\ Grows(1 + m) /\ Scopes' = Scopes \cup {N + 1} /\ cur' = N + 1
  BY <1>1 DEF RInv, OneFunction
<1>3. Syms' \subseteq 1..N' /\ N' >= B'
  BY <1>1
<1>4. chain'[N + 1] = chain[0] \cup {N + 1}
  BY <1>1 DEF OneFunction
<1>5. \A s \in Scopes' : s \in Nat /\ s <= N' /\ s \in chain'[s] /\ chain'[s] \subseteq 0..s
  <2>1. \A s \in Scopes : s \in Nat /\ s <= N' /\ s \in chain'[s] /\ chain'[s] \subseteq 0..s
    BY <1>1, <1>2 DEF Shape, Grows
  <2>2. chain[0] \subseteq 0..0
    BY <1>2 DEF Shape
  <2>3. chain'[N + 1] \subseteq 0 .. N + 1 /\ N + 1 \in chain'[N + 1] /\ N + 1 <= N'
    BY <1>1, <1>4, <2>2
  <2>4. QED
    BY <1>1, <1>2, <2>1, <2>3
<1>6. \A i \in 1..N' : nodes'[i].scope \in Scopes' /\ nodes'[i].scope < i
  <2>1. \A i \in 1..N : nodes'[i].scope \in Scopes' /\ nodes'[i].scope < i
    BY <1>1, <1>2 DEF Shape
  <2>2. nodes'[N + 1].scope = 0 /\ 0 \in Scopes'
    BY <1>1, <1>2 DEF OneFunction, Shape
  <2>3. \A j \in N + 2 .. N + 1 + m : nodes'[j].scope \in Scopes' /\ nodes'[j].scope < j
    BY <1>1, <1>2
  <2>4. QED
    BY <1>1, <2>1, <2>2, <2>3
<1>7. \A i \in 1..B' : nodes'[i].kind = "builtin" /\ nodes'[i].scope = 0
  BY <1>1, <1>2 DEF Shape
<1>8. nodes' \in Seq(Node) /\ cur' \in Scopes' /\ 0 \in Scopes'
  BY <1>2 DEF OneFunction, Shape
<1>9. \A s \in Scopes' : chain'[s] \subseteq Scopes'
  <2>1. \A s \in Scopes : chain'[s] = chain[s] /\ chain[s] \subseteq Scopes
    BY <1>2 DEF Shape, Grows
  <2>2. chain'[N + 1] \subseteq Scopes'
    BY <1>2, <1>4 DEF Shape
  <2>3. QED
    BY <1>2, <2>1, <2>2
<1>10. QED
  BY <1>3, <1>5, <1>6, <1>7, <1>8, <1>9 DEF Shape

\* A function with its parameters: the scope of each node follows from the
\* node before it.
LEMMA OneFunctionFollows ==
  ASSUME RInv, NEW nd, NEW m, OneFunction(nd, m)
  PROVE  Follows'
<1>1. /\ N \in Nat /\ m \in Nat /\ Here = N + 1 /\ N' = N + 1 + m /\ B' = B
      /\ B \in Nat /\ B > 0 /\ N >= B
      /\ nodes'[N + 1] = nd /\ \A i \in 1..N : nodes'[i] = nodes[i]
      /\ \A j \in N + 2 .. N + 1 + m : nodes'[j].kind = "param" /\ nodes'[j].scope = N + 1
      /\ \A i \in 1..N' : i \in 1..N \/ i = N + 1 \/ i \in N + 2 .. N + 1 + m
  BY OneFunctionFacts
<1>2. Shape /\ Follows /\ Grows(1 + m)
  BY DEF RInv, OneFunction
<1>3. nd.kind = "func" /\ nd.scope = 0 /\ cur = 0 /\ cur' = N + 1
  BY <1>1 DEF OneFunction
<1> SUFFICES ASSUME NEW i \in (B..N)' PROVE After(i, ScopeAt(i + 1))'
  BY DEF Follows
<1>4. CASE i \in 1..N
  <2>1. i \in B..N
    BY <1>1, <1>4
  <2>2. After(i, ScopeAt(i + 1))
    BY <1>2, <2>1 DEF Follows
  <2>3. ScopeAt(i + 1)' = ScopeAt(i + 1)
    <3>1. CASE i = N
      <4>1. ScopeAt(i + 1) = cur
        BY <1>1, <3>1 DEF ScopeAt
      <4>2. ScopeAt(i + 1)' = nodes'[N + 1].scope
        BY <1>1, <3>1 DEF ScopeAt
      <4>3. QED
        BY <1>1, <1>3, <4>1, <4>2
    <3>2. CASE i # N
      <4>1. i + 1 \in 1..N
        BY <1>1, <1>4, <3>2
      <4>2. nodes'[i + 1] = nodes[i + 1]
        BY <1>1, <4>1
      <4>3. QED
        BY <1>1, <4>1, <4>2 DEF ScopeAt
    <3>3. QED
      BY <3>1, <3>2
  <2> DEFINE s == ScopeAt(i + 1)
  <2>4. PICK c : c = s
    OBVIOUS
  <2>5. After(i, c)
    BY <2>2, <2>4
  <2>6. After(i, c)'
    BY <1>2, <1>4, <2>5, AfterStable
  <2>7. c = s'
    BY <2>3, <2>4
  <2> HIDE DEF s
  <2>8. After(i, s)'
    BY <2>6, <2>7
  <2> QED
    BY <2>8 DEF s
<1>5. CASE i \notin 1..N
  <2>1. i \in N + 1 .. N + 1 + m
    BY <1>1, <1>5
  <2>2. ScopeAt(i + 1)' = N + 1
    <3>1. CASE i = N + 1 + m
      BY <1>1, <1>3, <3>1 DEF ScopeAt
    <3>2. CASE i # N + 1 + m
      <4>1. i + 1 \in N + 2 .. N + 1 + m /\ i + 1 <= N'
        BY <1>1, <2>1, <3>2
      <4>2. QED
        BY <1>1, <4>1 DEF ScopeAt
    <3>3. QED
      BY <3>1, <3>2
  <2>3. \/ nodes'[i].kind = "func" /\ i = N + 1
        \/ nodes'[i].kind = "param" /\ nodes'[i].scope = N + 1
    BY <1>1, <1>3, <2>1
  <2>4. QED
    BY <2>2, <2>3 DEF After
<1>6. QED
  BY <1>4, <1>5

\* A function with its parameters: what they declare is in the table, or was
\* declared by a prototype (add_body_to_func_sym).
LEMMA OneFunctionDeclared ==
  ASSUME RInv, NEW nd, NEW m, OneFunction(nd, m)
  PROVE  Declared'
<1>1. /\ N \in Nat /\ m \in Nat /\ Here = N + 1 /\ N' = N + 1 + m
      /\ nodes'[N + 1] = nd /\ \A i \in 1..N : nodes'[i] = nodes[i]
      /\ \A j \in N + 2 .. N + 1 + m : nodes'[j].kind = "param" /\ nodes'[j].scope = N + 1
      /\ \A i \in 1..N' : i \in 1..N \/ i = N + 1 \/ i \in N + 2 .. N + 1 + m
      /\ Syms \subseteq 1..N /\ Syms \subseteq Syms' /\ Syms' \subseteq Syms \cup N + 1 .. N + 1 + m
  BY OneFunctionFacts
<1>2. Declared /\ nd.kind = "func" /\ nd.scope = 0
  BY DEF RInv, OneFunction
<1>3. \A y \in Syms' : y \in Syms \/ y = N + 1 \/ y \in N + 2 .. N + 1 + m
  BY <1>1
<1>4. \A y \in Syms' : Declares(y)'
  BY <1>1, <1>2, <1>3 DEF Declared, Declares, VarKinds, FuncKinds
<1>5. \A d \in 1..N' : nodes'[d].kind \in TypeKinds \cup (VarKinds \ {"param"}) => d \in Syms'
  BY <1>1, <1>2 DEF Declared, TypeKinds, VarKinds
<1>6. \/ /\ \A y \in Syms : nodes[y].kind \in FuncKinds => nodes[y].name # nd.name
         /\ N + 1 \in Syms'
      \/ /\ \E y \in Syms : nodes[y].kind \in FuncKinds /\ nodes[y].name = nd.name
         /\ N + 1 \notin Syms'
  <2>1. N + 1 \in Here .. Here + m /\ N + 1 \notin Syms /\ N + 1 \notin Here + 1 .. Here + m
    BY <1>1
  <2>2. QED
    BY <2>1 DEF OneFunction
<1>7. \A f \in 1..N' : nodes'[f].kind \in FuncKinds =>
        /\ nodes'[f].scope = 0
        /\ f \in Syms' \/ \E y \in Syms' : SameFunction(y, f)'
  <2> SUFFICES ASSUME NEW f \in 1..N', nodes'[f].kind \in FuncKinds
               PROVE  /\ nodes'[f].scope = 0
                      /\ f \in Syms' \/ \E y \in Syms' : SameFunction(y, f)'
    OBVIOUS
  <2>1. CASE f \in 1..N
    <3>1. nodes[f].kind \in FuncKinds /\ nodes'[f] = nodes[f]
      BY <1>1, <2>1
    <3>2. nodes[f].scope = 0 /\ (f \in Syms \/ \E y \in Syms : SameFunction(y, f))
      BY <1>2, <2>1, <3>1 DEF Declared
    <3>3. \A y \in Syms : SameFunction(y, f) => SameFunction(y, f)'
      BY <1>1, <3>1 DEF SameFunction
    <3>4. QED
      BY <1>1, <3>1, <3>2, <3>3
  <2>2. CASE f = N + 1
    <3>1. nodes'[f] = nd /\ nd.kind \in FuncKinds
      BY <1>1, <1>2, <2>2 DEF FuncKinds
    <3>2. ASSUME NEW y \in Syms, nodes[y].kind \in FuncKinds, nodes[y].name = nd.name
          PROVE  y \in Syms' /\ SameFunction(y, f)'
      <4>1. y \in 1..N /\ y \in Syms' /\ nodes'[y] = nodes[y]
        BY <1>1
      <4>2. y < f
        BY <1>1, <2>2, <4>1
      <4>3. QED
        BY <2>2, <3>1, <3>2, <4>1, <4>2 DEF SameFunction
    <3>3. QED
      BY <1>2, <1>6, <2>2, <3>1, <3>2
  <2>3. CASE f \in N + 2 .. N + 1 + m
    BY <1>1, <2>3 DEF FuncKinds
  <2>4. QED
    BY <1>1, <2>1, <2>2, <2>3
<1>8. \A y, z \in Syms' : nodes'[y].kind \in FuncKinds /\ nodes'[z].kind \in FuncKinds
                            /\ nodes'[y].name = nodes'[z].name => y = z
  <2>1. \A y \in Syms' : nodes'[y].kind \in FuncKinds => y \in Syms \/ y = N + 1
    BY <1>1, <1>3 DEF FuncKinds
  <2>2. \A y \in Syms : nodes'[y] = nodes[y]
    BY <1>1
  <2>3. \A y, z \in Syms : nodes[y].kind \in FuncKinds /\ nodes[z].kind \in FuncKinds
                            /\ nodes[y].name = nodes[z].name => y = z
    BY <1>2 DEF Declared
  <2>4. QED
    BY <1>1, <1>6, <2>1, <2>2, <2>3
<1>9. QED
  BY <1>4, <1>5, <1>7, <1>8 DEF Declared

\* A function and its parameters are together, and in the table as far as the
\* prototype has room (add_body_to_func_sym).
LEMMA OneFunctionParams ==
  ASSUME RInv, NEW nd, NEW m, OneFunction(nd, m)
  PROVE  Params'
<1>1. /\ N \in Nat /\ m \in Nat /\ Here = N + 1 /\ N' = N + 1 + m
      /\ nodes'[N + 1] = nd /\ \A i \in 1..N : nodes'[i] = nodes[i]
      /\ \A j \in N + 2 .. N + 1 + m : nodes'[j].kind = "param" /\ nodes'[j].scope = N + 1
      /\ \A i \in 1..N' : i \in 1..N \/ i = N + 1 \/ i \in N + 2 .. N + 1 + m
      /\ Syms \subseteq 1..N /\ Syms \subseteq Syms' /\ Syms' \subseteq Syms \cup N + 1 .. N + 1 + m
  BY OneFunctionFacts
<1>2. Params /\ Declared /\ nodes \in Seq(Node) /\ nd.kind = "func" /\ nd.args = m
  BY DEF RInv, Shape, OneFunction
<1>3. ASSUME NEW f \in 1..N', nodes'[f].kind = "func"
      PROVE  /\ f + nodes'[f].args <= N'
             /\ \A j \in f + 1 .. f + nodes'[f].args :
                  nodes'[j].kind = "param" /\ nodes'[j].scope = f
             /\ f \in Syms' => f + 1 .. f + nodes'[f].args \subseteq Syms'
             /\ \A y \in Syms' : SameFunction(y, f)' =>
                  \A j \in f + 1 .. f + nodes'[f].args : j - f <= nodes'[y].args => j \in Syms'
  <2>1. CASE f \in 1..N
    <3>1. nodes'[f] = nodes[f]
      BY <1>1, <2>1
    <3>2. nodes[f].args \in Nat
      BY <1>2, <2>1, NodeAt DEF Node
    <3>3. f + nodes[f].args <= N
      BY <1>2, <1>3, <2>1, <3>1 DEF Params
    <3>4. \A j \in f + 1 .. f + nodes[f].args : j \in 1..N
      BY <1>1, <2>1, <3>2, <3>3
    <3>5. ASSUME NEW y \in Syms', SameFunction(y, f)'
          PROVE  y \in Syms /\ SameFunction(y, f) /\ nodes'[y] = nodes[y]
      <4>1. y < f
        BY <3>5 DEF SameFunction
      <4>2. y \in Syms
        BY <1>1, <2>1, <4>1
      <4>3. QED
        BY <1>1, <2>1, <3>5, <4>1, <4>2 DEF SameFunction
    <3>6. f \in Syms' => f \in Syms
      BY <1>1, <2>1
    <3>7. /\ \A j \in f + 1 .. f + nodes[f].args : nodes[j].kind = "param" /\ nodes[j].scope = f
          /\ f \in Syms => f + 1 .. f + nodes[f].args \subseteq Syms
          /\ \A y \in Syms : SameFunction(y, f) =>
              \A j \in f + 1 .. f + nodes[f].args : j - f <= nodes[y].args => j \in Syms
      BY <1>2, <1>3, <2>1, <3>1 DEF Params
    <3>8. f + nodes'[f].args <= N'
      BY <1>1, <2>1, <3>1, <3>2, <3>3
    <3>9. QED
      BY <1>1, <3>1, <3>4, <3>5, <3>6, <3>7, <3>8
  <2>2. CASE f = N + 1
    <3>1. nodes'[f] = nd /\ nodes'[f].args = m
      BY <1>1, <1>2, <2>2
    <3>2. f \in Syms' => f + 1 .. f + nodes'[f].args \subseteq Syms'
      <4>1. f + 1 .. f + m \subseteq Here .. Here + m
        BY <1>1, <2>2
      <4>2. f \notin Syms /\ f \notin Here + 1 .. Here + m
        BY <1>1, <2>2
      <4>3. QED
        BY <3>1, <4>1, <4>2 DEF OneFunction
    <3>3. ASSUME NEW y \in Syms', SameFunction(y, f)',
                 NEW j \in f + 1 .. f + m, j - f <= nodes'[y].args
          PROVE  j \in Syms'
      <4>1. y < f /\ nodes'[y].kind \in FuncKinds /\ nodes'[y].name = nd.name
        BY <3>1, <3>3 DEF SameFunction
      <4>2. y \in Syms /\ nodes'[y] = nodes[y]
        BY <1>1, <2>2, <4>1
      <4>3. \E sym \in Syms :
              /\ nodes[sym].kind \in FuncKinds /\ nodes[sym].name = nd.name
              /\ \A i \in Here + 1 .. Here + m : i - Here <= nodes[sym].args => i \in Syms'
        BY <4>1, <4>2 DEF OneFunction
      <4>4. \A i \in Here + 1 .. Here + m : i - Here <= nodes[y].args => i \in Syms'
        BY <1>2, <4>1, <4>2, <4>3 DEF Declared
      <4>5. QED
        BY <1>1, <2>2, <3>3, <4>2, <4>4
    <3>4. QED
      BY <1>1, <2>2, <3>1, <3>2, <3>3
  <2>3. CASE f \in N + 2 .. N + 1 + m
    BY <1>1, <1>3, <2>3
  <2>4. QED
    BY <1>1, <2>1, <2>2, <2>3
<1>4. ASSUME NEW p \in 1..N', nodes'[p].kind = "param"
      PROVE  LET f == nodes'[p].scope
             IN f \in 1..N' /\ nodes'[f].kind = "func" /\ p \in f + 1 .. f + nodes'[f].args
  <2>1. CASE p \in 1..N
    <3>1. nodes'[p] = nodes[p]
      BY <1>1, <2>1
    <3> DEFINE f == nodes[p].scope
    <3>2. f \in 1..N /\ nodes[f].kind = "func" /\ p \in f + 1 .. f + nodes[f].args
      BY <1>2, <1>4, <2>1, <3>1 DEF Params
    <3>3. f \in 1..N' /\ nodes'[f] = nodes[f]
      BY <1>1, <3>2
    <3>4. QED
      BY <3>1, <3>2, <3>3
  <2>2. CASE p \in N + 2 .. N + 1 + m
    <3>1. nodes'[p].scope = N + 1 /\ N + 1 \in 1..N' /\ p \in N + 1 + 1 .. N + 1 + m
      BY <1>1, <2>2
    <3>2. QED
      BY <1>1, <1>2, <3>1
  <2>3. QED
    BY <1>1, <1>2, <1>4, <2>1, <2>2
<1>5. QED
  BY <1>3, <1>4 DEF Params

\* A function leaves the declarations inferred types come from the nearest.
LEMMA OneFunctionInferred ==
  ASSUME RInv, NEW nd, NEW m, OneFunction(nd, m)
  PROVE  Inferred'
<1>1. /\ N \in Nat /\ m \in Nat /\ Here = N + 1 /\ N' = N + 1 + m
      /\ nodes'[N + 1] = nd /\ \A i \in 1..N : nodes'[i] = nodes[i]
      /\ \A j \in N + 2 .. N + 1 + m : nodes'[j].kind = "param" /\ nodes'[j].scope = N + 1
      /\ \A i \in 1..N' : i \in 1..N \/ i = N + 1 \/ i \in N + 2 .. N + 1 + m
      /\ Syms \subseteq 1..N /\ Syms \subseteq Syms' /\ Syms' \subseteq Syms \cup N + 1 .. N + 1 + m
      /\ \A y \in Syms : table'[y] = table[y]
  BY OneFunctionFacts
<1>2. Inferred /\ Shape /\ Declared /\ Grows(1 + m) /\ nd.kind = "func"
  BY DEF RInv, OneFunction
<1> SUFFICES ASSUME NEW d \in 1..N', nodes'[d].kind \in {"let", "cast"}
             PROVE  \E y \in Syms' : /\ InReach(y, d)' /\ table'[d] = table'[y]
                                     /\ \A z \in Syms' : InReach(z, d)' => Nearer(y, z)'
  BY DEF Inferred
<1>3. d \in 1..N
  BY <1>1, <1>2
<1>4. nodes'[d] = nodes[d] /\ nodes[d].scope \in Scopes
  BY <1>1, <1>2, <1>3 DEF Shape
<1>5. chain'[nodes[d].scope] = chain[nodes[d].scope]
  BY <1>2, <1>4 DEF Grows
<1>6. PICK y \in Syms : /\ InReach(y, d) /\ table[d] = table[y]
                        /\ \A z \in Syms : InReach(z, d) => Nearer(y, z)
  BY <1>2, <1>3, <1>4 DEF Inferred
<1>7. UsedName(d)' = UsedName(d)
  BY <1>4 DEF UsedName
<1>8. \A z \in Syms' : InReach(z, d)' => z \in Syms /\ InReach(z, d) /\ nodes'[z] = nodes[z]
  <2> SUFFICES ASSUME NEW z \in Syms', InReach(z, d)'
               PROVE  z \in Syms /\ InReach(z, d) /\ nodes'[z] = nodes[z]
    OBVIOUS
  <2>1. z < d
    BY DEF InReach
  <2>2. z \in Syms \/ z \in N + 1 .. N + 1 + m
    BY <1>1
  <2>3. ~(z \in N + 1 .. N + 1 + m) /\ \A x \in Syms : x \in 1..N
    BY <1>1, <1>3, <2>1
  <2>4. z \in Syms /\ nodes'[z] = nodes[z]
    BY <1>1, <2>2, <2>3
  <2>5. QED
    BY <1>4, <1>5, <1>7, <2>4 DEF InReach, Declares
<1>9. InReach(y, d)' /\ nodes'[y] = nodes[y]
  BY <1>1, <1>4, <1>5, <1>6, <1>7 DEF InReach, Declares
<1>10. d \in Syms
  BY <1>2, <1>3, <1>4 DEF Declared, TypeKinds, VarKinds
<1>11. table'[d] = table'[y]
  BY <1>1, <1>6, <1>10
<1>12. QED
  BY <1>1, <1>6, <1>8, <1>9, <1>11 DEF Nearer
-----------------------------------------------------------------------------
(* The actions of both walks.                                              *)

\* What the first walk visits is recorded as a node of the tree.
LEMMA NewNodeIsNode ==
  ASSUME RInv, NEW k \in NodeKinds, NEW n \in TypeNames \cup {""}, NEW of \in TypeNames \cup {""}
  PROVE  NewNode(k, n, of) \in Node
<1>1. cur \in Nat
  BY DEF RInv, Shape
<1>2. QED
  BY <1>1 DEF NewNode, Node, Linkages

\* A step that appends one node, and may add its symbol and its scope.
LEMMA GrowsByOne ==
  ASSUME RInv, NEW nd \in Node, nodes' = Append(nodes, nd),
         Scopes \subseteq Scopes', \A s \in Scopes : chain'[s] = chain[s],
         Syms \subseteq Syms', \A y \in Syms : table'[y] = table[y]
  PROVE  Grows(1)
BY AppendNode DEF Grows, RInv, Shape

\* Declaring a variable or a type appends one node and its symbol
\* (build_ScopeSymbol_for_variable, build_ScopeSymbol_for_type).
LEMMA DeclareOneNode ==
  ASSUME RInv, NEW nd \in Node, nd.scope = cur,
         nd.kind \in {"var", "let", "cast", "type", "opaque"},
         NEW t, Declare(nd, t),
         nd.kind \in {"let", "cast"} =>
           \E y \in Syms : /\ nodes[y].name = nd.of /\ nodes[y].scope \in chain[cur]
                           /\ \A z \in Syms :
                                nodes[z].name = nd.of /\ nodes[z].scope \in chain[cur]
                                  => Nearer(y, z)
                           /\ t = table[y]
  PROVE  OneNode(nd)
<1>1. N \in Nat /\ Here = N + 1 /\ Syms \subseteq 1..N /\ cur \in Scopes
      /\ \A s \in Scopes : s <= N /\ s \in Nat
  BY Sizes DEF RInv, Shape
<1>2. nodes' = Append(nodes, nd) /\ Syms' = Syms \cup {Here} /\ Scopes' = Scopes
      /\ chain' = chain /\ cur' = cur
  BY DEF Declare, Syms, Scopes
<1>3. Here \notin Syms /\ Here \notin Scopes
  BY <1>1
<1>4. table'[Here] = t /\ \A y \in Syms : table'[y] = table[y]
  BY <1>3 DEF Declare, Syms
<1>5. Grows(1)
  BY <1>2, <1>4, GrowsByOne
<1>6. /\ nd.kind \notin {"param", "func", "builtin", "open", "close", "proto"}
      /\ nd.kind \in TypeKinds \cup VarKinds \cup FuncKinds
  BY DEF TypeKinds, VarKinds
<1>7. cur' \in Scopes' /\ Here \notin Scopes' /\ Here \in Syms'
  BY <1>1, <1>2, <1>3
<1>8. CASE nd.kind \in {"let", "cast"}
  BY <1>2, <1>4, <1>5, <1>6, <1>7, <1>8 DEF OneNode
<1>9. CASE nd.kind \notin {"let", "cast"}
  BY <1>2, <1>4, <1>5, <1>6, <1>7, <1>9 DEF OneNode
<1>10. QED
  BY <1>8, <1>9

\* Resolving a variable appends one node or gives an error
\* (build_ScopeSymbol_for_variable).
LEMMA VariableStep ==
  ASSUME RInv, build_ScopeSymbol_for_variable
  PROVE  (\E nd : OneNode(nd)) \/ UNCHANGED <<nodes, table, chain, cur>>
<1>1. PICK k \in {"var", "let", "cast"} \cap Kinds, n \in Names, of \in TypeNames :
        LET typed == IF k = "let" THEN TypeOfIdentifier(cur, of)
                                  ELSE scope_get_Type_from_name(cur, of)
        IN Fail \/ \E y \in typed : Declare(NewNode(k, n, of), table[y])
  BY DEF build_ScopeSymbol_for_variable
<1>2. CASE Fail
  BY <1>2 DEF Fail
<1>3. CASE ~Fail
  <2> DEFINE nd == NewNode(k, n, of)
  <2>1. nd \in Node
    BY NewNodeIsNode DEF NodeKinds, VarKinds, TypeNames
  <2>2. nd.kind = k /\ nd.scope = cur /\ nd.of = of
    BY DEF NewNode
  <2>3. PICK y : /\ Declare(nd, table[y])
                 /\ k = "let" => y \in TypeOfIdentifier(cur, of)
                 /\ k = "cast" => y \in scope_get_Type_from_name(cur, of)
    BY <1>1, <1>3
  <2>4. k \in {"let", "cast"} =>
          /\ y \in Syms /\ nodes[y].name = of /\ nodes[y].scope \in chain[cur]
          /\ \A z \in Syms : nodes[z].name = of /\ nodes[z].scope \in chain[cur] => Nearer(y, z)
    BY <2>3 DEF TypeOfIdentifier, scope_get_Type_from_name, scope_lookup_name, Visible
  <2> HIDE DEF nd
  <2>5. OneNode(nd)
    BY <2>1, <2>2, <2>3, <2>4, DeclareOneNode
  <2>6. QED
    BY <2>5
<1>4. QED
  BY <1>2, <1>3

\* Resolving a type appends one node or gives an error
\* (build_ScopeSymbol_for_type).
LEMMA TypeStep ==
  ASSUME RInv, build_ScopeSymbol_for_type
  PROVE  (\E nd : OneNode(nd)) \/ UNCHANGED <<nodes, table, chain, cur>>
<1>1. PICK k \in {"type", "opaque"} \cap Kinds, n \in Names, of \in TypeNames :
        Fail \/ \E t : Declare(NewNode(k, n, of), t)
  BY DEF build_ScopeSymbol_for_type
<1>2. CASE Fail
  BY <1>2 DEF Fail
<1>3. CASE ~Fail
  <2> DEFINE nd == NewNode(k, n, of)
  <2>1. nd \in Node
    BY NewNodeIsNode DEF NodeKinds, TypeKinds, TypeNames
  <2>2. nd.kind = k /\ nd.scope = cur
    BY DEF NewNode
  <2>3. PICK t : Declare(nd, t)
    BY <1>1, <1>3
  <2> HIDE DEF nd
  <2>4. OneNode(nd)
    BY <2>1, <2>2, <2>3, DeclareOneNode
  <2>5. QED
    BY <2>4
<1>4. QED
  BY <1>2, <1>3

\* Entering a block appends one node and makes its scope the current one.
LEMMA EnterStep ==
  ASSUME RInv, EnterBlock
  PROVE  \E nd : OneNode(nd)
<1> DEFINE nd == NewNode("open", "", "")
<1>1. nd \in Node /\ nd.kind = "open" /\ nd.scope = cur
  BY NewNodeIsNode DEF NodeKinds, NewNode
<1>2. N \in Nat /\ Here = N + 1 /\ Syms \subseteq 1..N /\ cur \in Scopes
      /\ \A s \in Scopes : s <= N /\ s \in Nat
  BY Sizes DEF RInv, Shape
<1>3. nodes' = Append(nodes, nd) /\ table' = table /\ cur' = Here
  BY DEF EnterBlock
<1>4. Here \notin Syms /\ Here \notin Scopes
  BY <1>2
<1>5. Scopes' = Scopes \cup {Here} /\ Syms' = Syms
  BY <1>3 DEF EnterBlock, Scopes, Syms
<1>6. chain'[Here] = chain[cur] \cup {Here} /\ \A s \in Scopes : chain'[s] = chain[s]
  BY <1>4 DEF EnterBlock, Scopes
<1> HIDE DEF nd
<1>7. Grows(1)
  BY <1>1, <1>3, <1>5, <1>6, GrowsByOne
<1>8. OneNode(nd)
  BY <1>1, <1>3, <1>4, <1>5, <1>6, <1>7 DEF OneNode, TypeKinds, VarKinds
<1>9. QED
  BY <1>8

\* Leaving a block appends one node and returns to the scope around it.
LEMMA LeaveStep ==
  ASSUME RInv, LeaveBlock
  PROVE  \E nd : OneNode(nd)
<1> DEFINE nd == NewNode("close", "", "")
<1>1. nd \in Node /\ nd.kind = "close" /\ nd.scope = cur
  BY NewNodeIsNode DEF NodeKinds, NewNode
<1>2. N \in Nat /\ Here = N + 1 /\ Syms \subseteq 1..N /\ cur \in Scopes
      /\ \A s \in Scopes : s <= N /\ s \in Nat
  BY Sizes DEF RInv, Shape
<1>3. nodes' = Append(nodes, nd) /\ Syms' = Syms /\ Scopes' = Scopes
      /\ table' = table /\ chain' = chain /\ cur' \in Parent(cur)
  BY DEF LeaveBlock, Syms, Scopes
<1>4. Here \notin Syms /\ Here \notin Scopes
  BY <1>2
<1>5. cur' \in Scopes
  BY <1>2, <1>3 DEF Parent, RInv, Shape
<1> HIDE DEF nd
<1>6. Grows(1)
  BY <1>1, <1>3, GrowsByOne
<1>7. OneNode(nd)
  BY <1>1, <1>3, <1>4, <1>5, <1>6 DEF OneNode, TypeKinds, VarKinds
<1>8. QED
  BY <1>7

\* An identifier or a call only adds its node (scope_resolve_internal).
LEMMA UseStep ==
  ASSUME RInv, scope_resolve_internal
  PROVE  \E nd : OneNode(nd)
<1>1. PICK k \in {"use", "call"} \cap Kinds, n \in Names :
        nodes' = Append(nodes, NewNode(k, n, ""))
  BY DEF scope_resolve_internal
<1> DEFINE nd == NewNode(k, n, "")
<1>2. nd \in Node /\ nd.kind = k /\ nd.scope = cur
  BY NewNodeIsNode DEF NodeKinds, NewNode, TypeNames
<1>3. N \in Nat /\ Here = N + 1 /\ Syms \subseteq 1..N /\ cur \in Scopes
      /\ \A s \in Scopes : s <= N /\ s \in Nat
  BY Sizes DEF RInv, Shape
<1>4. nodes' = Append(nodes, nd) /\ Syms' = Syms /\ Scopes' = Scopes
      /\ table' = table /\ chain' = chain /\ cur' = cur
  BY <1>1 DEF scope_resolve_internal, Syms, Scopes
<1>5. Here \notin Syms /\ Here \notin Scopes
  BY <1>3
<1> HIDE DEF nd
<1>6. Grows(1)
  BY <1>2, <1>4, GrowsByOne
<1>7. OneNode(nd)
  BY <1>2, <1>3, <1>4, <1>5, <1>6 DEF OneNode, TypeKinds, VarKinds
<1>8. QED
  BY <1>7

\* The nodes of a function with a body: its own, then its m parameters'.
AddsNodes(nd, m) ==
  /\ nodes' \in Seq(Node) /\ N' = N + (1 + m) /\ nodes'[Here] = nd
  /\ \A i \in 1..N : nodes'[i] = nodes[i]
  /\ \A j \in Here + 1 .. Here + m :
       nodes'[j].kind = "param" /\ nodes'[j].scope = Here /\ nodes'[j].ext = "none"

\* They are nodes of the tree, behind the ones that were there.
LEMMA FunctionNodes ==
  ASSUME RInv, NEW nd \in Node, NEW m \in Nat, NEW ps \in [1..m -> Names],
         nodes' = Append(nodes, nd) \o ParamNodes(ps)
  PROVE  AddsNodes(nd, m)
<1>1. nodes \in Seq(Node) /\ N \in Nat /\ Here = N + 1
  BY Sizes DEF RInv, Shape
<1>2. ps \in Seq(Names) /\ Len(ps) = m
  BY SMT
<1> DEFINE p(j) == [kind |-> "param", name |-> ps[j], of |-> "",
                    ext |-> "none", args |-> 0, scope |-> Here]
<1>3. ASSUME NEW j \in 1..m PROVE p(j) \in Node
  <2>1. ps[j] \in TypeNames
    BY DEF TypeNames
  <2>2. Here \in Nat
    BY <1>1
  <2>3. QED
    BY <2>1, <2>2 DEF Node, NodeKinds, VarKinds, Linkages
<1>4. ParamNodes(ps) = [j \in 1..m |-> p(j)]
  BY <1>2 DEF ParamNodes
<1> HIDE DEF p
<1>5. ParamNodes(ps) \in Seq(Node) /\ Len(ParamNodes(ps)) = m
  BY <1>3, <1>4, SMT
<1>6. \A j \in 1..m : /\ ParamNodes(ps)[j].kind = "param" /\ ParamNodes(ps)[j].scope = Here
                     /\ ParamNodes(ps)[j].ext = "none"
  BY <1>2 DEF ParamNodes
<1>7. /\ Append(nodes, nd) \in Seq(Node) /\ Len(Append(nodes, nd)) = N + 1
      /\ \A i \in 1..N : Append(nodes, nd)[i] = nodes[i]
      /\ Append(nodes, nd)[N + 1] = nd
  BY <1>1, AppendProperties DEF N
<1> DEFINE s1 == Append(nodes, nd)
           s2 == ParamNodes(ps)
<1>8. /\ s1 \o s2 \in Seq(Node) /\ Len(s1 \o s2) = Len(s1) + Len(s2)
      /\ \A i \in 1 .. Len(s1) + Len(s2) :
           (s1 \o s2)[i] = IF i <= Len(s1) THEN s1[i] ELSE s2[i - Len(s1)]
  BY <1>5, <1>7, ConcatProperties
<1>9. nodes' = s1 \o s2 /\ Len(s1) = N + 1 /\ Len(s2) = m
  BY <1>5, <1>7
<1>10. nodes' \in Seq(Node) /\ N' = N + (1 + m)
  BY <1>1, <1>8, <1>9 DEF N
<1>11. \A i \in 1..N : nodes'[i] = nodes[i]
  BY <1>1, <1>7, <1>8, <1>9
<1>12. nodes'[Here] = nd
  BY <1>1, <1>7, <1>8, <1>9
<1>13. \A j \in Here + 1 .. Here + m : nodes'[j] = s2[j - Here] /\ j - Here \in 1..m
  BY <1>1, <1>8, <1>9
<1>14. QED
  BY <1>6, <1>10, <1>11, <1>12, <1>13 DEF AddsNodes

\* A prototype: its node, and its symbol when it is the first of its name.
LEMMA PrototypeStep ==
  ASSUME RInv, NEW nd \in Node, nd.kind = "proto", nd.scope = cur, cur = 0,
         nodes' = Append(nodes, nd), UNCHANGED <<chain, cur>>,
         \/ /\ LookupLocal(cur, nd.name) = {}
            /\ table' = [y \in Syms \cup {Here} |-> IF y = Here THEN 0 ELSE table[y]]
         \/ /\ \E y \in LookupLocal(cur, nd.name) : nodes[y].kind \in FuncKinds
            /\ table' = table
  PROVE  OneNode(nd)
<1>1. N \in Nat /\ Here = N + 1 /\ Syms \subseteq 1..N /\ cur \in Scopes
      /\ \A s \in Scopes : s <= N /\ s \in Nat
  BY Sizes DEF RInv, Shape
<1>2. Here \notin Syms /\ Here \notin Scopes
  BY <1>1
<1>3. Scopes' = Scopes /\ chain' = chain /\ cur' = cur
  BY DEF Scopes
<1>4. /\ Syms \subseteq Syms' /\ Syms' \subseteq Syms \cup {Here}
      /\ \A y \in Syms : table'[y] = table[y]
  BY <1>2 DEF Syms
<1>5. Grows(1)
  BY <1>3, <1>4, GrowsByOne
<1>6. \/ /\ Here \in Syms'
         /\ \A y \in Syms : nodes[y].kind \in FuncKinds => nodes[y].name # nd.name
      \/ /\ Here \notin Syms'
         /\ \E y \in Syms : nodes[y].kind \in FuncKinds /\ nodes[y].name = nd.name
  <2>1. CASE /\ LookupLocal(cur, nd.name) = {}
             /\ table' = [y \in Syms \cup {Here} |-> IF y = Here THEN 0 ELSE table[y]]
    <3>1. \A y \in Syms : nodes[y].kind \in FuncKinds => nodes[y].scope = 0
      BY <1>1 DEF RInv, Declared
    <3>2. Here \in Syms'
      BY <2>1 DEF Syms
    <3>3. QED
      BY <2>1, <3>1, <3>2 DEF LookupLocal
  <2>2. CASE /\ \E y \in LookupLocal(cur, nd.name) : nodes[y].kind \in FuncKinds
             /\ table' = table
    BY <1>2, <2>2 DEF LookupLocal, Syms
  <2>3. QED
    BY <2>1, <2>2
<1>7. QED
  BY <1>1, <1>2, <1>3, <1>4, <1>5, <1>6 DEF OneNode, TypeKinds, VarKinds, FuncKinds

\* A function with a body, new or after a prototype: its symbol, and room for
\* as many parameters.
LEMMA BodyStep ==
  ASSUME RInv, NEW nd \in Node, NEW m \in Nat, NEW ps \in [1..m -> Names],
         nd.kind = "func", nd.scope = cur, cur = 0, nd.args = m,
         nodes' = Append(nodes, nd) \o ParamNodes(ps),
         NEW sym, NEW room \in Nat, add_body_to_func_sym(sym, room, m),
         \/ sym = Here /\ room = m /\ LookupLocal(cur, nd.name) = {}
         \/ /\ sym \in LookupLocal(cur, nd.name) /\ nodes[sym].kind \in FuncKinds
            /\ room = nodes[sym].args
  PROVE  OneFunction(nd, m)
<1>1. N \in Nat /\ Here = N + 1 /\ Syms \subseteq 1..N /\ cur \in Scopes
      /\ \A s \in Scopes : s <= N /\ s \in Nat
  BY Sizes DEF RInv, Shape
<1>2. Here \notin Syms /\ Here \notin Scopes
  BY <1>1
<1> DEFINE last == Here + (IF m < room THEN m ELSE room)
<1>3. /\ Syms' = Syms \cup {sym} \cup Here + 1 .. last
      /\ \A y \in Syms : table'[y] = table[y]
  BY DEF add_body_to_func_sym, Syms
<1>4. /\ Scopes' = Scopes \cup {Here} /\ cur' = Here
      /\ chain'[Here] = chain[cur] \cup {Here}
      /\ \A s \in Scopes : chain'[s] = chain[s]
  BY <1>2 DEF add_body_to_func_sym, Scopes
<1>5. /\ nodes' \in Seq(Node) /\ N' = N + (1 + m) /\ nodes'[Here] = nd
      /\ \A i \in 1..N : nodes'[i] = nodes[i]
      /\ \A j \in Here + 1 .. Here + m : nodes'[j].kind = "param" /\ nodes'[j].scope = Here
  <2>1. AddsNodes(nd, m)
    BY FunctionNodes
  <2>2. QED
    BY <2>1 DEF AddsNodes
<1>6. Grows(1 + m)
  BY <1>3, <1>4, <1>5 DEF Grows
<1>7. \/ /\ \A y \in Syms : nodes[y].kind \in FuncKinds => nodes[y].name # nd.name
         /\ Syms' = Syms \cup Here .. Here + m
      \/ \E y \in Syms :
           /\ nodes[y].kind \in FuncKinds /\ nodes[y].name = nd.name
           /\ Syms' \subseteq Syms \cup Here + 1 .. Here + m
           /\ Syms \subseteq Syms'
           /\ \A j \in Here + 1 .. Here + m : j - Here <= nodes[y].args => j \in Syms'
  <2>1. CASE sym = Here /\ room = m /\ LookupLocal(cur, nd.name) = {}
    <3>1. \A y \in Syms : nodes[y].kind \in FuncKinds => nodes[y].scope = 0
      BY <1>1 DEF RInv, Declared
    <3>2. last = Here + m /\ {Here} \cup Here + 1 .. Here + m = Here .. Here + m
      BY <1>1, <2>1
    <3>3. QED
      BY <1>3, <2>1, <3>1, <3>2 DEF LookupLocal
  <2>2. CASE /\ sym \in LookupLocal(cur, nd.name) /\ nodes[sym].kind \in FuncKinds
             /\ room = nodes[sym].args
    <3>1. sym \in Syms /\ nodes[sym].name = nd.name
      BY <2>2 DEF LookupLocal
    <3>2. Here + 1 .. last \subseteq Here + 1 .. Here + m
      BY <1>1
    <3>3. \A j \in Here + 1 .. Here + m : j - Here <= room => j \in Here + 1 .. last
      BY <1>1
    <3>4. QED
      BY <1>3, <2>2, <3>1, <3>2, <3>3
  <2>3. QED
    BY <2>1, <2>2
<1>8. QED
  BY <1>4, <1>5, <1>6, <1>7 DEF OneFunction

\* What build_ScopeSymbol_for_func does for one declaration.
FunctionCases(k, n, ext, ps) ==
  LET same     == LookupLocal(cur, n)
      known(b) == {y \in same : nodes[y].kind \in FuncKinds /\ (y \in bodied) = b}
  IN \/ /\ same = {}
        /\ nodes' = Append(nodes, FuncNode(k, n, ext, ps))
                      \o (IF k = "func" THEN ParamNodes(ps) ELSE << >>)
        /\ IF k = "func"
           THEN add_body_to_func_sym(Here, Len(ps), Len(ps))
           ELSE /\ table' = [y \in Syms \cup {Here} |->
                               IF y = Here THEN 0 ELSE table[y]]
                /\ UNCHANGED <<phase, bodied, chain, cur>>
     \/ /\ k = "proto" /\ known(TRUE) # {}
        /\ nodes' = Append(nodes, FuncNode(k, n, ext, ps))
        /\ UNCHANGED <<phase, table, bodied, chain, cur>>
     \/ /\ k = "func"
        /\ \E y \in known(FALSE) :
             /\ nodes' = Append(nodes, FuncNode(k, n, ext, ps)) \o ParamNodes(ps)
             /\ add_body_to_func_sym(y, nodes[y].args, Len(ps))
     \/ /\ same # {} /\ known(k = "proto") = {}
        /\ Fail

\* Resolving a function appends its node, or its node and its parameters, or
\* gives an error (build_ScopeSymbol_for_func).
LEMMA FunctionStep ==
  ASSUME RInv, build_ScopeSymbol_for_func
  PROVE  \/ \E nd : OneNode(nd)
         \/ \E nd, m : OneFunction(nd, m)
         \/ UNCHANGED <<nodes, table, chain, cur>>
<1>1. PICK k \in FuncKinds \cap Kinds, n \in Names, ext \in Linkages :
        \E m \in 0..MaxParams : \E ps \in [1..m -> Names] :
          /\ Walking
          /\ cur = 0
          /\ ext = "export" => k = "func"
          /\ ext = "extern" => k = "proto"
          /\ FunctionCases(k, n, ext, ps)
  BY ZenonT(30) DEF build_ScopeSymbol_for_func, FunctionCases
<1>2. PICK m \in 0..MaxParams :
         \E ps \in [1..m -> Names] : cur = 0 /\ FunctionCases(k, n, ext, ps)
  BY <1>1
<1>3. PICK ps \in [1..m -> Names] : cur = 0 /\ FunctionCases(k, n, ext, ps)
  BY <1>2
<1> DEFINE nd == FuncNode(k, n, ext, ps)
<1>4. m \in Nat /\ Len(ps) = m
  BY BoundsAssumption, SMT
<1>5. N \in Nat /\ nodes \in Seq(Node) /\ \A y \in Syms : nodes[y].args \in Nat
  <2>1. \A y \in Syms : y \in 1..N
    BY DEF RInv, Shape
  <2>2. \A y \in 1..N : nodes[y].args \in Nat
    BY NodeAt DEF RInv, Shape, Node
  <2>3. QED
    BY <2>1, <2>2, Sizes DEF RInv, Shape
<1>6. nd \in Node /\ nd.kind = k /\ nd.name = n /\ nd.scope = cur /\ nd.args = m
  <2>1. cur \in Nat
    BY DEF RInv, Shape
  <2>2. n \in TypeNames /\ ext \in Linkages /\ k \in NodeKinds
    BY DEF TypeNames, NodeKinds
  <2>3. QED
    BY <1>4, <2>1, <2>2 DEF FuncNode, Node
<1> HIDE DEF nd
<1>7. CASE LookupLocal(cur, n) = {} /\ k = "func" /\
           nodes' = Append(nodes, nd) \o ParamNodes(ps) /\ add_body_to_func_sym(Here, m, m)
  BY <1>3, <1>4, <1>6, <1>7, BodyStep
<1>8. CASE LookupLocal(cur, n) = {} /\ k = "proto" /\
           nodes' = Append(nodes, nd) /\ UNCHANGED <<chain, cur>> /\
           table' = [y \in Syms \cup {Here} |-> IF y = Here THEN 0 ELSE table[y]]
  BY <1>3, <1>6, <1>8, PrototypeStep
<1>9. CASE k = "proto" /\ nodes' = Append(nodes, nd) /\ UNCHANGED <<table, chain, cur>> /\
           \E y \in LookupLocal(cur, n) : nodes[y].kind \in FuncKinds
  BY <1>3, <1>6, <1>9, PrototypeStep
<1>10. CASE k = "func" /\ nodes' = Append(nodes, nd) \o ParamNodes(ps) /\
           \E y \in LookupLocal(cur, n) :
             nodes[y].kind \in FuncKinds /\ add_body_to_func_sym(y, nodes[y].args, m)
  <2>1. PICK y \in LookupLocal(cur, n) :
          nodes[y].kind \in FuncKinds /\ add_body_to_func_sym(y, nodes[y].args, m)
    BY <1>10
  <2>2. nodes[y].args \in Nat
    BY <1>5 DEF LookupLocal
  <2>3. OneFunction(nd, m)
    BY <1>3, <1>4, <1>6, <1>10, <2>1, <2>2, BodyStep
  <2>4. QED
    BY <2>3
<1>11. CASE Fail
  BY <1>11 DEF Fail
<1>12. Append(nodes, nd) \o << >> = Append(nodes, nd)
  BY <1>5, <1>6, AppendProperties, ConcatEmptySeq
<1>13. k = "func" \/ k = "proto"
  BY DEF FuncKinds
<1>14. QED
  BY <1>3, <1>4, <1>7, <1>8, <1>9, <1>10, <1>11, <1>12, <1>13 DEF nd, FunctionCases

\* Every step of the first walk preserves the invariant of it.
LEMMA ResolveRInv == RInv /\ ResolveNext => RInv'
<1> SUFFICES ASSUME RInv, ResolveNext PROVE RInv'
  OBVIOUS
<1>1. \/ \E nd : OneNode(nd)
      \/ \E nd, m : OneFunction(nd, m)
      \/ UNCHANGED <<nodes, table, chain, cur>>
  BY VariableStep, TypeStep, FunctionStep, EnterStep, LeaveStep, UseStep DEF ResolveNext
<1>2. ASSUME NEW nd, OneNode(nd) PROVE RInv'
  BY <1>2, OneNodeShape, OneNodeFollows, OneNodeDeclared, OneNodeParams, OneNodeInferred
     DEF RInv
<1>3. ASSUME NEW nd, NEW m, OneFunction(nd, m) PROVE RInv'
  BY <1>3, OneFunctionShape, OneFunctionFollows, OneFunctionDeclared, OneFunctionParams,
     OneFunctionInferred DEF RInv
<1>4. ASSUME UNCHANGED <<nodes, table, chain, cur>> PROVE RInv'
  BY <1>4 DEF RInv, Shape, Follows, After, ScopeAt, Parent, Declared, Declares, Params,
     SameFunction, Inferred, InReach, UsedName, Nearer, N, B, Syms, Scopes
<1>5. QED
  BY <1>1, <1>2, <1>3, <1>4

\* At the start the nodes are those of the built-in types.
LEMMA InitSize == CgInit => nodes \in Seq(Node) /\ N = B /\ B \in Nat /\ B > 0
<1> SUFFICES ASSUME CgInit PROVE nodes \in Seq(Node) /\ N = B /\ B \in Nat /\ B > 0
  OBVIOUS
<1>1. B \in Nat /\ B > 0
  BY NamesAssumption, LenProperties DEF B
<1> DEFINE b(i) == [kind |-> "builtin", name |-> BuiltinTypes[i], of |-> "",
                    ext |-> "none", args |-> 0, scope |-> 0]
<1>2. nodes = [i \in 1..B |-> b(i)]
  BY DEF CgInit, Init, B
<1>3. ASSUME NEW i \in 1..B PROVE b(i) \in Node
  BY DEF B, Node, NodeKinds, TypeKinds, TypeNames, Linkages
<1> HIDE DEF b
<1>4. nodes \in Seq(Node)
  BY <1>1, <1>2, <1>3, IsASeq
<1>5. DOMAIN nodes = 1..N /\ DOMAIN nodes = 1..B /\ N \in Nat
  BY <1>2, <1>4, LenProperties DEF N
<1>6. QED
  BY <1>1, <1>4, <1>5

\* The invariant holds when only the built-in types are declared
\* (install_builtins).
LEMMA InitIInv == CgInit => IInv
<1> SUFFICES ASSUME CgInit PROVE IInv
  OBVIOUS
<1>1. B \in Nat /\ B > 0
  BY InitSize
<1>2. \A i \in 1..B : nodes[i].kind = "builtin" /\ nodes[i].scope = 0
  BY DEF CgInit, Init, B
<1>3. nodes \in Seq(Node) /\ N = B
  BY InitSize
<1>4. Syms = 1..B /\ Scopes = {0} /\ chain[0] = {0} /\ cur = 0 /\ phase = "resolve"
  BY DEF CgInit, Init, Syms, Scopes, B
<1>5. Shape
  BY <1>1, <1>2, <1>3, <1>4 DEF Shape
<1>6. Follows
  <2>1. \A i \in B..N : i = B
    BY <1>1, <1>3
  <2>2. ScopeAt(B + 1) = 0
    BY <1>1, <1>3, <1>4 DEF ScopeAt
  <2>3. B \in 1..B
    BY <1>1
  <2>4. QED
    BY <1>2, <2>1, <2>2, <2>3 DEF Follows, After
<1>7. Declared
  BY <1>2, <1>3, <1>4 DEF Declared, Declares, TypeKinds, FuncKinds
<1>8. Params /\ Inferred
  BY <1>2, <1>3 DEF Params, Inferred
<1>9. Walk2
  <2>1. pc = B + 1 /\ sr = 0 /\ vals = {} /\ DOMAIN funs = {}
    BY <1>3 DEF CgInit, N
  <2>2. \A p \in 1 .. pc - 1 : nodes[p].kind # "param"
    BY <1>1, <1>2, <2>1
  <2>3. \A y \in Syms : nodes[y].kind \notin FuncKinds
    BY <1>2, <1>4 DEF FuncKinds
  <2>4. QED
    BY <1>1, <1>4, <2>1, <2>2, <2>3 DEF Walk2
<1>10. QED
  BY <1>5, <1>6, <1>7, <1>8, <1>9 DEF IInv, RInv, Bound, CgInit

\* Only main starts the second walk: the first goes on or ends in an error.
LEMMA ResolvePhase ==
  ASSUME ResolveNext
  PROVE  phase = "resolve" /\ phase' # "codegen" /\ phase' # "done"
<1>1. CASE build_ScopeSymbol_for_variable
  BY <1>1 DEF build_ScopeSymbol_for_variable, Walking, Fail, Declare
<1>2. CASE build_ScopeSymbol_for_type
  BY <1>2 DEF build_ScopeSymbol_for_type, Walking, Fail, Declare
<1>3. CASE build_ScopeSymbol_for_func
  <2>1. PICK k \in FuncKinds \cap Kinds, n \in Names, ext \in Linkages :
          \E m \in 0..MaxParams : \E ps \in [1..m -> Names] :
            /\ Walking
            /\ cur = 0
            /\ ext = "export" => k = "func"
            /\ ext = "extern" => k = "proto"
            /\ FunctionCases(k, n, ext, ps)
    BY <1>3, ZenonT(30) DEF build_ScopeSymbol_for_func, FunctionCases
  <2>2. ASSUME NEW sym, NEW room, NEW params, phase = "resolve",
               add_body_to_func_sym(sym, room, params)
        PROVE  phase' # "codegen" /\ phase' # "done"
    BY <2>2 DEF add_body_to_func_sym
  <2>3. QED
    BY <2>1, <2>2 DEF FunctionCases, Walking, Fail
<1>4. CASE EnterBlock \/ LeaveBlock \/ scope_resolve_internal
  BY <1>4 DEF EnterBlock, LeaveBlock, scope_resolve_internal, Walking
<1>5. QED
  BY <1>1, <1>2, <1>3, <1>4 DEF ResolveNext

\* A step of the first walk touches nothing of the second, which is in front
\* of the first node of the program.
LEMMA ResolveIInv == IInv /\ ResolveNext /\ UNCHANGED cgVars => IInv'
<1> SUFFICES ASSUME IInv, ResolveNext, UNCHANGED cgVars PROVE IInv'
  OBVIOUS
<1>1. RInv'
  BY ResolveRInv DEF IInv
<1>2. phase = "resolve" /\ phase' # "codegen"
  BY ResolvePhase
<1>3. /\ pc = B + 1 /\ sr = 0 /\ refs = {} /\ B \in Nat
      /\ pc' = pc /\ sr' = sr /\ refs' = {} /\ vals' = vals /\ funs' = funs /\ B' = B
  BY <1>2, Sizes DEF IInv, RInv, Shape, Walk2, cgVars, B
<1>4. /\ \A i \in 1..B : nodes'[i].kind = "builtin" /\ i \in Syms'
      /\ N' >= B /\ Syms' \subseteq 1..N' /\ N' \in Nat
  <2>1. nodes' \in Seq(Node) /\ N' >= B /\ Syms' \subseteq 1..N'
        /\ \A i \in 1..B : nodes'[i].kind = "builtin"
    BY <1>1, <1>3 DEF RInv, Shape
  <2>2. N' \in Nat
    BY <2>1, LenProperties DEF N
  <2>3. \A i \in 1..B : i \in 1..N'
    BY <1>3, <2>1, <2>2
  <2>4. QED
    BY <1>1, <2>1, <2>2, <2>3 DEF RInv, Declared, TypeKinds
<1>5. \A y \in Syms : y < pc => nodes[y].kind \notin FuncKinds
  BY <1>3 DEF IInv, RInv, Shape, FuncKinds
<1>6. DOMAIN funs = {}
  BY <1>5 DEF IInv, Walk2
<1>7. \A y \in vals : y \in 1..B
  BY <1>3 DEF IInv, RInv, Shape, Walk2
<1>8. Walk2'
  <2>1. \A p \in 1 .. pc' - 1 : nodes'[p].kind # "param"
    BY <1>3, <1>4
  <2>2. \A y \in Syms' : y < pc' => nodes'[y].kind \notin FuncKinds
    <3>1. \A y \in 1..N' : y < pc' => y \in 1..B
      BY <1>3, <1>4
    <3>2. QED
      BY <1>4, <3>1 DEF FuncKinds
  <2>3. vals' \subseteq Syms' /\ \A y \in vals' : y < pc'
    BY <1>3, <1>4, <1>7
  <2>4. QED
    BY <1>2, <1>3, <1>6, <2>1, <2>2, <2>3 DEF Walk2
<1>9. QED
  BY <1>1, <1>3, <1>8 DEF IInv, Bound

-----------------------------------------------------------------------------
\* The second walk changes nothing the first one made.
LEMMA Stable ==
  ASSUME UNCHANGED <<nodes, table, chain, cur>>
  PROVE  /\ RInv => RInv'
         /\ N' = N /\ B' = B /\ Syms' = Syms /\ Scopes' = Scopes
         /\ \A i : ScopeAt(i)' = ScopeAt(i)
         /\ \A r : Right(r)' = Right(r)
         /\ \A s : Parent(s)' = Parent(s)
BY DEF RInv, Shape, Follows, After, ScopeAt, Parent, Declared, Declares, Params,
     SameFunction, Inferred, InReach, UsedName, Nearer, Denotes, Right, N, B, Syms, Scopes

\* The facts about the node the second walk is at.
LEMMA AtNode ==
  ASSUME IInv, NEW kinds, At(kinds)
  PROVE  /\ phase = "codegen" /\ N \in Nat /\ B \in Nat
         /\ pc \in 1..N /\ pc \in B..N /\ Node0 = nodes[pc] /\ Node0 \in Node
         /\ sr = Node0.scope /\ sr \in Scopes /\ sr \in Nat /\ sr < pc
         /\ chain[sr] \subseteq 0..sr /\ sr \in chain[sr]
         /\ Node0.kind \in kinds
<1>1. phase = "codegen" /\ pc <= N /\ Node0.kind \in kinds
  BY DEF At, N
<1>2. N \in Nat /\ B \in Nat /\ B > 0 /\ pc \in Nat /\ pc > B
  BY Sizes DEF IInv, RInv, Shape, Walk2
<1>3. pc \in 1..N /\ pc \in B..N
  BY <1>1, <1>2
<1>4. Node0 = nodes[pc] /\ Node0 \in Node
  BY <1>3, NodeAt DEF Node0, IInv, RInv, Shape
<1>5. sr = nodes[pc].scope
  BY <1>1 DEF IInv, Walk2, ScopeAt
<1>6. sr \in Scopes /\ sr < pc
  BY <1>3, <1>5 DEF IInv, RInv, Shape
<1>7. sr \in Nat /\ chain[sr] \subseteq 0..sr /\ sr \in chain[sr]
  BY <1>6 DEF IInv, RInv, Shape
<1>8. QED
  BY <1>1, <1>2, <1>3, <1>4, <1>5, <1>6, <1>7

\* A range is what is before a number in it and what is not.
LEMMA SplitRange ==
  \A a, b \in Nat : \A p \in 1 .. b - 1 : p \in 1 .. a - 1 \/ p \in a .. b - 1
OBVIOUS

\* A step that goes to the next node and keeps the invariant: the scope is the
\* next node's, values, references and functions are what the invariant asks.
LEMMA Advances ==
  ASSUME IInv, NEW kinds, At(kinds), UNCHANGED resolveVars,
         pc' \in Nat, pc < pc', pc' <= N + 1, sr' = ScopeAt(pc'),
         vals' \subseteq Syms, \A y \in vals' : y < pc',
         \A p \in pc .. pc' - 1 : nodes[p].kind = "param" => p \in Syms,
         \A n \in DOMAIN funs' : funs'[n] \in CgFunction,
         \A y \in Syms : y < pc' /\ nodes[y].kind \in FuncKinds =>
           nodes[y].name \in DOMAIN funs' /\ funs'[nodes[y].name].args = nodes[y].args,
         \A n \in DOMAIN funs' : \E y \in Syms :
           y < pc' /\ nodes[y].kind \in FuncKinds /\ nodes[y].name = n,
         \A r \in refs' \ refs : r.use = pc /\ Right(r)
  PROVE  IInv'
<1>1. /\ phase = "codegen" /\ N \in Nat /\ pc \in 1..N /\ B \in Nat
      /\ pc > B /\ phase' = phase /\ nodes' = nodes /\ table' = table
  BY AtNode DEF IInv, Walk2, resolveVars
<1>2. /\ RInv' /\ N' = N /\ B' = B /\ Syms' = Syms
      /\ \A i : ScopeAt(i)' = ScopeAt(i)
      /\ \A r : Right(r)' = Right(r)
  BY Stable DEF IInv, resolveVars
<1>3. sr' = (ScopeAt(pc))'
  <2>1. PICK q : q = pc'
    OBVIOUS
  <2>2. ScopeAt(q)' = ScopeAt(q)
    BY <1>2
  <2>3. ScopeAt(q)' = ScopeAt(pc)'
    BY <2>1 DEF ScopeAt
  <2>4. QED
    BY <2>1, <2>2, <2>3
<1>4. \A p \in 1 .. pc' - 1 : p <= N /\ nodes[p].kind = "param" => p \in Syms
  <2>1. pc \in Nat /\ pc' \in Nat
    BY <1>1
  <2>2. \A p \in 1 .. pc' - 1 : p \in 1 .. pc - 1 \/ p \in pc .. pc' - 1
    BY <2>1, SplitRange
  <2>3. \A p \in 1 .. pc - 1 : p <= N /\ nodes[p].kind = "param" => p \in Syms
    BY DEF IInv, Walk2
  <2>4. QED
    BY <2>2, <2>3
<1>5. Walk2'
  <2>1. pc' \in Nat /\ pc' > B' /\ phase' # "resolve" /\ pc' <= N' + 1
    BY <1>1, <1>2
  <2>2. \A p \in 1 .. pc' - 1 : p <= N' /\ nodes'[p].kind = "param" => p \in Syms'
    BY <1>1, <1>2, <1>4
  <2>3. \A y \in Syms' : y < pc' /\ nodes'[y].kind \in FuncKinds =>
          nodes'[y].name \in DOMAIN funs' /\ funs'[nodes'[y].name].args = nodes'[y].args
    BY <1>1, <1>2
  <2>4. \A n \in DOMAIN funs' : \E y \in Syms' :
          y < pc' /\ nodes'[y].kind \in FuncKinds /\ nodes'[y].name = n
    BY <1>1, <1>2
  <2>5. vals' \subseteq Syms'
    BY <1>2
  <2>6. QED
    BY <1>3, <2>1, <2>2, <2>3, <2>4, <2>5 DEF Walk2
<1>6. Bound'
  <2> SUFFICES ASSUME NEW r \in refs'
               PROVE  r.use \in 1..N' /\ r.use < pc' /\ Right(r)'
    BY DEF Bound
  <2>1. CASE r \in refs
    <3>1. r.use \in 1..N /\ r.use < pc /\ Right(r)
      BY <2>1 DEF IInv, Bound
    <3>2. r.use < pc'
      BY <1>1, <3>1
    <3>3. QED
      BY <1>1, <1>2, <3>1, <3>2
  <2>2. CASE r \notin refs
    BY <1>1, <1>2, <2>2
  <2>3. QED
    BY <2>1, <2>2
<1>7. QED
  BY <1>1, <1>2, <1>5, <1>6 DEF IInv

\* An end of the compilation, or its start, keeps the invariant.
LEMMA Stops ==
  ASSUME IInv, NEW how, how \notin {"resolve", "codegen"}, Stop(how)
  PROVE  IInv'
<1>1. RInv' /\ N' = N /\ B' = B /\ Syms' = Syms /\ \A r : Right(r)' = Right(r)
  BY Stable DEF IInv, Stop
<1>2. nodes' = nodes /\ table' = table /\ phase' = how /\ pc' = pc /\ vals' = vals
      /\ funs' = funs /\ refs' = refs
  BY DEF Stop, cgVars
<1>3. Walk2'
  BY <1>1, <1>2 DEF IInv, Walk2
<1>4. Bound'
  BY <1>1, <1>2 DEF IInv, Bound
<1>5. QED
  BY <1>1, <1>2, <1>3, <1>4 DEF IInv

\* The invariant survives the change from the first walk to the second.
LEMMA StartIInv == IInv /\ StartCodegen => IInv'
<1> SUFFICES ASSUME IInv, StartCodegen PROVE IInv'
  OBVIOUS
<1>1. /\ RInv' /\ N' = N /\ B' = B /\ Syms' = Syms
      /\ \A i : ScopeAt(i)' = ScopeAt(i)
  BY Stable DEF IInv, StartCodegen
<1>2. /\ nodes' = nodes /\ table' = table /\ phase' = "codegen" /\ pc' = pc /\ vals' = vals
      /\ funs' = funs /\ refs' = {} /\ sr' = sr /\ cur' = cur /\ pc = B + 1 /\ sr = 0
  BY DEF StartCodegen, cgVars, IInv, Walk2
<1>3. N \in Nat /\ B \in Nat /\ B > 0 /\ N >= B
  BY Sizes DEF IInv, RInv, Shape
<1>4. After(B, ScopeAt(B + 1)) /\ nodes[B].kind = "builtin" /\ nodes[B].scope = 0
  BY <1>3 DEF IInv, RInv, Shape, Follows
<1>5. ScopeAt(pc) = 0
  BY <1>2, <1>4 DEF After
<1>6. ScopeAt(pc)' = 0
  BY <1>2, <1>5 DEF ScopeAt, N
<1>7. Walk2'
  BY <1>1, <1>2, <1>3, <1>6 DEF IInv, Walk2
<1>8. QED
  BY <1>1, <1>2, <1>7 DEF IInv, Bound

\* The next node is in the scope of this one, unless this one moves the walk.
LEMMA NextScope ==
  ASSUME IInv, NEW kinds, At(kinds)
  PROVE  /\ After(pc, ScopeAt(pc + 1))
         /\ Node0.kind \notin {"open", "func", "close"} => ScopeAt(pc + 1) = sr
<1>1. pc \in B..N /\ Node0 = nodes[pc] /\ sr = Node0.scope
  BY AtNode
<1>2. After(pc, ScopeAt(pc + 1))
  BY <1>1 DEF IInv, RInv, Follows
<1>3. QED
  BY <1>1, <1>2 DEF After

\* The entry found for a name declared in a scope, from that scope, is not
\* behind the declaration.
LEMMA FindsOwn ==
  ASSUME RInv, NEW s \in Scopes, NEW d \in Syms, nodes[d].scope = s,
         NEW y \in scope_lookup_name(s, nodes[d].name)
  PROVE  y \in Syms /\ y <= d
<1>1. s \in Nat /\ s \in chain[s] /\ chain[s] \subseteq 0..s
  BY DEF RInv, Shape
<1>2. y \in Syms /\ nodes[y].scope \in chain[s] /\ Nearer(y, d)
  BY <1>1 DEF scope_lookup_name, Visible
<1>3. nodes[y].scope \in Nat /\ nodes[y].scope <= s
  BY <1>1, <1>2
<1>4. QED
  BY <1>1, <1>2, <1>3 DEF Nearer

\* What the complete table has for a name, if it was declared before its use,
\* is what lexical scoping says: the declarations that are not in the table
\* stand behind one that is.
LEMMA FindsDenoted ==
  ASSUME IInv, NEW kinds, At(kinds), NEW y \in scope_lookup_name(sr, UsedName(pc)), y < pc
  PROVE  /\ Denotes(pc, y) /\ y \in Syms
         /\ \A z \in Syms : InReach(z, pc) => Nearer(y, z)
<1>1. /\ N \in Nat /\ pc \in 1..N /\ sr = nodes[pc].scope /\ sr \in Scopes
      /\ phase = "codegen"
  BY AtNode
<1>2. /\ RInv /\ Syms \subseteq 1..N /\ y \in 1..N
  BY DEF IInv, RInv, Shape, scope_lookup_name, Visible
<1>3. y \in Syms /\ nodes[y].scope \in chain[sr] /\ nodes[y].name = UsedName(pc)
  BY DEF scope_lookup_name, Visible
<1>4. InReach(y, pc)
  BY <1>1, <1>2, <1>3 DEF InReach, RInv, Declared
<1>5. \A z \in Syms : InReach(z, pc) => Nearer(y, z)
  BY <1>1 DEF scope_lookup_name, Visible, InReach
<1>6. ASSUME NEW z \in 1..N, InReach(z, pc) PROVE Nearer(y, z)
  <2>1. CASE z \in Syms
    BY <1>5, <1>6, <2>1
  <2>2. CASE z \notin Syms
    <3>1. nodes[z].kind \in TypeKinds \cup VarKinds \cup FuncKinds /\ z < pc
      BY <1>6 DEF InReach, Declares
    <3>2. nodes[z].kind # "param"
      <4>1. z \in 1 .. pc - 1 /\ z <= N
        BY <1>1, <3>1
      <4>2. QED
        BY <2>2, <4>1 DEF IInv, Walk2
    <3>3. nodes[z].kind \in FuncKinds
      BY <1>2, <2>2, <3>1, <3>2 DEF RInv, Declared
    <3>4. PICK x \in Syms : SameFunction(x, z)
      BY <1>2, <2>2, <3>3 DEF RInv, Declared
    <3>5. nodes[x].scope = 0 /\ nodes[z].scope = 0 /\ x \in 1..N
      BY <1>2, <3>3, <3>4 DEF RInv, Declared, SameFunction
    <3>6. x < z /\ x < pc
      BY <1>1, <3>1, <3>4, <3>5 DEF SameFunction
    <3>7. InReach(x, pc)
      BY <1>6, <3>4, <3>5, <3>6 DEF InReach, Declares, SameFunction
    <3>8. Nearer(y, x)
      BY <1>5, <3>7
    <3>9. QED
      BY <1>2, <3>5, <3>6, <3>8 DEF Nearer
  <2>3. QED
    BY <2>1, <2>2
<1>7. QED
  BY <1>3, <1>4, <1>5, <1>6 DEF Denotes, N

\* So the type inferred in the first walk is the type found in the second.
LEMMA FindsInferred ==
  ASSUME IInv, NEW kinds, At(kinds), nodes[pc].kind \in {"let", "cast"},
         NEW y \in scope_lookup_name(sr, UsedName(pc)), y < pc
  PROVE  table[pc] = table[y]
<1>1. InReach(y, pc) /\ y \in Syms /\ \A z \in Syms : InReach(z, pc) => Nearer(y, z)
  BY FindsDenoted DEF Denotes
<1>2. pc \in 1..N /\ RInv
  BY AtNode DEF IInv
<1>3. PICK x \in Syms : /\ InReach(x, pc) /\ table[pc] = table[x]
                        /\ \A z \in Syms : InReach(z, pc) => Nearer(x, z)
  BY <1>2 DEF RInv, Inferred
<1>4. Nearer(x, y) /\ Nearer(y, x)
  BY <1>1, <1>3
<1>5. x \in Nat /\ y \in Nat /\ nodes[x].scope \in Nat /\ nodes[y].scope \in Nat
  <2>1. x \in 1..N /\ y \in 1..N
    BY <1>1, <1>2 DEF RInv, Shape
  <2>2. QED
    BY <1>2, <2>1 DEF RInv, Shape
<1>6. x = y
  BY <1>4, <1>5 DEF Nearer
<1>7. QED
  BY <1>3, <1>6

\* A type looked up again in the second walk is the one of the first, unless
\* an alias of an inner scope, declared later, has come before it.
LEMMA FindsCast ==
  ASSUME IInv, NEW kinds, At(kinds), nodes[pc].kind = "cast",
         NEW y \in scope_lookup_name(sr, UsedName(pc)), nodes[y].kind \in TypeKinds
  PROVE  \/ Denotes(pc, y) /\ table[pc] = table[y]
         \/ y > pc /\ nodes[y].scope # 0
<1>1. pc \in 1..N /\ N \in Nat /\ sr = nodes[pc].scope /\ RInv
  BY AtNode DEF IInv
<1>2. y \in Syms /\ y \in 1..N /\ nodes[y].scope \in Nat
  BY <1>1 DEF RInv, Shape, scope_lookup_name, Visible
<1>3. CASE y < pc
  BY <1>3, FindsDenoted, FindsInferred
<1>4. CASE y = pc
  BY <1>4 DEF TypeKinds
<1>5. CASE y > pc
  <2>1. PICK x \in Syms : InReach(x, pc)
    BY <1>1 DEF RInv, Inferred
  <2>2. x < pc /\ x \in 1..N /\ nodes[x].scope \in Nat
    BY <1>1, <2>1 DEF InReach, RInv, Shape
  <2>3. Nearer(y, x)
    BY <1>1, <2>1 DEF scope_lookup_name, Visible, InReach
  <2>4. QED
    BY <1>1, <1>2, <1>5, <2>2, <2>3 DEF Nearer
<1>6. QED
  BY <1>1, <1>2, <1>3, <1>4, <1>5

\* A step to the next node that defines no function.
LEMMA StepsOn ==
  ASSUME IInv, NEW kinds, At(kinds), UNCHANGED resolveVars, funs' = funs,
         pc' = pc + 1, sr' = ScopeAt(pc + 1), Node0.kind \notin FuncKinds \cup {"param"},
         vals' \subseteq Syms, \A y \in vals' : y <= pc,
         \A r \in refs' \ refs : r.use = pc /\ Right(r)
  PROVE  IInv'
<1>1. /\ N \in Nat /\ pc \in 1..N /\ Node0 = nodes[pc] /\ Syms \subseteq 1..N
      /\ pc' \in Nat /\ pc < pc' /\ pc' <= N + 1
  BY AtNode DEF IInv, RInv, Shape
<1>2. \A y \in vals' : y < pc'
  BY <1>1
<1>3. \A p \in pc .. pc' - 1 : nodes[p].kind = "param" => p \in Syms
  <2>1. \A p \in pc .. pc' - 1 : p = pc
    BY <1>1
  <2>2. QED
    BY <1>1, <2>1
<1>4. \A y \in Syms : y < pc' /\ nodes[y].kind \in FuncKinds =>
        y < pc /\ nodes[y].name \in DOMAIN funs' /\ funs'[nodes[y].name].args = nodes[y].args
  <2>1. pc' = pc + 1 /\ pc \in Nat /\ \A y \in Syms : y \in Nat
    <3>1. N \in Nat /\ pc \in 1..N /\ Syms \subseteq 1..N
      BY <1>1, Zenon
    <3>2. pc \in Nat
      BY <3>1
    <3>3. \A y \in 1..N : y \in Nat
      BY <3>1
    <3>4. QED
      BY <3>1, <3>2, <3>3, Zenon
  <2>2. \A y \in Syms : y < pc' => y < pc \/ y = pc
    BY <2>1
  <2>3. QED
    BY <1>1, <2>2 DEF IInv, Walk2
<1>5. /\ \A n \in DOMAIN funs' : funs'[n] \in CgFunction
      /\ \A n \in DOMAIN funs' : \E y \in Syms :
           y < pc' /\ nodes[y].kind \in FuncKinds /\ nodes[y].name = n
  <2>1. \A y \in Syms : y < pc => y < pc'
    BY <1>1
  <2>2. QED
    BY <2>1 DEF IInv, Walk2
<1>6. sr' = ScopeAt(pc')
  OBVIOUS
<1>7. QED
  BY <1>1, <1>2, <1>3, <1>4, <1>5, <1>6, Advances

\* Code for an identifier keeps the invariant (codegen_identifier).
LEMMA IdentifierIInv == IInv /\ CgIdentifier => IInv'
<1> SUFFICES ASSUME IInv, CgIdentifier PROVE IInv'
  OBVIOUS
<1>1. At({"use"}) /\ Node0 = nodes[pc] /\ Node0.kind = "use"
  BY AtNode DEF CgIdentifier
<1>2. CASE Stop("error")
  BY <1>2, Stops
<1>3. CASE ~Stop("error")
  <2>1. PICK y \in get_value(Node0.name) : Emit({}, {[use |-> pc, decl |-> y, type |-> table[y]]})
    BY <1>3 DEF CgIdentifier
  <2>2. y \in scope_lookup_name(sr, UsedName(pc)) /\ y < pc
    BY <1>1 DEF get_value, UsedName, IInv, Walk2
  <2>3. Denotes(pc, y)
    BY <1>1, <2>2, FindsDenoted
  <2>4. /\ UNCHANGED resolveVars /\ funs' = funs /\ pc' = pc + 1 /\ sr' = sr /\ vals' = vals
        /\ refs' = refs \cup {[use |-> pc, decl |-> y, type |-> table[y]]}
    BY <2>1 DEF Emit
  <2>5. sr' = ScopeAt(pc + 1)
    BY <1>1, <2>4, NextScope
  <2>6. vals' \subseteq Syms /\ \A v \in vals' : v <= pc
    <3>1. pc \in Nat /\ Syms \subseteq 1..N /\ N \in Nat
      BY <1>1, AtNode DEF IInv, RInv, Shape
    <3>2. QED
      BY <2>4, <3>1 DEF IInv, Walk2
  <2>7. \A r \in refs' \ refs : r.use = pc /\ Right(r)
    BY <1>1, <2>3, <2>4 DEF Right
  <2>8. Node0.kind \notin FuncKinds \cup {"param"}
    BY <1>1 DEF FuncKinds
  <2>9. QED
    BY <1>1, <2>3, <2>4, <2>5, <2>6, <2>7, <2>8, StepsOn
<1>4. QED
  BY <1>2, <1>3

\* A variable gets its own value, and its initialiser is the one it denotes.
LEMMA VariableIInv == IInv /\ CgVariable => IInv'
<1> SUFFICES ASSUME IInv, CgVariable PROVE IInv'
  OBVIOUS
<1>1. /\ At({"var", "let", "cast"}) /\ Node0 = nodes[pc] /\ Node0.kind \in {"var", "let", "cast"}
      /\ pc \in 1..N /\ N \in Nat /\ sr \in Scopes /\ sr = Node0.scope
  BY AtNode DEF CgVariable
<1>2. PICK sym \in scope_lookup_name(sr, Node0.name) :
        \/ NoLlvmType(table[sym])
        \/ Stop("error")
        \/ Node0.kind = "var" /\ Emit({sym}, {})
        \/ /\ Node0.kind = "let"
           /\ \E y \in get_value(Node0.of) :
                Emit({sym}, {[use |-> pc, decl |-> y, type |-> table[y]]})
        \/ /\ Node0.kind = "cast"
           /\ \E y \in scope_get_Type_from_name(sr, Node0.of) :
                \/ NoLlvmType(table[y])
                \/ Emit({sym}, {[use |-> pc, decl |-> y, type |-> table[y]]})
  BY DEF CgVariable
<1>3. pc \in Syms /\ RInv /\ Syms \subseteq 1..N
  BY <1>1 DEF IInv, RInv, Shape, Declared, VarKinds
<1>4. sym \in Syms /\ sym <= pc
  BY <1>1, <1>2, <1>3, FindsOwn
<1>5. Node0.kind \notin FuncKinds \cup {"param", "open", "func", "close"}
  BY <1>1 DEF FuncKinds
<1>6. ASSUME NEW new, Emit({sym}, new),
             \A r \in new : r.use = pc /\ Right(r)
      PROVE  IInv'
  <2>1. /\ UNCHANGED resolveVars /\ funs' = funs /\ pc' = pc + 1 /\ sr' = sr
        /\ vals' = vals \cup {sym} /\ refs' = refs \cup new
    BY <1>6 DEF Emit
  <2>2. sr' = ScopeAt(pc + 1)
    BY <1>1, <1>5, <2>1, NextScope
  <2>3. \A v \in vals : v \in Syms /\ v <= pc
    BY <1>1, <1>3 DEF IInv, Walk2
  <2>4. vals' \subseteq Syms /\ \A v \in vals' : v <= pc
    BY <1>4, <2>1, <2>3
  <2>5. QED
    BY <1>1, <1>5, <1>6, <2>1, <2>2, <2>4, StepsOn
<1>7. CASE \E t : NoLlvmType(t)
  BY <1>7, Stops DEF NoLlvmType
<1>8. CASE Stop("error")
  BY <1>8, Stops
<1>9. CASE Node0.kind = "var" /\ Emit({sym}, {})
  BY <1>6, <1>9
<1>10. CASE Node0.kind = "let" /\ \E y \in get_value(Node0.of) :
              Emit({sym}, {[use |-> pc, decl |-> y, type |-> table[y]]})
  <2>1. PICK y \in get_value(Node0.of) :
          Emit({sym}, {[use |-> pc, decl |-> y, type |-> table[y]]})
    BY <1>10
  <2>2. y \in scope_lookup_name(sr, UsedName(pc)) /\ y < pc
    BY <1>1, <1>10 DEF get_value, UsedName, IInv, Walk2
  <2>3. Denotes(pc, y) /\ table[pc] = table[y]
    BY <1>1, <1>10, <2>2, FindsDenoted, FindsInferred
  <2>4. Right([use |-> pc, decl |-> y, type |-> table[y]])
    BY <1>1, <1>10, <2>3 DEF Right
  <2>5. QED
    BY <1>6, <2>1, <2>4
<1>11. CASE Node0.kind = "cast" /\ \E y \in scope_get_Type_from_name(sr, Node0.of) :
              Emit({sym}, {[use |-> pc, decl |-> y, type |-> table[y]]})
  <2>1. PICK y \in scope_get_Type_from_name(sr, Node0.of) :
          \/ NoLlvmType(table[y])
          \/ Emit({sym}, {[use |-> pc, decl |-> y, type |-> table[y]]})
    BY <1>11
  <2>2. y \in scope_lookup_name(sr, UsedName(pc)) /\ nodes[y].kind \in TypeKinds
    BY <1>1, <1>11, <2>1 DEF scope_get_Type_from_name, UsedName
  <2>3. \/ Denotes(pc, y) /\ table[pc] = table[y]
        \/ y > pc /\ nodes[y].scope # 0
    BY <1>1, <1>11, <2>2, FindsCast
  <2>4. Right([use |-> pc, decl |-> y, type |-> table[y]])
    BY <1>1, <1>11, <2>3 DEF Right
  <2>5. QED
    BY <1>6, <1>7, <2>1, <2>4
<1>12. QED
  BY <1>2, <1>7, <1>8, <1>9, <1>10, <1>11

\* A block is entered or left: there is one scope to go on in.
LEMMA TypeOrBlockIInv == IInv /\ CgTypeOrBlock => IInv'
<1> SUFFICES ASSUME IInv, CgTypeOrBlock PROVE IInv'
  OBVIOUS
<1>1. /\ At({"type", "opaque", "open", "close"}) /\ Node0 = nodes[pc]
      /\ Node0.kind \in {"type", "opaque", "open", "close"}
      /\ pc \in 1..N /\ N \in Nat /\ sr = Node0.scope /\ chain[sr] \subseteq 0..sr /\ sr \in Nat
  BY AtNode DEF CgTypeOrBlock
<1>2. /\ UNCHANGED resolveVars /\ funs' = funs /\ pc' = pc + 1 /\ vals' = vals /\ refs' = refs
      /\ sr' \in ScopeAfter(Node0)
  BY DEF CgTypeOrBlock
<1>3. After(pc, ScopeAt(pc + 1))
  BY <1>1, NextScope
<1>4. sr' = ScopeAt(pc + 1)
  <2>1. CASE Node0.kind = "close"
    <3>1. sr' \in Parent(sr) /\ ScopeAt(pc + 1) \in Parent(sr)
      BY <1>1, <1>2, <1>3, <2>1 DEF ScopeAfter, After
    <3>2. \A p, q \in Parent(sr) : p = q
      BY <1>1 DEF Parent
    <3>3. QED
      BY <3>1, <3>2
  <2>2. CASE Node0.kind = "open"
    BY <1>1, <1>2, <1>3, <2>2 DEF ScopeAfter, After
  <2>3. CASE Node0.kind \notin {"open", "close"}
    BY <1>1, <1>2, <1>3, <2>3 DEF ScopeAfter, After
  <2>4. QED
    BY <2>1, <2>2, <2>3
<1>5. vals' \subseteq Syms /\ \A v \in vals' : v <= pc
  <2>1. Syms \subseteq 1..N
    BY DEF IInv, RInv, Shape
  <2>2. QED
    BY <1>1, <1>2, <2>1 DEF IInv, Walk2
<1>6. Node0.kind \notin FuncKinds \cup {"param"}
  BY <1>1 DEF FuncKinds
<1>7. QED
  BY <1>1, <1>2, <1>4, <1>5, <1>6, StepsOn

\* Code for a call keeps the invariant (codegen_call).
LEMMA CallIInv == IInv /\ codegen_call => IInv'
<1> SUFFICES ASSUME IInv, codegen_call PROVE IInv'
  OBVIOUS
<1>1. /\ At({"call"}) /\ Node0.kind = "call" /\ pc \in 1..N /\ N \in Nat
  BY AtNode DEF codegen_call
<1>2. CASE Stop("error")
  BY <1>2, Stops
<1>3. CASE ~Stop("error")
  <2>1. /\ UNCHANGED resolveVars /\ funs' = funs /\ pc' = pc + 1 /\ vals' = vals
        /\ refs' = refs /\ sr' = sr
    BY <1>3 DEF codegen_call
  <2>2. sr' = ScopeAt(pc + 1)
    BY <1>1, <2>1, NextScope
  <2>3. vals' \subseteq Syms /\ \A v \in vals' : v <= pc
    <3>1. Syms \subseteq 1..N
      BY DEF IInv, RInv, Shape
    <3>2. QED
      BY <1>1, <2>1, <3>1 DEF IInv, Walk2
  <2>4. Node0.kind \notin FuncKinds \cup {"param"}
    BY <1>1 DEF FuncKinds
  <2>5. QED
    BY <1>1, <2>1, <2>2, <2>3, <2>4, StepsOn
<1>4. QED
  BY <1>2, <1>3

\* The LLVM functions are those of the function symbols so far, and have the
\* parameters of the first declaration, like the symbols.
LEMMA AddsFunction ==
  ASSUME IInv, NEW kinds, At(kinds), Node0.kind \in FuncKinds,
         NEW body \in BOOLEAN, AddFunction(Node0, body)
  PROVE  /\ \A n \in DOMAIN funs' : funs'[n] \in CgFunction
         /\ \A y \in Syms : y <= pc /\ nodes[y].kind \in FuncKinds =>
              nodes[y].name \in DOMAIN funs' /\ funs'[nodes[y].name].args = nodes[y].args
         /\ \A n \in DOMAIN funs' : \E y \in Syms :
              y <= pc /\ nodes[y].kind \in FuncKinds /\ nodes[y].name = n
<1>1. /\ Node0 = nodes[pc] /\ Node0 \in Node /\ pc \in 1..N /\ N \in Nat /\ Syms \subseteq 1..N
      /\ RInv
  BY AtNode DEF IInv, RInv, Shape
<1> DEFINE nm == Node0.name
           old == codegen_function_prototype(Node0)
<1>2. old \in CgFunction
  <2>1. CASE nm \in DOMAIN funs
    BY <2>1 DEF codegen_function_prototype, IInv, Walk2
  <2>2. CASE nm \notin DOMAIN funs
    <3>1. old = [external |-> Node0.ext # "none", body |-> FALSE, args |-> Node0.args]
      BY <2>2 DEF codegen_function_prototype
    <3>2. (Node0.ext # "none") \in BOOLEAN /\ Node0.args \in Nat
      BY <1>1 DEF Node
    <3>3. QED
      BY <3>1, <3>2 DEF CgFunction
  <2>3. QED
    BY <2>1, <2>2
<1>3. [old EXCEPT !.body = @ \/ body] \in CgFunction
  <2>1. (old.body \/ body) \in BOOLEAN
    BY <1>2 DEF CgFunction
  <2>2. QED
    BY <1>2, <2>1 DEF CgFunction
<1>4. [old EXCEPT !.body = @ \/ body].args = old.args
  BY <1>2 DEF CgFunction
<1> HIDE DEF old
<1>5. /\ DOMAIN funs' = DOMAIN funs \cup {nm}
      /\ funs'[nm] \in CgFunction /\ funs'[nm].args = old.args
      /\ \A n \in DOMAIN funs : n # nm => funs'[n] = funs[n]
  BY <1>3, <1>4 DEF AddFunction, old
<1>6. \A n \in DOMAIN funs' : funs'[n] \in CgFunction
  BY <1>5 DEF IInv, Walk2
<1>7. \A y \in Syms : y <= pc => y < pc \/ y = pc
  BY <1>1
<1>8. nm \in DOMAIN funs => old = funs[nm]
  BY DEF old, codegen_function_prototype
<1>9. nm \notin DOMAIN funs => old.args = nodes[pc].args
  BY <1>1 DEF old, codegen_function_prototype
<1>10. nm \in DOMAIN funs /\ pc \in Syms => FALSE
  <2> SUFFICES ASSUME nm \in DOMAIN funs, pc \in Syms PROVE FALSE
    OBVIOUS
  <2>1. PICK y \in Syms : y < pc /\ nodes[y].kind \in FuncKinds /\ nodes[y].name = nm
    BY DEF IInv, Walk2
  <2>2. y = pc
    BY <1>1, <2>1 DEF RInv, Declared
  <2>3. QED
    BY <1>1, <2>1, <2>2
<1>11. ASSUME NEW y \in Syms, y <= pc, nodes[y].kind \in FuncKinds
       PROVE  /\ nodes[y].name \in DOMAIN funs'
              /\ funs'[nodes[y].name].args = nodes[y].args
  <2>1. CASE y < pc
    <3>1. nodes[y].name \in DOMAIN funs /\ funs[nodes[y].name].args = nodes[y].args
      BY <1>11, <2>1 DEF IInv, Walk2
    <3>2. QED
      BY <1>5, <1>8, <3>1
  <2>2. CASE y = pc
    BY <1>1, <1>5, <1>9, <1>10, <2>2
  <2>3. QED
    BY <1>7, <1>11, <2>1, <2>2
<1>12. ASSUME NEW n \in DOMAIN funs'
       PROVE  \E y \in Syms : y <= pc /\ nodes[y].kind \in FuncKinds /\ nodes[y].name = n
  <2>1. \A y \in Syms : y < pc => y <= pc
    BY <1>1
  <2>2. CASE n \in DOMAIN funs
    BY <2>1, <2>2 DEF IInv, Walk2
  <2>3. CASE n = nm
    <3>1. pc \in Syms \/ \E y \in Syms : SameFunction(y, pc)
      BY <1>1 DEF RInv, Declared
    <3>2. pc <= pc
      BY <1>1
    <3>3. QED
      BY <1>1, <2>1, <2>3, <3>1, <3>2 DEF SameFunction
  <2>4. QED
    BY <1>5, <2>2, <2>3
<1>13. QED
  BY <1>6, <1>11, <1>12

\* Declaring a function without a body keeps the invariant.
LEMMA PrototypeIInv == IInv /\ CgPrototype => IInv'
<1> SUFFICES ASSUME IInv, CgPrototype PROVE IInv'
  OBVIOUS
<1>1. /\ At({"proto"}) /\ Node0 = nodes[pc] /\ Node0.kind = "proto"
      /\ pc \in 1..N /\ N \in Nat /\ Syms \subseteq 1..N
  BY AtNode DEF CgPrototype, IInv, RInv, Shape
<1>2. /\ AddFunction(Node0, FALSE) /\ pc' = pc + 1 /\ UNCHANGED resolveVars
      /\ sr' = sr /\ vals' = vals /\ refs' = refs
  BY DEF CgPrototype
<1>3. /\ \A n \in DOMAIN funs' : funs'[n] \in CgFunction
      /\ \A y \in Syms : y <= pc /\ nodes[y].kind \in FuncKinds =>
           nodes[y].name \in DOMAIN funs' /\ funs'[nodes[y].name].args = nodes[y].args
      /\ \A n \in DOMAIN funs' : \E y \in Syms :
           y <= pc /\ nodes[y].kind \in FuncKinds /\ nodes[y].name = n
  BY <1>1, <1>2, AddsFunction DEF FuncKinds
<1>4. \A y \in Syms : y < pc' <=> y <= pc
  BY <1>1, <1>2
<1>5. sr' = ScopeAt(pc')
  BY <1>1, <1>2, NextScope
<1>6. \A p \in pc .. pc' - 1 : p = pc
  BY <1>1, <1>2
<1>7. vals' \subseteq Syms /\ \A y \in vals' : y < pc'
  BY <1>1, <1>2 DEF IInv, Walk2
<1>8. pc' \in Nat /\ pc < pc' /\ pc' <= N + 1
  BY <1>1, <1>2
<1>9. \A p \in pc .. pc' - 1 : nodes[p].kind = "param" => p \in Syms
  BY <1>1, <1>6
<1>10. QED
  BY <1>1, <1>2, <1>3, <1>4, <1>5, <1>7, <1>8, <1>9, Advances

\* A definition: its parameters are symbols, each found in the scope of the
\* body, and the walk goes on behind them.
LEMMA FunctionIInv == IInv /\ codegen_function => IInv'
<1> SUFFICES ASSUME IInv, codegen_function PROVE IInv'
  OBVIOUS
<1> DEFINE a == Node0.args
           params == pc + 1 .. pc + a
           found == UNION {scope_lookup_name(pc, nodes[j].name) : j \in params}
<1>1. /\ At({"func"}) /\ Node0 = nodes[pc] /\ Node0.kind = "func" /\ Node0 \in Node
      /\ pc \in 1..N /\ N \in Nat /\ Syms \subseteq 1..N /\ RInv /\ B \in Nat /\ pc > B
  BY AtNode DEF codegen_function, IInv, RInv, Shape, Walk2
<1>2. CASE Stop("error") \/ Stop("undefined")
  BY <1>2, Stops
<1>3. CASE ~(Stop("error") \/ Stop("undefined"))
  <2>1. /\ codegen_function_prototype(Node0).args >= a
        /\ AddFunction(Node0, TRUE) /\ vals' = vals \cup found
        /\ pc' = pc + a + 1 /\ sr' = pc /\ UNCHANGED <<resolveVars, refs>>
    BY <1>3 DEF codegen_function
  <2>2. a \in Nat /\ pc + a <= N
        /\ \A j \in params : nodes[j].kind = "param" /\ nodes[j].scope = pc
    BY <1>1 DEF RInv, Params, Node
  <2>3. pc' \in Nat /\ pc < pc' /\ pc' <= N + 1
    BY <1>1, <2>1, <2>2
  <2>4. \A p \in pc .. pc' - 1 : p = pc \/ p \in params
    BY <1>1, <2>1, <2>2
  <2>5. params \subseteq Syms
    <3>1. CASE pc \in Syms
      BY <1>1, <3>1 DEF RInv, Params
    <3>2. CASE pc \notin Syms
      <4>1. PICK y \in Syms : SameFunction(y, pc)
        BY <1>1, <3>2 DEF RInv, Declared, FuncKinds
      <4>2. /\ nodes[y].name = Node0.name /\ y \in 1..N
            /\ nodes[y].name \in DOMAIN funs /\ funs[nodes[y].name].args = nodes[y].args
        BY <1>1, <4>1 DEF SameFunction, IInv, Walk2
      <4>3. nodes[y].args >= a /\ nodes[y].args \in Nat
        BY <1>1, <2>1, <4>2, NodeAt DEF codegen_function_prototype, RInv, Shape, Node
      <4>4. \A j \in params : j - pc <= a
        BY <1>1, <2>2
      <4>5. \A j \in params : j - pc <= nodes[y].args
        BY <1>1, <2>2, <4>3, <4>4
      <4>6. QED
        BY <1>1, <4>1, <4>5 DEF RInv, Params
    <3>3. QED
      BY <3>1, <3>2
  <2>6. sr' = ScopeAt(pc')
    <3>1. CASE a = 0
      <4>1. After(pc, ScopeAt(pc + 1)) /\ pc' = pc + 1
        BY <1>1, <2>1, <3>1, NextScope
      <4>2. QED
        BY <1>1, <2>1, <4>1 DEF After
    <3>2. CASE a # 0
      <4>1. pc + a \in params /\ pc + a \in B..N
        BY <1>1, <2>2, <3>2
      <4>2. After(pc + a, ScopeAt(pc + a + 1))
        BY <4>1 DEF RInv, Follows, IInv
      <4>3. nodes[pc + a].kind = "param" /\ nodes[pc + a].scope = pc
        BY <2>2, <4>1
      <4>4. QED
        BY <2>1, <4>2, <4>3 DEF After
    <3>3. QED
      BY <3>1, <3>2
  <2>7. pc \in Scopes
    <3>1. pc + 1 <= N + 1
      BY <1>1
    <3>2. ScopeAt(pc + 1) \in Scopes
      BY <1>1, <3>1 DEF ScopeAt, RInv, Shape
    <3>3. After(pc, ScopeAt(pc + 1))
      BY <1>1, NextScope
    <3>4. QED
      BY <1>1, <3>2, <3>3 DEF After
  <2>8. vals' \subseteq Syms /\ \A y \in vals' : y < pc'
    <3>1. ASSUME NEW y \in found PROVE y \in Syms /\ y < pc'
      <4>1. PICK j \in params : y \in scope_lookup_name(pc, nodes[j].name)
        BY <3>1
      <4>2. j \in Syms /\ nodes[j].scope = pc
        BY <2>2, <2>5
      <4>3. y \in Syms /\ y <= j
        BY <1>1, <2>7, <4>1, <4>2, FindsOwn
      <4>4. QED
        BY <1>1, <2>1, <2>2, <4>3
    <3>2. \A y \in vals : y \in Syms /\ y < pc'
      BY <1>1, <2>3 DEF IInv, Walk2
    <3>3. QED
      BY <2>1, <3>1, <3>2
  <2>9. \A p \in pc .. pc' - 1 : nodes[p].kind = "param" => p \in Syms
    BY <1>1, <2>4, <2>5
  <2>10. /\ \A n \in DOMAIN funs' : funs'[n] \in CgFunction
         /\ \A y \in Syms : y <= pc /\ nodes[y].kind \in FuncKinds =>
              nodes[y].name \in DOMAIN funs' /\ funs'[nodes[y].name].args = nodes[y].args
         /\ \A n \in DOMAIN funs' : \E y \in Syms :
              y <= pc /\ nodes[y].kind \in FuncKinds /\ nodes[y].name = n
    BY <1>1, <2>1, AddsFunction DEF FuncKinds
  <2>11. \A y \in Syms : y < pc' /\ nodes[y].kind \in FuncKinds => y <= pc
    <3>1. \A y \in Syms : y < pc' => y <= pc \/ y \in params
      BY <1>1, <2>1, <2>2
    <3>2. QED
      BY <2>2, <3>1 DEF FuncKinds
  <2>12. \A y \in Syms : y <= pc => y < pc'
    BY <1>1, <2>3
  <2>13. UNCHANGED resolveVars /\ refs' = refs
    BY <2>1
  <2> HIDE DEF found, params
  <2>14. QED
    BY <1>1, <2>3, <2>6, <2>8, <2>9, <2>10, <2>11, <2>12, <2>13, Advances
<1>4. QED
  BY <1>2, <1>3

\* The invariant of both walks is inductive.
LEMMA NextIInv == IInv /\ [Next]_vars => IInv'
<1> SUFFICES ASSUME IInv, [Next]_vars PROVE IInv'
  OBVIOUS
<1>1. CASE ResolveNext /\ UNCHANGED cgVars
  BY <1>1, ResolveIInv
<1>2. CASE StartCodegen
  BY <1>2, StartIInv
<1>3. CASE CgIdentifier
  BY <1>3, IdentifierIInv
<1>4. CASE CgVariable
  BY <1>4, VariableIInv
<1>5. CASE CgTypeOrBlock
  BY <1>5, TypeOrBlockIInv
<1>6. CASE CgPrototype
  BY <1>6, PrototypeIInv
<1>7. CASE codegen_function
  BY <1>7, FunctionIInv
<1>8. CASE codegen_call
  BY <1>8, CallIInv
<1>9. CASE FinishCodegen
  BY <1>9, Stops DEF FinishCodegen
<1>10. CASE UNCHANGED vars
  <2>1. /\ UNCHANGED <<nodes, table, chain, cur>> /\ phase' = phase /\ pc' = pc /\ sr' = sr
        /\ vals' = vals /\ refs' = refs /\ funs' = funs
    BY <1>10 DEF vars, resolveVars, cgVars
  <2>2. /\ RInv' /\ N' = N /\ B' = B /\ Syms' = Syms /\ \A r : Right(r)' = Right(r)
    BY <2>1, Stable DEF IInv
  <2>3. ScopeAt(pc)' = ScopeAt(pc)
    BY <2>1 DEF ScopeAt, N
  <2>4. Walk2'
    BY <2>1, <2>2, <2>3 DEF IInv, Walk2
  <2>5. QED
    BY <2>1, <2>2, <2>4 DEF IInv, Bound
<1>11. QED
  BY <1>1, <1>2, <1>3, <1>4, <1>5, <1>6, <1>7, <1>8, <1>9, <1>10 DEF Next, Exit, Spin
-----------------------------------------------------------------------------
\* The invariant holds in every state of both walks.
LEMMA Invariance == Spec => []IInv
<1>1. QED
  BY InitIInv, NextIInv, PTL DEF Spec

\* Every reference the generator emits is to the declaration that lexical
\* scoping names, though it is looked up in the table of the whole program
\* (cg-inst.c:111-129, cg-helpers.c:12-20).
THEOREM LexicalBinding == Spec => []BindingIsLexical
<1>1. IInv => BindingIsLexical
  BY DEF IInv, Bound, Right, BindingIsLexical
<1>2. QED
  BY <1>1, Invariance, PTL

\* The type inferred for a variable from its initialiser while the table was
\* growing is the type of the value stored in it (scope-resolve.c:720-729).
THEOREM InferredTypes == Spec => []InferredTypeAgrees
<1>1. IInv => InferredTypeAgrees
  BY DEF IInv, Bound, Right, InferredTypeAgrees
<1>2. QED
  BY <1>1, Invariance, PTL

\* A cast is to the type it was resolved to in the first walk, but where its
\* function declares an alias of that name behind it (cg-operator.c:299-319,
\* scope-resolve.c:573-576).
THEOREM CastsCaptured == Spec => []CastCapturedOnlyByLaterAlias
<1>1. IInv => CastCapturedOnlyByLaterAlias
  BY DEF IInv, Bound, Right, CastCapturedOnlyByLaterAlias
<1>2. QED
  BY <1>1, Invariance, PTL

\* Both walks are in the same scope at every node (cg-inst.c:199-205).
THEOREM SameScopes == Spec => []WalksAgree
<1>1. IInv => WalksAgree
  BY DEF IInv, Walk2, WalksAgree, ScopeAt, N
<1>2. QED
  BY <1>1, Invariance, PTL

\* What is called has been declared, by a node the second walk has passed.
CallInv ==
  /\ phase = "resolve" => calls = {}
  /\ CalleeDeclaredBefore

\* Every step keeps it: a call is emitted only for a function found in the
\* module (codegen_call), and functions are never removed from it.
LEMMA NextCallInv == IInv /\ CallInv /\ [Next]_vars => CallInv'
<1> SUFFICES ASSUME IInv, CallInv, [Next]_vars PROVE CallInv'
  OBVIOUS
<1>1. CASE ResolveNext /\ UNCHANGED cgVars
  BY <1>1, ResolvePhase DEF CallInv, CalleeDeclaredBefore, cgVars
<1>2. CASE StartCodegen
  BY <1>2 DEF StartCodegen, CallInv, CalleeDeclaredBefore, cgVars
<1>3. CASE codegen_call
  <2>1. /\ nodes' = nodes /\ phase' # "resolve"
        /\ \A c \in calls' \ calls : c.use = pc /\ c.callee \in DOMAIN funs
    BY <1>3 DEF codegen_call, At, Stop, cgVars, resolveVars, Callable
  <2>2. ASSUME NEW c \in calls', c \notin calls
        PROVE  \E d \in 1 .. c.use - 1 : nodes[d].kind \in FuncKinds /\ nodes[d].name = c.callee
    <3>1. c.use = pc /\ c.callee \in DOMAIN funs
      BY <2>1, <2>2
    <3>2. PICK y \in Syms : y < pc /\ nodes[y].kind \in FuncKinds /\ nodes[y].name = c.callee
      BY <3>1 DEF IInv, Walk2
    <3>3. y \in 1..N /\ N \in Nat /\ pc \in Nat
      BY Sizes DEF IInv, RInv, Shape, Walk2
    <3>4. y \in 1 .. c.use - 1
      BY <3>1, <3>2, <3>3
    <3>5. QED
      BY <3>2, <3>4
  <2>3. QED
    BY <2>1, <2>2 DEF CallInv, CalleeDeclaredBefore
<1>4. CASE UNCHANGED <<nodes, calls>> /\ (phase' = "resolve" => phase = "resolve")
  BY <1>4 DEF CallInv, CalleeDeclaredBefore
<1>5. CASE CgIdentifier \/ CgVariable \/ CgTypeOrBlock \/ CgPrototype \/ codegen_function
           \/ FinishCodegen
  <2> DEFINE Keeps == UNCHANGED <<nodes, calls>> /\ (phase' = "resolve" => phase = "resolve")
  <2>1. (Stop("error") \/ Stop("undefined") \/ Stop("spinning") \/ Stop("done")) => Keeps
    BY DEF Stop, cgVars
  <2>2. \A v, r : Emit(v, r) => Keeps
    BY DEF Emit, resolveVars
  <2>3. CgTypeOrBlock \/ CgPrototype => Keeps
    BY DEF CgTypeOrBlock, CgPrototype, resolveVars
  <2>4. (AddFunction(Node0, TRUE) /\ UNCHANGED <<resolveVars, refs, calls>>) => Keeps
    BY DEF resolveVars
  <2> HIDE DEF Keeps
  <2>5. CgIdentifier \/ codegen_function \/ FinishCodegen => Keeps
    BY <2>1, <2>2, <2>4, Zenon DEF CgIdentifier, codegen_function, FinishCodegen
  <2>6. CgVariable => Keeps
    BY <2>1, <2>2, Zenon DEF CgVariable, NoLlvmType
  <2>7. Keeps => CallInv'
    BY <1>4 DEF Keeps
  <2>8. QED
    BY <1>5, <2>3, <2>5, <2>6, <2>7
<1>6. CASE UNCHANGED vars
  BY <1>4, <1>6 DEF vars, resolveVars, cgVars
<1>7. QED
  BY <1>1, <1>2, <1>3, <1>5, <1>6 DEF Next, Exit, Spin

\* A call that is emitted reaches a function declared before it in the file
\* (cg-call.c:10-61).
THEOREM CalleesDeclared == Spec => []CalleeDeclaredBefore
<1>1. CgInit => CallInv
  BY DEF CgInit, CallInv, CalleeDeclaredBefore
<1>2. CallInv => CalleeDeclaredBefore
  BY DEF CallInv
<1>3. Spec => []CallInv
  BY <1>1, Invariance, NextCallInv, PTL DEF Spec
<1>4. QED
  BY <1>2, <1>3, PTL

-----------------------------------------------------------------------------
\* A step that adds parameters to a new scope, and to the current one only a
\* name that was not there.
LEMMA UniqueGrows ==
  ASSUME RInv, UniqueInScope, \A i \in 1..N : nodes'[i] = nodes[i],
         \A y \in Syms' : \/ y \in Syms
                          \/ nodes'[y].kind = "param" /\ nodes'[y].scope = Here
                          \/ /\ y = Here /\ nodes'[y].scope = cur
                             /\ LookupLocal(cur, nodes'[y].name) = {}
  PROVE  UniqueInScope'
<1>1. N \in Nat /\ Here = N + 1 /\ Syms \subseteq 1..N /\ cur # Here
      /\ \A y \in Syms : nodes[y].scope # Here /\ nodes'[y] = nodes[y]
  <2>1. N \in Nat /\ Here = N + 1 /\ Syms \subseteq 1..N
    BY Sizes DEF RInv, Shape
  <2>2. cur \in Nat /\ cur <= N
    BY DEF RInv, Shape
  <2>3. \A y \in 1..N : nodes[y].scope \in Nat /\ nodes[y].scope < y
    BY DEF RInv, Shape
  <2>4. QED
    BY <2>1, <2>2, <2>3
<1> DEFINE Clash(y, z) == /\ nodes'[y].scope = nodes'[z].scope
                          /\ nodes'[y].name = nodes'[z].name
                          /\ y # z
           Param(y) == nodes'[y].kind = "param"
           New(y) == /\ y = Here /\ nodes'[y].scope = cur
                     /\ LookupLocal(cur, nodes'[y].name) = {}
<1>2. ASSUME NEW y \in Syms', NEW z \in Syms', Clash(y, z)
      PROVE  Param(y) /\ Param(z)
  <2>1. CASE y \in Syms /\ z \in Syms
    BY <1>1, <1>2, <2>1 DEF UniqueInScope
  <2>2. CASE y \in Syms /\ z \notin Syms
    BY <1>1, <1>2, <2>2 DEF LookupLocal
  <2>3. CASE y \notin Syms /\ z \in Syms
    BY <1>1, <1>2, <2>3 DEF LookupLocal
  <2>4. CASE y \notin Syms /\ z \notin Syms
    BY <1>1, <1>2, <2>4
  <2>5. QED
    BY <2>1, <2>2, <2>3, <2>4
<1>3. QED
  BY <1>2 DEF UniqueInScope

\* A declaration checked by check_for_redefinition keeps names unique.
LEMMA UniqueDeclare ==
  ASSUME RInv, UniqueInScope, NEW nd \in Node, NEW t, Declare(nd, t), nd.scope = cur,
         ~check_for_redefinition(nd.name)
  PROVE  UniqueInScope'
<1>1. nodes' = Append(nodes, nd) /\ Syms' = Syms \cup {Here}
  BY DEF Declare, Syms
<1>2. nodes'[Here] = nd /\ \A i \in 1..N : nodes'[i] = nodes[i]
  BY <1>1, AppendNode, Sizes DEF RInv, Shape
<1>3. QED
  BY <1>1, <1>2, UniqueGrows DEF check_for_redefinition

\* A step that adds no symbol keeps names unique.
LEMMA UniqueUnchanged ==
  ASSUME RInv, UniqueInScope, Syms' = Syms, \A i \in 1..N : nodes'[i] = nodes[i]
  PROVE  UniqueInScope'
BY UniqueGrows

\* A function and its parameters, which are checked against each other and not
\* against the table, keep names unique (build_ScopeSymbol_for_func).
LEMMA UniqueFunction ==
  ASSUME RInv, UniqueInScope, build_ScopeSymbol_for_func
  PROVE  UniqueInScope'
<1>1. PICK k \in FuncKinds \cap Kinds, n \in Names, ext \in Linkages :
        \E m \in 0..MaxParams : \E ps \in [1..m -> Names] :
          /\ Walking
          /\ cur = 0
          /\ ext = "export" => k = "func"
          /\ ext = "extern" => k = "proto"
          /\ FunctionCases(k, n, ext, ps)
  BY ZenonT(30) DEF build_ScopeSymbol_for_func, FunctionCases
<1>2. PICK m \in 0..MaxParams :
        \E ps \in [1..m -> Names] : cur = 0 /\ FunctionCases(k, n, ext, ps)
  BY <1>1
<1>3. PICK ps \in [1..m -> Names] : cur = 0 /\ FunctionCases(k, n, ext, ps)
  BY <1>2
<1> DEFINE nd == FuncNode(k, n, ext, ps)
<1>4. m \in Nat /\ Len(ps) = m
  BY BoundsAssumption, SMT
<1>5. N \in Nat /\ Here = N + 1 /\ nodes \in Seq(Node) /\ cur \in Nat
      /\ \A y \in Syms : nodes[y].args \in Nat
  <2>1. \A y \in Syms : y \in 1..N
    BY DEF RInv, Shape
  <2>2. \A y \in 1..N : nodes[y].args \in Nat
    BY NodeAt DEF RInv, Shape, Node
  <2>3. QED
    BY <2>1, <2>2, Sizes DEF RInv, Shape
<1>6. nd \in Node /\ nd.name = n /\ nd.scope = cur
  <2>1. n \in TypeNames /\ ext \in Linkages /\ k \in NodeKinds
    BY DEF TypeNames, NodeKinds
  <2>2. QED
    BY <1>4, <1>5, <2>1 DEF FuncNode, Node
<1> HIDE DEF nd
<1>7. ASSUME NEW sym, NEW room \in Nat, add_body_to_func_sym(sym, room, m),
             nodes' = Append(nodes, nd) \o ParamNodes(ps),
             sym \in Syms \/ (sym = Here /\ LookupLocal(cur, n) = {})
      PROVE  UniqueInScope'
  <2>1. /\ nodes'[Here] = nd /\ \A i \in 1..N : nodes'[i] = nodes[i]
        /\ \A j \in Here + 1 .. Here + m : nodes'[j].kind = "param" /\ nodes'[j].scope = Here
    <3>1. AddsNodes(nd, m)
      BY <1>4, <1>6, <1>7, FunctionNodes
    <3>2. QED
      BY <3>1 DEF AddsNodes
  <2> DEFINE last == Here + (IF m < room THEN m ELSE room)
  <2>2. Syms' = Syms \cup {sym} \cup Here + 1 .. last
    BY <1>7 DEF add_body_to_func_sym, Syms
  <2>3. Here + 1 .. last \subseteq Here + 1 .. Here + m
    BY <1>4, <1>5, <1>7
  <2> HIDE DEF last
  <2>4. QED
    BY <1>6, <1>7, <2>1, <2>2, <2>3, UniqueGrows
<1>8. ASSUME nodes' = Append(nodes, nd), LookupLocal(cur, n) = {},
             table' = [y \in Syms \cup {Here} |-> IF y = Here THEN 0 ELSE table[y]]
      PROVE  UniqueInScope'
  <2>1. Syms' = Syms \cup {Here}
    BY <1>8 DEF Syms
  <2>2. nodes'[Here] = nd /\ \A i \in 1..N : nodes'[i] = nodes[i]
    BY <1>5, <1>6, <1>8, AppendNode
  <2>3. QED
    BY <1>6, <1>8, <2>1, <2>2, UniqueGrows
<1>9. ASSUME nodes' = Append(nodes, nd), table' = table PROVE UniqueInScope'
  BY <1>5, <1>6, <1>9, AppendNode, UniqueUnchanged DEF Syms
<1>10. Fail => UniqueInScope'
  BY UniqueUnchanged DEF Fail, Syms
<1>11. Append(nodes, nd) \o << >> = Append(nodes, nd)
  BY <1>5, <1>6, AppendProperties, ConcatEmptySeq
<1>12. CASE k = "func" /\ LookupLocal(cur, n) = {} /\
            nodes' = Append(nodes, nd) \o ParamNodes(ps) /\ add_body_to_func_sym(Here, m, m)
  BY <1>4, <1>7, <1>12
<1>13. CASE k = "func" /\ nodes' = Append(nodes, nd) \o ParamNodes(ps) /\
            \E y \in LookupLocal(cur, n) : add_body_to_func_sym(y, nodes[y].args, m)
  BY <1>5, <1>7, <1>13 DEF LookupLocal
<1>14. k = "func" \/ k = "proto"
  BY DEF FuncKinds
<1>15. QED
  BY <1>3, <1>4, <1>8, <1>9, <1>10, <1>11, <1>12, <1>13, <1>14 DEF nd, FunctionCases

\* Every step of the first walk keeps names unique.
LEMMA UniqueResolve ==
  ASSUME RInv, UniqueInScope, ResolveNext
  PROVE  UniqueInScope'
<1>1. CASE build_ScopeSymbol_for_variable
  <2>1. PICK k \in {"var", "let", "cast"} \cap Kinds, n \in Names, of \in TypeNames :
          Fail \/ (~check_for_redefinition(n) /\ \E t : Declare(NewNode(k, n, of), t))
    BY <1>1 DEF build_ScopeSymbol_for_variable
  <2>2. NewNode(k, n, of) \in Node
    BY NewNodeIsNode DEF NodeKinds, VarKinds, TypeNames
  <2>3. NewNode(k, n, of).name = n /\ NewNode(k, n, of).scope = cur
    BY DEF NewNode
  <2>4. Fail => UniqueInScope'
    BY UniqueUnchanged DEF Fail, Syms
  <2>5. QED
    BY <2>1, <2>2, <2>3, <2>4, UniqueDeclare
<1>2. CASE build_ScopeSymbol_for_type
  <2>1. PICK k \in {"type", "opaque"} \cap Kinds, n \in Names, of \in TypeNames :
          Fail \/ (~check_for_redefinition(n) /\ \E t : Declare(NewNode(k, n, of), t))
    BY <1>2 DEF build_ScopeSymbol_for_type
  <2>2. NewNode(k, n, of) \in Node
    BY NewNodeIsNode DEF NodeKinds, TypeKinds, TypeNames
  <2>3. NewNode(k, n, of).name = n /\ NewNode(k, n, of).scope = cur
    BY DEF NewNode
  <2>4. Fail => UniqueInScope'
    BY UniqueUnchanged DEF Fail, Syms
  <2>5. QED
    BY <2>1, <2>2, <2>3, <2>4, UniqueDeclare
<1>3. CASE build_ScopeSymbol_for_func
  BY <1>3, UniqueFunction
<1>4. CASE EnterBlock \/ LeaveBlock \/ scope_resolve_internal
  <2>1. PICK nd \in Node : nodes' = Append(nodes, nd) /\ table' = table
    <3>1. \A k \in NodeKinds, n \in TypeNames \cup {""} : NewNode(k, n, "") \in Node
      BY NewNodeIsNode
    <3>2. QED
      BY <1>4, <3>1 DEF EnterBlock, LeaveBlock, scope_resolve_internal, NodeKinds, TypeNames
  <2>2. QED
    BY <2>1, AppendNode, UniqueUnchanged DEF RInv, Shape, Syms
<1>5. QED
  BY <1>1, <1>2, <1>3, <1>4 DEF ResolveNext

\* The second walk leaves the table alone.
LEMMA TableStable ==
  ASSUME Next, ~(ResolveNext /\ UNCHANGED cgVars)
  PROVE  UNCHANGED <<nodes, table>>
<1>1. \A how : Stop(how) => UNCHANGED <<nodes, table>>
  BY DEF Stop
<1>2. \A v, r : Emit(v, r) => UNCHANGED <<nodes, table>>
  BY DEF Emit, resolveVars
<1>3. UNCHANGED resolveVars => UNCHANGED <<nodes, table>>
  BY DEF resolveVars
<1>4. StartCodegen \/ CgTypeOrBlock \/ CgPrototype \/ Exit \/ Spin => UNCHANGED <<nodes, table>>
  BY <1>3 DEF StartCodegen, CgTypeOrBlock, CgPrototype, Exit, Spin, vars, resolveVars
<1>5. CgIdentifier \/ FinishCodegen => UNCHANGED <<nodes, table>>
  BY <1>1, <1>2, Zenon DEF CgIdentifier, FinishCodegen
<1>6. CgVariable => UNCHANGED <<nodes, table>>
  BY <1>1, <1>2, Zenon DEF CgVariable, NoLlvmType
<1>7. codegen_function \/ codegen_call => UNCHANGED <<nodes, table>>
  <2>1. UNCHANGED <<resolveVars, refs, calls>> \/ UNCHANGED <<resolveVars, sr, vals, refs, funs>>
          => UNCHANGED <<nodes, table>>
    BY DEF resolveVars
  <2>2. QED
    BY <1>1, <2>1, Zenon DEF codegen_function, codegen_call
<1>8. QED
  BY <1>4, <1>5, <1>6, <1>7 DEF Next

-----------------------------------------------------------------------------
\* What the first walk keeps of functions: a symbol made by a definition has a
\* body, a definition without a symbol completes a prototype, and only
\* definitions are exported.
Bodies ==
  /\ \A y \in Syms : nodes[y].kind = "func" => y \in bodied
  /\ \A f \in 1..N : nodes[f].kind = "func" =>
       f \in Syms \/ \E y \in Syms : SameFunction(y, f) /\ nodes[y].kind = "proto"
  /\ \A d \in 1..N : nodes[d].ext = "export" => nodes[d].kind = "func"

\* A step that adds no definition keeps that.
LEMMA BodiesGrow ==
  ASSUME RInv, Bodies, bodied \subseteq bodied', Syms \subseteq Syms', Syms' \subseteq 1..N',
         N' \in Nat, N <= N', \A i \in 1..N : nodes'[i] = nodes[i],
         \A y \in Syms' : y \in Syms \/ y > N,
         \A i \in 1..N' : i > N => nodes'[i].kind # "func" /\ nodes'[i].ext # "export"
  PROVE  Bodies'
<1>1. N \in Nat /\ Syms \subseteq 1..N
  BY Sizes DEF RInv, Shape
<1>2. \A i \in 1..N' : i \in 1..N \/ i > N
  BY <1>1
<1>3. ASSUME NEW f \in 1..N', nodes'[f].kind = "func"
      PROVE  f \in Syms' \/ \E y \in Syms' : SameFunction(y, f)' /\ nodes'[y].kind = "proto"
  <2>1. f \in 1..N /\ nodes'[f] = nodes[f]
    BY <1>2, <1>3
  <2>2. f \in Syms \/ \E y \in Syms : SameFunction(y, f) /\ nodes[y].kind = "proto"
    BY <1>3, <2>1 DEF Bodies
  <2>3. \A y \in Syms : nodes'[y] = nodes[y] /\ y \in Syms'
    BY <1>1
  <2>4. QED
    BY <2>1, <2>2, <2>3 DEF SameFunction
<1>4. \A y \in Syms' : nodes'[y].kind = "func" => y \in bodied'
  BY <1>1, <1>2 DEF Bodies
<1>5. \A d \in 1..N' : nodes'[d].ext = "export" => nodes'[d].kind = "func"
  BY <1>1, <1>2 DEF Bodies
<1>6. QED
  BY <1>3, <1>4, <1>5 DEF Bodies

\* One more node of another kind, with its symbol or without.
LEMMA BodiesOneNode ==
  ASSUME RInv, Bodies, NEW nd \in Node, nodes' = Append(nodes, nd), bodied' = bodied,
         Syms \subseteq Syms', Syms' \subseteq Syms \cup {Here},
         nd.kind # "func", nd.ext # "export"
  PROVE  Bodies'
<1>1. /\ N \in Nat /\ Here = N + 1 /\ N' = N + 1 /\ nodes'[N + 1] = nd
      /\ Syms \subseteq 1..N /\ \A i \in 1..N : nodes'[i] = nodes[i]
  BY AppendNode, Sizes DEF RInv, Shape
<1>2. \A i \in 1..N' : i > N => nodes'[i] = nd
  <2>1. \A i \in 1 .. N + 1 : i > N => i = N + 1
    BY <1>1
  <2>2. QED
    BY <1>1, <2>1
<1>3. /\ N' \in Nat /\ N <= N' /\ Syms' \subseteq 1..N'
      /\ \A y \in Syms' : y \in Syms \/ y > N
  BY <1>1
<1>4. QED
  BY <1>1, <1>2, <1>3, BodiesGrow

\* A definition, of a new function or of one that has no body yet.
LEMMA BodiesBody ==
  ASSUME RInv, Bodies, NEW nd \in Node, NEW m \in Nat, NEW ps \in [1..m -> Names],
         nd.kind = "func", nodes' = Append(nodes, nd) \o ParamNodes(ps),
         NEW sym, NEW room \in Nat, add_body_to_func_sym(sym, room, m),
         \/ sym = Here
         \/ /\ sym \in Syms /\ nodes[sym].kind \in FuncKinds /\ sym \notin bodied
            /\ nodes[sym].name = nd.name
  PROVE  Bodies'
<1>1. N \in Nat /\ Here = N + 1 /\ Syms \subseteq 1..N
  BY Sizes DEF RInv, Shape
<1>2. /\ N' = N + (1 + m) /\ nodes'[Here] = nd
      /\ \A i \in 1..N : nodes'[i] = nodes[i]
      /\ \A j \in Here + 1 .. Here + m : nodes'[j].kind = "param" /\ nodes'[j].ext = "none"
  <2>1. AddsNodes(nd, m)
    BY FunctionNodes
  <2>2. QED
    BY <2>1 DEF AddsNodes
<1> DEFINE last == Here + (IF m < room THEN m ELSE room)
<1>3. Syms' = Syms \cup {sym} \cup Here + 1 .. last /\ bodied' = bodied \cup {sym}
  BY DEF add_body_to_func_sym, Syms
<1>4. Here + 1 .. last \subseteq Here + 1 .. Here + m
  BY <1>1
<1> HIDE DEF last
<1>5. \A i \in 1..N' : i \in 1..N \/ i = Here \/ i \in Here + 1 .. Here + m
  BY <1>1, <1>2
<1>6. Here \notin Syms /\ \A y \in Syms : y < Here
  BY <1>1
<1>7. sym \in Syms => /\ nodes[sym].kind = "proto" /\ sym < Here
                      /\ nodes[sym].name = nd.name
  BY <1>6 DEF Bodies, FuncKinds
<1>8. \A y \in Syms' : nodes'[y].kind = "func" => y \in bodied'
  <2>1. ASSUME NEW y \in Syms', nodes'[y].kind = "func" PROVE y \in bodied'
    <3>1. CASE y \in Syms
      BY <1>1, <1>2, <1>3, <2>1, <3>1 DEF Bodies
    <3>2. CASE y = sym
      BY <1>3, <3>2
    <3>3. CASE y \in Here + 1 .. Here + m
      BY <1>2, <2>1, <3>3
    <3>4. QED
      BY <1>3, <1>4, <3>1, <3>2, <3>3
  <2>2. QED
    BY <2>1
<1>9. ASSUME NEW f \in 1..N', nodes'[f].kind = "func"
       PROVE  f \in Syms' \/ \E y \in Syms' : SameFunction(y, f)' /\ nodes'[y].kind = "proto"
  <2>1. \A y \in Syms : nodes'[y] = nodes[y] /\ y \in Syms'
    BY <1>1, <1>2, <1>3
  <2>2. CASE f \in 1..N
    <3>1. nodes'[f] = nodes[f]
      BY <1>2, <2>2
    <3>2. f \in Syms \/ \E y \in Syms : SameFunction(y, f) /\ nodes[y].kind = "proto"
      BY <1>9, <2>2, <3>1 DEF Bodies
    <3>3. QED
      BY <2>1, <3>1, <3>2 DEF SameFunction
  <2>3. CASE f = Here /\ sym \in Syms
    <3>1. nodes'[sym] = nodes[sym] /\ sym \in Syms' /\ nodes[sym].name = nd.name
      BY <1>7, <2>1, <2>3
    <3>2. QED
      BY <1>2, <1>7, <2>3, <3>1 DEF SameFunction, FuncKinds
  <2>4. CASE f = Here /\ sym \notin Syms
    BY <1>3, <2>4
  <2>5. CASE f \in Here + 1 .. Here + m
    BY <1>2, <1>9, <2>5
  <2>6. QED
    BY <1>5, <2>2, <2>3, <2>4, <2>5
<1>10. ASSUME NEW d \in 1..N', nodes'[d].ext = "export" PROVE nodes'[d].kind = "func"
  <2>1. CASE d \in 1..N
    <3>1. nodes'[d] = nodes[d]
      BY <1>2, <2>1
    <3>2. QED
      BY <1>10, <2>1, <3>1 DEF Bodies
  <2>2. CASE d \in Here + 1 .. Here + m
    <3>1. nodes'[d].ext = "none"
      BY <1>2, <2>2
    <3>2. QED
      BY <1>10, <3>1
  <2>3. CASE d = Here
    BY <1>2, <2>3
  <2>4. QED
    BY <1>5, <2>1, <2>2, <2>3
<1>11. QED
  BY <1>8, <1>9, <1>10 DEF Bodies

\* A function, with a body or without (build_ScopeSymbol_for_func).
LEMMA BodiesFunction ==
  ASSUME RInv, Bodies, build_ScopeSymbol_for_func
  PROVE  Bodies'
<1>1. PICK k \in FuncKinds \cap Kinds, n \in Names, ext \in Linkages :
        \E m \in 0..MaxParams : \E ps \in [1..m -> Names] :
          /\ Walking
          /\ cur = 0
          /\ ext = "export" => k = "func"
          /\ ext = "extern" => k = "proto"
          /\ FunctionCases(k, n, ext, ps)
  BY ZenonT(30) DEF build_ScopeSymbol_for_func, FunctionCases
<1>2. PICK m \in 0..MaxParams :
        \E ps \in [1..m -> Names] : cur = 0 /\ FunctionCases(k, n, ext, ps)
  BY <1>1
<1>3. PICK ps \in [1..m -> Names] : cur = 0 /\ FunctionCases(k, n, ext, ps)
  BY <1>2
<1> DEFINE nd == FuncNode(k, n, ext, ps)
<1>4. m \in Nat /\ Len(ps) = m
  BY BoundsAssumption, SMT
<1>5. nodes \in Seq(Node) /\ cur \in Nat /\ \A y \in Syms : nodes[y].args \in Nat
  <2>1. \A y \in Syms : y \in 1..N
    BY DEF RInv, Shape
  <2>2. \A y \in 1..N : nodes[y].args \in Nat
    BY NodeAt DEF RInv, Shape, Node
  <2>3. QED
    BY <2>1, <2>2 DEF RInv, Shape
<1>6. nd \in Node /\ nd.name = n /\ nd.kind = k /\ (nd.ext = "export" => k = "func")
  <2>1. n \in TypeNames /\ ext \in Linkages /\ k \in NodeKinds
    BY DEF TypeNames, NodeKinds
  <2>2. QED
    BY <1>1, <1>4, <1>5, <2>1 DEF FuncNode, Node
<1> HIDE DEF nd
<1>7. CASE k = "func" /\ nodes' = Append(nodes, nd) \o ParamNodes(ps)
           /\ add_body_to_func_sym(Here, m, m)
  BY <1>4, <1>6, <1>7, BodiesBody
<1>8. CASE k = "func" /\ nodes' = Append(nodes, nd) \o ParamNodes(ps) /\
           \E y \in LookupLocal(cur, n) :
             /\ nodes[y].kind \in FuncKinds /\ y \notin bodied
             /\ add_body_to_func_sym(y, nodes[y].args, m)
  <2>1. PICK y \in Syms : /\ nodes[y].name = n /\ nodes[y].kind \in FuncKinds
                          /\ y \notin bodied /\ add_body_to_func_sym(y, nodes[y].args, m)
    BY <1>8 DEF LookupLocal
  <2>2. nodes[y].args \in Nat
    BY <1>5
  <2>3. QED
    BY <1>4, <1>6, <1>8, <2>1, <2>2, BodiesBody
<1>9. CASE k = "proto" /\ nodes' = Append(nodes, nd) /\ bodied' = bodied
           /\ Syms \subseteq Syms' /\ Syms' \subseteq Syms \cup {Here}
  BY <1>6, <1>9, BodiesOneNode
<1>10. CASE Fail
  BY <1>10 DEF Fail, Bodies, SameFunction, Syms, N
<1>11. Append(nodes, nd) \o << >> = Append(nodes, nd)
  BY <1>5, <1>6, AppendProperties, ConcatEmptySeq
<1>12. k = "func" \/ k = "proto"
  BY DEF FuncKinds
<1>13. /\ table' = table => Syms' = Syms
       /\ table' = [y \in Syms \cup {Here} |-> IF y = Here THEN 0 ELSE table[y]]
            => Syms' = Syms \cup {Here}
  BY DEF Syms
<1>14. QED
  BY <1>3, <1>4, <1>7, <1>8, <1>9, <1>10, <1>11, <1>12, <1>13 DEF nd, FunctionCases

\* Every step of the first walk keeps it.
LEMMA BodiesResolve ==
  ASSUME RInv, Bodies, ResolveNext
  PROVE  Bodies'
<1>1. ASSUME Fail PROVE Bodies'
  BY <1>1 DEF Fail, Bodies, SameFunction, Syms, N
<1>2. ASSUME NEW nd \in Node, NEW t, Declare(nd, t), nd.kind # "func", nd.ext = "none"
      PROVE  Bodies'
  <2>1. nodes' = Append(nodes, nd) /\ Syms' = Syms \cup {Here} /\ bodied' = bodied
    BY <1>2 DEF Declare, Syms
  <2>2. QED
    BY <1>2, <2>1, BodiesOneNode
<1>3. \A k, n, of : NewNode(k, n, of).kind = k /\ NewNode(k, n, of).ext = "none"
  BY DEF NewNode
<1>4. CASE build_ScopeSymbol_for_variable
  <2>1. PICK k \in {"var", "let", "cast"}, n \in Names, of \in TypeNames :
          Fail \/ \E t : Declare(NewNode(k, n, of), t)
    BY <1>4 DEF build_ScopeSymbol_for_variable
  <2>2. NewNode(k, n, of) \in Node
    BY NewNodeIsNode DEF NodeKinds, VarKinds, TypeNames
  <2>3. QED
    BY <1>1, <1>2, <1>3, <2>1, <2>2
<1>5. CASE build_ScopeSymbol_for_type
  <2>1. PICK k \in {"type", "opaque"}, n \in Names, of \in TypeNames :
          Fail \/ \E t : Declare(NewNode(k, n, of), t)
    BY <1>5 DEF build_ScopeSymbol_for_type
  <2>2. NewNode(k, n, of) \in Node
    BY NewNodeIsNode DEF NodeKinds, TypeKinds, TypeNames
  <2>3. QED
    BY <1>1, <1>2, <1>3, <2>1, <2>2
<1>6. CASE build_ScopeSymbol_for_func
  BY <1>6, BodiesFunction
<1>7. CASE EnterBlock \/ LeaveBlock \/ scope_resolve_internal
  <2>1. PICK k \in {"open", "close", "use", "call"}, n \in Names \cup {""} :
          nodes' = Append(nodes, NewNode(k, n, "")) /\ table' = table /\ bodied' = bodied
    BY <1>7 DEF EnterBlock, LeaveBlock, scope_resolve_internal
  <2>2. NewNode(k, n, "") \in Node /\ Syms' = Syms
    BY <2>1, NewNodeIsNode DEF NodeKinds, TypeNames, Syms
  <2>3. QED
    BY <1>3, <2>1, <2>2, BodiesOneNode
<1>8. QED
  BY <1>4, <1>5, <1>6, <1>7 DEF ResolveNext

\* A definition is the first of its function when no prototype comes before.
First(d) == \A e \in 1 .. d - 1 : nodes[e].kind = "proto" => nodes[e].name # nodes[d].name

\* A variable or parameter has a value, its own or that of a parameter the same
\* lookup finds for it.
HasValue(y) ==
  \/ y \in vals
  \/ \E z \in vals : /\ nodes[z].kind = "param"
                     /\ nodes[z].scope = nodes[y].scope /\ nodes[z].name = nodes[y].name

\* What the second walk has done for the nodes it has passed.
Passed ==
  /\ phase = "done" => pc > N
  /\ \A y \in Syms : y < pc /\ nodes[y].kind \in VarKinds => HasValue(y)
  /\ \A d \in 1..N : d < pc /\ nodes[d].ext = "export" /\ First(d) =>
       nodes[d].name \in DOMAIN funs /\ funs[nodes[d].name].external

\* The steps of the second walk, as far as values and functions go.
Halts ==
  /\ UNCHANGED <<nodes, table, bodied, pc, vals, funs>>
  /\ phase' = "done" => phase = "done" \/ pc > N
Goes ==
  /\ At({"use", "call", "var", "let", "cast", "type", "opaque", "open", "close"})
  /\ UNCHANGED <<nodes, table, bodied, phase, funs>> /\ pc' = pc + 1 /\ vals \subseteq vals'
  /\ Node0.kind \in VarKinds =>
       \E sym \in scope_lookup_name(sr, Node0.name) : sym \in vals'

\* Every step is one of these, or a function's.
LEMMA WalkSteps ==
  ASSUME [Next]_vars
  PROVE  (ResolveNext /\ UNCHANGED cgVars) \/ Halts \/ Goes \/ CgPrototype \/ codegen_function
<1>1. \A how : how # "done" /\ Stop(how) => Halts
  BY DEF Stop, Halts, cgVars
<1>2. StartCodegen \/ UNCHANGED vars => Halts
  BY DEF StartCodegen, Halts, vars, resolveVars, cgVars
<1>3. FinishCodegen => Halts
  BY DEF FinishCodegen, Stop, Halts, cgVars, N
<1>4. CASE CgIdentifier
  <2>1. Stop("error") \/ \E y : Emit({}, {[use |-> pc, decl |-> y, type |-> table[y]]})
    BY <1>4 DEF CgIdentifier
  <2>2. CASE \E y : Emit({}, {[use |-> pc, decl |-> y, type |-> table[y]]})
    <3>1. At({"use"})
      BY <1>4 DEF CgIdentifier
    <3>2. UNCHANGED <<nodes, table, bodied, phase, funs>> /\ pc' = pc + 1 /\ vals' = vals
      BY <2>2 DEF Emit, resolveVars
    <3>3. QED
      BY <3>1, <3>2 DEF Goes, At, VarKinds
  <2>3. QED
    BY <1>1, <2>1, <2>2
<1>5. CASE CgVariable
  <2>1. PICK sym \in scope_lookup_name(sr, Node0.name) :
          \/ \E t : NoLlvmType(t)
          \/ Stop("error")
          \/ \E new : Emit({sym}, new)
    BY <1>5, ZenonT(30) DEF CgVariable
  <2>2. CASE \E t : NoLlvmType(t)
    BY <1>1, <2>2 DEF NoLlvmType
  <2>3. CASE \E new : Emit({sym}, new)
    <3>1. At({"var", "let", "cast"})
      BY <1>5 DEF CgVariable
    <3>2. /\ UNCHANGED <<nodes, table, bodied, phase, funs>> /\ pc' = pc + 1
          /\ vals' = vals \cup {sym}
      BY <2>3 DEF Emit, resolveVars
    <3>3. QED
      BY <3>1, <3>2 DEF Goes, At
  <2>4. QED
    BY <1>1, <2>1, <2>2, <2>3
<1>6. CASE CgTypeOrBlock
  <2>1. At({"type", "opaque", "open", "close"})
    BY <1>6 DEF CgTypeOrBlock
  <2>2. UNCHANGED <<nodes, table, bodied, phase, funs>> /\ pc' = pc + 1 /\ vals' = vals
    BY <1>6 DEF CgTypeOrBlock, resolveVars
  <2>3. QED
    BY <2>1, <2>2 DEF Goes, At, VarKinds
<1>7. CASE codegen_call
  <2>1. CASE Stop("error")
    BY <1>1, <2>1
  <2>2. CASE ~Stop("error")
    <3>1. At({"call"})
      BY <1>7 DEF codegen_call
    <3>2. UNCHANGED <<nodes, table, bodied, phase, funs>> /\ pc' = pc + 1 /\ vals' = vals
      BY <1>7, <2>2 DEF codegen_call, resolveVars
    <3>3. QED
      BY <3>1, <3>2 DEF Goes, At, VarKinds
  <2>3. QED
    BY <2>1, <2>2
<1>8. QED
  BY <1>2, <1>3, <1>4, <1>5, <1>6, <1>7 DEF Next, Exit, Spin

\* A variable finds itself, a parameter one of its name.
LEMMA FindsValue ==
  ASSUME RInv, UniqueInScope, NEW d \in Syms, nodes[d].kind \in VarKinds,
         NEW y \in scope_lookup_name(nodes[d].scope, nodes[d].name), y \in vals'
  PROVE  \/ d \in vals'
         \/ \E z \in vals' : /\ nodes[z].kind = "param"
                             /\ nodes[z].scope = nodes[d].scope /\ nodes[z].name = nodes[d].name
<1> DEFINE s == nodes[d].scope
<1>1. d \in 1..N /\ N \in Nat /\ s \in Scopes
  BY Sizes DEF RInv, Shape
<1>2. s \in Nat /\ s \in chain[s] /\ chain[s] \subseteq 0..s
  BY <1>1 DEF RInv, Shape
<1>3. y \in Syms /\ nodes[y].name = nodes[d].name /\ nodes[y].scope \in chain[s] /\ Nearer(y, d)
  BY <1>2 DEF scope_lookup_name, Visible
<1>4. nodes[y].scope \in Nat /\ nodes[y].scope <= s
  BY <1>2, <1>3
<1>5. nodes[y].scope = s
  BY <1>2, <1>3, <1>4 DEF Nearer
<1>6. CASE y = d
  BY <1>6
<1>7. CASE y # d
  <2>1. nodes[y].kind = "param"
    BY <1>3, <1>5, <1>7 DEF UniqueInScope
  <2>2. QED
    BY <1>3, <1>5, <2>1
<1>8. QED
  BY <1>6, <1>7

\* A step to a later node: what it passes must have its value, or its function.
LEMMA PassesOn ==
  ASSUME IInv, Bodies, Passed, UNCHANGED <<nodes, table, phase>>, phase # "done",
         vals \subseteq vals', pc' \in Nat,
         \A y \in Syms : y >= pc /\ y < pc' /\ nodes[y].kind \in VarKinds => HasValue(y)',
         \A n \in DOMAIN funs : n \in DOMAIN funs' /\ funs'[n].external = funs[n].external,
         \A d \in 1..N : d >= pc /\ d < pc' /\ nodes[d].ext = "export" /\ First(d) =>
           nodes[d].name \in DOMAIN funs' /\ funs'[nodes[d].name].external
  PROVE  Passed'
<1>1. N \in Nat /\ N' = N /\ Syms' = Syms /\ pc \in Nat /\ Syms \subseteq 1..N
  BY Sizes DEF IInv, RInv, Shape, Walk2, N, Syms
<1>2. \A y \in Nat : y < pc \/ y >= pc
  BY <1>1
<1>3. \A y : HasValue(y) => HasValue(y)'
  BY DEF HasValue
<1>4. \A d : First(d)' = First(d)
  BY DEF First
<1>5. \A y \in Syms : y < pc' /\ nodes[y].kind \in VarKinds => HasValue(y)'
  <2>1. \A y \in Syms : y \in Nat
    BY <1>1
  <2>2. QED
    BY <1>2, <1>3, <2>1 DEF Passed
<1>6. ASSUME NEW d \in 1..N, d < pc', nodes[d].ext = "export", First(d)
      PROVE  nodes[d].name \in DOMAIN funs' /\ funs'[nodes[d].name].external
  <2>1. CASE d < pc
    <3>1. nodes[d].name \in DOMAIN funs /\ funs[nodes[d].name].external
      BY <1>6, <2>1 DEF Passed
    <3>2. QED
      BY <3>1
  <2>2. CASE d >= pc
    BY <1>6, <2>2
  <2>3. QED
    BY <1>1, <2>1, <2>2
<1>7. QED
  BY <1>1, <1>4, <1>5, <1>6 DEF Passed

\* An exported definition that comes first makes its function external; no
\* declaration takes that back (codegen_function_prototype).
LEMMA AddsExternal ==
  ASSUME IInv, Bodies, NEW kinds, At(kinds), Node0.kind \in FuncKinds, NEW body \in BOOLEAN,
         AddFunction(Node0, body)
  PROVE  /\ \A n \in DOMAIN funs : n \in DOMAIN funs' /\ funs'[n].external = funs[n].external
         /\ Node0.ext = "export" /\ First(pc) =>
              Node0.name \in DOMAIN funs' /\ funs'[Node0.name].external
<1> DEFINE nm == Node0.name
           old == codegen_function_prototype(Node0)
           new == [old EXCEPT !.body = @ \/ body]
<1>1. pc \in 1..N /\ N \in Nat /\ Node0 = nodes[pc] /\ RInv /\ Syms \subseteq 1..N
  BY AtNode DEF IInv, RInv, Shape
<1>2. nm \in DOMAIN funs => old = funs[nm] /\ old \in CgFunction
  BY DEF codegen_function_prototype, IInv, Walk2
<1>3. nm \notin DOMAIN funs =>
        old = [external |-> Node0.ext # "none", body |-> FALSE, args |-> Node0.args]
  BY DEF codegen_function_prototype
<1>4. new.external = old.external
  BY <1>2, <1>3 DEF CgFunction
<1>5. funs' = [f \in DOMAIN funs \cup {nm} |-> IF f = nm THEN new ELSE funs[f]]
  BY DEF AddFunction
<1> HIDE DEF new, old
<1>6. \A n \in DOMAIN funs : n \in DOMAIN funs' /\ funs'[n].external = funs[n].external
  BY <1>2, <1>4, <1>5
<1>7. ASSUME Node0.ext = "export", First(pc) PROVE nm \notin DOMAIN funs
  <2> SUFFICES ASSUME nm \in DOMAIN funs PROVE FALSE
    OBVIOUS
  <2>1. PICK y \in Syms : y < pc /\ nodes[y].kind \in FuncKinds /\ nodes[y].name = nm
    BY DEF IInv, Walk2
  <2>2. Node0.kind = "func"
    BY <1>1, <1>7 DEF Bodies
  <2>3. CASE pc \in Syms
    <3>1. y = pc
      BY <1>1, <2>1, <2>3 DEF RInv, Declared
    <3>2. QED
      BY <1>1, <2>1, <3>1
  <2>4. CASE pc \notin Syms
    <3>1. PICK x \in Syms : SameFunction(x, pc) /\ nodes[x].kind = "proto"
      BY <1>1, <2>2, <2>4 DEF Bodies
    <3>2. x < pc /\ x \in Nat /\ x >= 1 /\ nodes[x].name = nodes[pc].name
      BY <1>1, <3>1 DEF SameFunction
    <3>3. x \in 1 .. pc - 1
      BY <1>1, <3>2
    <3>4. QED
      BY <1>7, <3>1, <3>2, <3>3 DEF First
  <2>5. QED
    BY <2>3, <2>4
<1>8. Node0.ext = "export" /\ First(pc) => nm \in DOMAIN funs' /\ funs'[nm].external
  <2>1. ASSUME nm \notin DOMAIN funs, Node0.ext = "export" PROVE old.external = TRUE
    <3>1. old.external = (Node0.ext # "none")
      BY <1>3, <2>1
    <3>2. Node0.ext # "none"
      BY <2>1
    <3>3. QED
      BY <3>1, <3>2
  <2>2. nm \in DOMAIN funs' /\ funs'[nm] = new
    BY <1>5
  <2>3. QED
    BY <1>4, <1>7, <2>1, <2>2
<1>9. QED
  BY <1>6, <1>8

\* Every step keeps what the second walk has done.
LEMMA NextPassed ==
  IInv /\ UniqueInScope /\ Bodies /\ Passed /\ [Next]_vars => Bodies' /\ Passed'
<1> SUFFICES ASSUME IInv, UniqueInScope, Bodies, Passed, [Next]_vars PROVE Bodies' /\ Passed'
  OBVIOUS
<1>1. RInv /\ N \in Nat /\ Syms \subseteq 1..N /\ pc \in Nat
  BY Sizes DEF IInv, RInv, Shape, Walk2
<1>2. CASE ResolveNext /\ UNCHANGED cgVars
  <2>1. Bodies'
    BY <1>1, <1>2, BodiesResolve
  <2>2. /\ phase' # "done" /\ RInv' /\ pc' = B + 1 /\ B' = B /\ B \in Nat
    BY <1>2, ResolvePhase, ResolveRInv, Sizes DEF IInv, RInv, Shape, Walk2, cgVars, B
  <2>3. \A i \in 1..N' : i < pc' => nodes'[i].kind = "builtin"
    <3>1. N' \in Nat /\ \A i \in 1..N' : i < pc' => i \in 1..B'
      BY <2>2, LenProperties DEF RInv, Shape, N
    <3>2. QED
      BY <2>2, <3>1 DEF RInv, Shape
  <2>4. Syms' \subseteq 1..N'
    BY <2>2 DEF RInv, Shape
  <2>5. \A d \in 1..N' : d < pc' => nodes'[d].ext # "export"
    BY <2>1, <2>3 DEF Bodies
  <2>6. QED
    BY <2>1, <2>2, <2>3, <2>4, <2>5 DEF Passed, VarKinds
<1>3. ASSUME UNCHANGED <<nodes, table, bodied>> PROVE Bodies' /\ N' = N /\ Syms' = Syms
  BY <1>3 DEF Bodies, SameFunction, Syms, N
<1>4. CASE Halts
  <2>1. Bodies' /\ N' = N /\ Syms' = Syms
    BY <1>3, <1>4 DEF Halts
  <2>2. \A y : HasValue(y)' = HasValue(y)
    BY <1>4 DEF Halts, HasValue
  <2>3. \A d : First(d)' = First(d)
    BY <1>4 DEF Halts, First
  <2>4. QED
    BY <1>4, <2>1, <2>2, <2>3 DEF Halts, Passed
<1>5. CASE Goes
  <2>1. /\ UNCHANGED <<nodes, table, bodied, phase, funs>> /\ pc' = pc + 1 /\ vals \subseteq vals'
        /\ At({"use", "call", "var", "let", "cast", "type", "opaque", "open", "close"})
    BY <1>5 DEF Goes
  <2>2. /\ phase # "done" /\ pc \in 1..N /\ Node0 = nodes[pc] /\ sr = nodes[pc].scope
        /\ nodes[pc].kind \in {"use", "call", "var", "let", "cast", "type", "opaque", "open", "close"}
    BY <2>1, AtNode
  <2>3. \A y \in 1..N : y >= pc /\ y < pc' => y = pc
    BY <1>1, <2>1
  <2>4. ASSUME NEW y \in Syms, y >= pc, y < pc', nodes[y].kind \in VarKinds PROVE HasValue(y)'
    <3>1. y = pc /\ nodes[y].scope = sr /\ nodes[y].name = Node0.name
      BY <1>1, <2>2, <2>3, <2>4
    <3>2. PICK sym \in scope_lookup_name(nodes[y].scope, nodes[y].name) : sym \in vals'
      BY <1>5, <2>2, <2>4, <3>1 DEF Goes
    <3>3. \/ y \in vals'
          \/ \E z \in vals' : /\ nodes[z].kind = "param"
                              /\ nodes[z].scope = nodes[y].scope /\ nodes[z].name = nodes[y].name
      BY <1>1, <2>4, <3>2, FindsValue
    <3>4. nodes' = nodes
      BY <2>1
    <3>5. QED
      BY <3>3, <3>4 DEF HasValue
  <2>5. \A d \in 1..N : d >= pc /\ d < pc' => nodes[d].ext # "export"
    <3>1. nodes[pc].kind # "func"
      BY <2>2
    <3>2. QED
      BY <2>2, <2>3, <3>1 DEF Bodies
  <2>6. pc' \in Nat
    BY <1>1, <2>1
  <2>7. Passed'
    BY <2>1, <2>2, <2>4, <2>5, <2>6, PassesOn
  <2>8. QED
    BY <1>3, <2>1, <2>7
<1>6. CASE CgPrototype
  <2>1. /\ UNCHANGED <<nodes, table, bodied, phase>> /\ pc' = pc + 1 /\ vals' = vals
        /\ At({"proto"}) /\ AddFunction(Node0, FALSE)
    BY <1>6 DEF CgPrototype, resolveVars
  <2>2. /\ phase # "done" /\ pc \in 1..N /\ Node0 = nodes[pc] /\ Node0.kind = "proto"
    BY <2>1, AtNode
  <2>3. \A y \in 1..N : y >= pc /\ y < pc' => y = pc
    BY <1>1, <2>1
  <2>4. \A y \in Syms : y >= pc /\ y < pc' => nodes[y].kind \notin VarKinds
    BY <1>1, <2>2, <2>3 DEF VarKinds
  <2>5. /\ \A n \in DOMAIN funs : n \in DOMAIN funs' /\ funs'[n].external = funs[n].external
        /\ Node0.ext = "export" /\ First(pc) =>
             Node0.name \in DOMAIN funs' /\ funs'[Node0.name].external
    BY <2>1, <2>2, AddsExternal DEF FuncKinds
  <2>6. \A d \in 1..N : d >= pc /\ d < pc' /\ nodes[d].ext = "export" /\ First(d) =>
          nodes[d].name \in DOMAIN funs' /\ funs'[nodes[d].name].external
    BY <2>2, <2>3, <2>5
  <2>7. pc' \in Nat
    BY <1>1, <2>1
  <2>8. Passed'
    BY <2>1, <2>2, <2>4, <2>5, <2>6, <2>7, PassesOn
  <2>9. QED
    BY <1>3, <2>1, <2>8
<1>7. CASE codegen_function
  <2> DEFINE a == Node0.args
             params == pc + 1 .. pc + a
  <2>1. At({"func"}) /\ Node0 = nodes[pc] /\ pc \in 1..N /\ phase # "done" /\ Node0 \in Node
        /\ Node0.kind = "func"
    BY <1>7, AtNode DEF codegen_function
  <2>2. CASE Stop("error") \/ Stop("undefined")
    BY <1>4, <2>2 DEF Stop, Halts, cgVars
  <2>3. CASE ~(Stop("error") \/ Stop("undefined"))
    <3>1. /\ \A j \in params : scope_lookup_name(pc, nodes[j].name) # {}
          /\ AddFunction(Node0, TRUE) /\ UNCHANGED <<nodes, table, bodied, phase>>
          /\ vals' = vals \cup UNION {scope_lookup_name(pc, nodes[j].name) : j \in params}
          /\ pc' = pc + a + 1
      BY <1>7, <2>3 DEF codegen_function, resolveVars
    <3>2. /\ a \in Nat /\ pc + a <= N
          /\ \A j \in params : nodes[j].kind = "param" /\ nodes[j].scope = pc
      BY <1>1, <2>1 DEF RInv, Params, Node
    <3>3. \A y \in 1..N : y >= pc /\ y < pc' => y = pc \/ y \in params
      BY <1>1, <3>1, <3>2
    <3>4. ASSUME NEW y \in Syms, y \in params PROVE HasValue(y)'
      <4>1. PICK x : x \in scope_lookup_name(nodes[y].scope, nodes[y].name)
        BY <3>1, <3>2, <3>4
      <4>2. x \in vals'
        BY <3>1, <3>2, <3>4, <4>1
      <4>3. \/ y \in vals'
            \/ \E z \in vals' : /\ nodes[z].kind = "param"
                                /\ nodes[z].scope = nodes[y].scope /\ nodes[z].name = nodes[y].name
        <5>1. nodes[y].kind \in VarKinds
          BY <3>2, <3>4 DEF VarKinds
        <5> HIDE DEF params
        <5>2. QED
          BY <1>1, <4>1, <4>2, <5>1, FindsValue
      <4>4. QED
        BY <3>1, <4>3 DEF HasValue
    <3> HIDE DEF params
    <3>5. \A y \in Syms : y >= pc /\ y < pc' /\ nodes[y].kind \in VarKinds => HasValue(y)'
      <4>1. nodes[pc].kind \notin VarKinds
        BY <2>1 DEF VarKinds
      <4>2. QED
        BY <1>1, <3>3, <3>4, <4>1
    <3>6. /\ \A n \in DOMAIN funs : n \in DOMAIN funs' /\ funs'[n].external = funs[n].external
          /\ Node0.ext = "export" /\ First(pc) =>
               Node0.name \in DOMAIN funs' /\ funs'[Node0.name].external
      BY <2>1, <3>1, AddsExternal DEF FuncKinds
    <3>7. \A d \in 1..N : d >= pc /\ d < pc' /\ nodes[d].ext = "export" /\ First(d) =>
            nodes[d].name \in DOMAIN funs' /\ funs'[nodes[d].name].external
      <4>1. \A j \in params : j \in 1..N => nodes[j].ext # "export"
        BY <3>2 DEF Bodies
      <4>2. QED
        BY <2>1, <3>3, <3>6, <4>1
    <3>8. pc' \in Nat /\ vals \subseteq vals'
      BY <1>1, <3>1, <3>2
    <3>9. UNCHANGED <<nodes, table, bodied, phase>>
      BY <3>1
    <3>10. Passed'
      BY <2>1, <3>5, <3>6, <3>7, <3>8, <3>9, PassesOn
    <3>11. QED
      BY <1>3, <3>9, <3>10
  <2>4. QED
    BY <2>2, <2>3
<1>8. QED
  BY <1>2, <1>4, <1>5, <1>6, <1>7, WalkSteps

\* Before the first walk only the built-in types are there (install_builtins).
LEMMA InitPassed == CgInit => Bodies /\ Passed /\ UniqueInScope
<1> SUFFICES ASSUME CgInit PROVE Bodies /\ Passed /\ UniqueInScope
  OBVIOUS
<1>1. /\ Syms = 1..Len(BuiltinTypes) /\ phase = "resolve"
      /\ nodes = [i \in 1..Len(BuiltinTypes) |->
                    [kind |-> "builtin", name |-> BuiltinTypes[i], of |-> "",
                     ext |-> "none", args |-> 0, scope |-> 0]]
  BY DEF CgInit, Init, Syms
<1>2. N = Len(BuiltinTypes)
  <2>1. N = B /\ B = Len(BuiltinTypes)
    BY InitSize DEF B
  <2>2. QED
    BY <2>1
<1>3. \A y \in 1..N : /\ nodes[y].kind = "builtin" /\ nodes[y].ext = "none"
                       /\ nodes[y].name = BuiltinTypes[y]
  BY <1>1, <1>2
<1>4. Bodies
  BY <1>1, <1>2, <1>3 DEF Bodies
<1>5. Passed
  BY <1>1, <1>2, <1>3 DEF Passed, VarKinds
<1>6. UniqueInScope
  <2>1. \A y, z \in 1..N : nodes[y].name = nodes[z].name => y = z
    BY <1>2, <1>3, BuiltinsDistinct
  <2>2. QED
    BY <1>1, <1>2, <2>1, ZenonT(60) DEF UniqueInScope
<1>7. QED
  BY <1>4, <1>5, <1>6

\* No scope holds a name twice, but for parameters, whatever is declared in
\* which order (scope-resolve.c:89-110 and 268-305).
THEOREM NamesUnique == Spec => []UniqueInScope
<1>1. IInv /\ UniqueInScope /\ [Next]_vars => UniqueInScope'
  <2> SUFFICES ASSUME IInv, UniqueInScope, [Next]_vars PROVE UniqueInScope'
    OBVIOUS
  <2>1. CASE ResolveNext
    BY <2>1, UniqueResolve DEF IInv
  <2>2. CASE ~ResolveNext
    <3>1. UNCHANGED <<nodes, table>>
      BY <2>2, TableStable DEF vars, resolveVars
    <3>2. QED
      BY <3>1 DEF UniqueInScope, Syms
  <2>3. QED
    BY <2>1, <2>2
<1>2. QED
  BY <1>1, InitPassed, Invariance, PTL DEF Spec

\* What the second walk has done holds in every state of both walks.
LEMMA PassedInvariance == Spec => [](Bodies /\ Passed)
<1>1. QED
  BY InitPassed, NextPassed, NamesUnique, Invariance, PTL DEF Spec

\* A module is written only when every variable and every parameter has a
\* value: of the parameters of one name the first (cg-function.c:140-160).
THEOREM ValuesComplete == Spec => []DoneHasValues
<1>1. IInv /\ Passed => DoneHasValues
  <2> SUFFICES ASSUME IInv, Passed, phase = "done", NEW y \in Syms, nodes[y].kind \in VarKinds
               PROVE  HasValue(y)
    BY DEF DoneHasValues, HasValue
  <2>1. N \in Nat /\ pc \in Nat /\ pc > N /\ y \in 1..N
    BY Sizes DEF IInv, RInv, Shape, Walk2, Passed
  <2>2. y < pc
    BY <2>1
  <2>3. QED
    BY <2>2 DEF Passed
<1>2. QED
  BY <1>1, PassedInvariance, Invariance, PTL

\* An exported function stays visible to the linker, unless a prototype of it
\* comes first (cg-function.c:12-74, codegen-llvm.c:86-105).
THEOREM ExportsExternal == Spec => []ExportWithoutPrototype
<1>1. IInv /\ Passed => ExportWithoutPrototype
  <2> SUFFICES ASSUME IInv, Passed, phase = "done", NEW d \in 1..N,
                      nodes[d].ext = "export", First(d)
               PROVE  IsExternal(nodes[d].name)
    BY DEF ExportWithoutPrototype, First, N
  <2>1. N \in Nat /\ pc \in Nat /\ pc > N
    BY Sizes DEF IInv, RInv, Shape, Walk2, Passed
  <2>2. d < pc
    BY <2>1
  <2>3. QED
    BY <2>2 DEF Passed, IsExternal
<1>2. QED
  BY <1>1, PassedInvariance, Invariance, PTL
=============================================================================
