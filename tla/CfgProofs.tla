------------------------------- MODULE CfgProofs ------------------------------
(***************************************************************************)
(* Whatever statements the parser hands out, every basic block created for *)
(* them is appended to the function once, and ends in one terminator, and  *)
(* every stack slot is allocated once and written before it is read.       *)
(* The blocks a call of the generator has created and not appended yet     *)
(* are in its local variables: `Pending' says which, for every call that   *)
(* has not returned.                                                       *)
(***************************************************************************)
EXTENDS CfgBuilder, FiniteSetTheorems, SequenceTheorems, TLAPS

Ops == Terminators \cup {"call", "set", "alloca", "atom", "false", "true", "copy", "not"}
Kinds == {"call", "ret", "set", "retval", "if", "while", "atom", "and", "or", "not"}
Roles == BlockRoles \cup {"value", "cond", "lhs", "rhs", "operand"}
Instructions == [op : Ops, node : Nat, slot : Nat, to : Seq(Nat)]
Blocks == Seq(Instructions)

Nodes == [kind : Kinds, parent : Nat, role : Roles]
Frames == [node : Nat, role : Roles, bbs : Seq(Nat)]

Typed == /\ phase \in {"build", "run", "returned", "error"}
         /\ nodes \in Seq(Nodes) /\ blocks \in Seq(Blocks) /\ layout \in Seq(Nat)
         /\ insert \in Nat /\ got \in Nat /\ stack \in Seq(Frames)

\* The blocks a call works on, in the order it appends them.
Shaped(ns, f) ==
  /\ f.role \in {"cond", "then", "else", "body"} =>
       Len(f.bbs) = 3 /\ f.bbs[1] < f.bbs[2] /\ f.bbs[2] <= f.bbs[3]
  /\ f.role \in {"else", "body"} \/ (f.role = "cond" /\ ns[f.node].kind = "while") =>
       f.bbs[2] < f.bbs[3]
  /\ f.role \in {"lhs", "rhs"} => Len(f.bbs) = 2 /\ f.bbs[1] < f.bbs[2]

\* Each call generates a child of the node its caller is at.
Stacked ==
  /\ stack # << >>
  /\ \A k \in 1..Len(stack) : /\ stack[k].role = "top" <=> k = Len(stack)
                              /\ Shaped(nodes, stack[k])
  /\ \A k \in 1 .. Len(stack) - 1 :
       /\ stack[k].node \in 1..Len(nodes)
       /\ nodes[stack[k].node].parent = stack[k + 1].node
       /\ nodes[stack[k].node].role = stack[k + 1].role

\* The blocks a call has created and not appended to the function.
Pending(ns, f) ==
  {f.bbs[j] : j \in
     CASE f.role = "cond" -> IF ns[f.node].kind = "while" THEN {2, 3} ELSE {1, 2, 3}
       [] f.role = "then" -> {2, 3}
       [] f.role \in {"else", "body"} -> {3}
       [] f.role = "lhs" -> {1, 2}
       [] f.role = "rhs" -> {2}
       [] OTHER -> {}}
PendingOf(ns, st) == [k \in 1..Len(st) |-> Pending(ns, st[k])]

\* Of n blocks each is in the layout, or waits in one of the calls.
Once(n, lay, P) ==
  /\ lay \in Seq(1..n) /\ P \in Seq(SUBSET (1..n))
  /\ \A k, l \in 1..Len(lay) : lay[k] = lay[l] => k = l
  /\ \A k \in 1..Len(lay), l \in 1..Len(P) : lay[k] \notin P[l]
  /\ \A k, l \in 1..Len(P) : k # l => P[k] \cap P[l] = {}
  /\ \A b \in 1..n : \/ \E k \in 1..Len(lay) : lay[k] = b
                     \/ \E l \in 1..Len(P) : b \in P[l]

Placed == Once(Len(blocks), layout, PendingOf(nodes, stack))
Positioned == \E k \in 1..Len(layout) : layout[k] = insert
Complete == phase \in {"run", "returned"} => Top.role = "top"

PInv == Typed /\ Stacked /\ Placed /\ Positioned /\ Complete
-----------------------------------------------------------------------------
(* Blocks that wait are created, appended, and given up when none is left. *)

LEMMA SeqOfMore ==
  ASSUME NEW S, NEW T, S \subseteq T, NEW s \in Seq(S) PROVE s \in Seq(T)
OBVIOUS

\* A call creates the blocks in W and keeps them.
LEMMA Creates ==
  ASSUME NEW n \in Nat, NEW m \in Nat, n <= m, NEW lay, NEW P, Once(n, lay, P),
         NEW W, W = n + 1 .. m
  PROVE  Once(m, lay, <<W>> \o P)
<1> DEFINE Q == <<W>> \o P
<1>1. lay \in Seq(1..m) /\ P \in Seq(SUBSET (1..m)) /\ W \in SUBSET (1..m)
  BY SeqOfMore DEF Once
<1>2. Q \in Seq(SUBSET (1..m)) /\ Len(Q) = Len(P) + 1 /\ Q[1] = W
  BY <1>1
<1>3. \A k \in 1..Len(P) : Q[k + 1] = P[k] /\ P[k] \subseteq 1..n
  BY <1>1 DEF Once
<1>4. \A k \in 1..Len(Q) : k = 1 \/ \E l \in 1..Len(P) : k = l + 1
  <2> SUFFICES ASSUME NEW k \in 1..Len(Q), k # 1 PROVE \E l \in 1..Len(P) : k = l + 1
    OBVIOUS
  <2> k - 1 \in 1..Len(P) /\ k = (k - 1) + 1
    BY <1>1, <1>2
  <2> QED
    OBVIOUS
<1> HIDE DEF Q
<1>5. \A k \in 1..Len(lay) : lay[k] \in 1..n
  BY DEF Once
<1>6. \A k \in 1..Len(lay), l \in 1..Len(Q) : lay[k] \notin Q[l]
  BY <1>2, <1>3, <1>4, <1>5 DEF Once
<1>7. \A k, l \in 1..Len(Q) : k # l => Q[k] \cap Q[l] = {}
  <2> SUFFICES ASSUME NEW k \in 1..Len(Q), NEW l \in 1..Len(Q), k # l PROVE Q[k] \cap Q[l] = {}
    OBVIOUS
  <2>1. CASE k = 1
    BY <2>1, <1>2, <1>3, <1>4
  <2>2. CASE l = 1
    BY <2>2, <1>2, <1>3, <1>4
  <2>3. CASE k # 1 /\ l # 1
    <3>1. PICK i \in 1..Len(P) : k = i + 1
      BY <2>3, <1>4
    <3>2. PICK j \in 1..Len(P) : l = j + 1
      BY <2>3, <1>4
    <3>3. i # j
      BY <3>1, <3>2
    <3>4. P[i] \cap P[j] = {}
      BY <3>3 DEF Once
    <3> QED
      BY <3>1, <3>2, <3>4, <1>3
  <2> QED
    BY <2>1, <2>2, <2>3
<1>8. \A b \in 1..m : \/ \E k \in 1..Len(lay) : lay[k] = b
                      \/ \E l \in 1..Len(Q) : b \in Q[l]
  <2> SUFFICES ASSUME NEW b \in 1..m, ~\E k \in 1..Len(lay) : lay[k] = b
               PROVE  \E l \in 1..Len(Q) : b \in Q[l]
    OBVIOUS
  <2>1. CASE b \in W
    <3>1. 1 \in 1..Len(Q) /\ b \in Q[1]
      BY <2>1, <1>1, <1>2
    <3> QED
      BY <3>1
  <2>2. CASE b \notin W
    <3>1. b \in 1..n
      BY <2>2
    <3>2. PICK l \in 1..Len(P) : b \in P[l]
      BY <3>1 DEF Once
    <3>3. l + 1 \in 1..Len(Q) /\ b \in Q[l + 1]
      BY <3>2, <1>1, <1>2, <1>3
    <3> QED
      BY <3>3
  <2> QED
    BY <2>1, <2>2
<1>9. QED
  BY <1>1, <1>2, <1>6, <1>7, <1>8 DEF Once, Q

\* The innermost call appends one of its blocks to the function.
LEMMA Appends ==
  ASSUME NEW n \in Nat, NEW lay, NEW P, Once(n, lay, P), P # << >>,
         NEW b \in P[1], NEW W, W = P[1] \ {b}
  PROVE  /\ Once(n, lay \o <<b>>, <<W>> \o Tail(P))
         /\ \E k \in 1..Len(lay \o <<b>>) : (lay \o <<b>>)[k] = b
<1> DEFINE Q == <<W>> \o Tail(P)
           more == lay \o <<b>>
<1>1. lay \in Seq(1..n) /\ P \in Seq(SUBSET (1..n)) /\ 1 \in 1..Len(P) /\ b \in 1..n
  BY DEF Once
<1>2. /\ Q \in Seq(SUBSET (1..n)) /\ Len(Q) = Len(P) /\ Q[1] = W
      /\ \A k \in 1..Len(P) : k # 1 => Q[k] = P[k]
  BY <1>1
<1>3. /\ more \in Seq(1..n) /\ Len(more) = Len(lay) + 1 /\ more[Len(lay) + 1] = b
      /\ \A k \in 1..Len(lay) : more[k] = lay[k]
  BY <1>1
<1>4. Len(lay) \in Nat /\ Len(P) \in Nat
  BY <1>1
<1> HIDE DEF Q, more
<1>5. \A k \in 1..Len(lay) : lay[k] # b
  BY <1>1 DEF Once
<1>6. \A k, l \in 1..Len(more) : more[k] = more[l] => k = l
  <2>1. \A k, l \in 1..Len(lay) : lay[k] = lay[l] => k = l
    BY DEF Once
  <2>2. \A k \in 1..Len(more) : k = Len(lay) + 1 \/ k \in 1..Len(lay)
    BY <1>3, <1>4
  <2> QED
    BY <2>1, <2>2, <1>3, <1>5
<1>7. \A k \in 1..Len(more), l \in 1..Len(Q) : more[k] \notin Q[l]
  <2> SUFFICES ASSUME NEW k \in 1..Len(more), NEW l \in 1..Len(Q) PROVE more[k] \notin Q[l]
    OBVIOUS
  <2>1. CASE k \in 1..Len(lay)
    BY <2>1, <1>1, <1>2, <1>3 DEF Once
  <2>2. CASE k = Len(lay) + 1
    <3>1. l # 1 => b \notin P[l]
      BY <1>1, <1>2 DEF Once
    <3> QED
      BY <3>1, <2>2, <1>2, <1>3
  <2> QED
    BY <2>1, <2>2, <1>3, <1>4
<1>8. \A k, l \in 1..Len(Q) : k # l => Q[k] \cap Q[l] = {}
  <2>1. \A k, l \in 1..Len(P) : k # l => P[k] \cap P[l] = {}
    BY DEF Once
  <2> QED
    BY <2>1, <1>1, <1>2, SMTT(60)
<1>9. \A c \in 1..n : \/ \E k \in 1..Len(more) : more[k] = c
                      \/ \E l \in 1..Len(Q) : c \in Q[l]
  <2> SUFFICES ASSUME NEW c \in 1..n, ~\E k \in 1..Len(more) : more[k] = c
               PROVE  \E l \in 1..Len(Q) : c \in Q[l]
    OBVIOUS
  <2>1. c # b /\ ~\E k \in 1..Len(lay) : lay[k] = c
    BY <1>3, <1>4
  <2>2. PICK l \in 1..Len(P) : c \in P[l]
    BY <2>1 DEF Once
  <2> QED
    BY <2>1, <2>2, <1>2
<1>10. Once(n, more, Q)
  BY <1>2, <1>3, <1>6, <1>7, <1>8, <1>9 DEF Once
<1>11. QED
  BY <1>3, <1>4, <1>10 DEF Q, more

\* The innermost call has appended all of its blocks, and returns.
LEMMA GivesUp ==
  ASSUME NEW n \in Nat, NEW lay, NEW P, Once(n, lay, P), P # << >>, P[1] = {}
  PROVE  Once(n, lay, Tail(P))
<1> DEFINE Q == Tail(P)
<1>1. lay \in Seq(1..n) /\ P \in Seq(SUBSET (1..n)) /\ Len(P) \in Nat /\ Len(P) >= 1
  BY DEF Once
<1>2. /\ Q \in Seq(SUBSET (1..n)) /\ Len(Q) = Len(P) - 1
      /\ \A k \in 1..Len(Q) : Q[k] = P[k + 1] /\ k + 1 \in 1..Len(P)
  BY <1>1
<1> HIDE DEF Q
<1>3. \A k \in 1..Len(lay), l \in 1..Len(Q) : lay[k] \notin Q[l]
  BY <1>2 DEF Once
<1>4. \A k, l \in 1..Len(Q) : k # l => Q[k] \cap Q[l] = {}
  <2> SUFFICES ASSUME NEW k \in 1..Len(Q), NEW l \in 1..Len(Q), k # l PROVE Q[k] \cap Q[l] = {}
    OBVIOUS
  <2>1. k + 1 # l + 1
    OBVIOUS
  <2>2. P[k + 1] \cap P[l + 1] = {}
    BY <2>1, <1>2 DEF Once
  <2> QED
    BY <2>2, <1>2
<1>5. \A b \in 1..n : \/ \E k \in 1..Len(lay) : lay[k] = b
                      \/ \E l \in 1..Len(Q) : b \in Q[l]
  <2> SUFFICES ASSUME NEW b \in 1..n, ~\E k \in 1..Len(lay) : lay[k] = b
               PROVE  \E l \in 1..Len(Q) : b \in Q[l]
    OBVIOUS
  <2>1. PICK l \in 1..Len(P) : b \in P[l]
    BY DEF Once
  <2>2. l # 1
    BY <2>1
  <2>3. l - 1 \in 1..Len(Q) /\ Q[l - 1] = P[l]
    BY <2>2, <1>1, <1>2
  <2> QED
    BY <2>1, <2>3
<1>6. QED
  BY <1>1, <1>2, <1>3, <1>4, <1>5 DEF Once, Q

\* When no call has a block left, all of them are in the function, once.
LEMMA AllInLayout ==
  ASSUME NEW n \in Nat, NEW lay, NEW P, Once(n, lay, P), \A l \in 1..Len(P) : P[l] = {}
  PROVE  Len(lay) = n /\ {lay[k] : k \in 1..Len(lay)} = 1..n
<1>1. lay \in Seq(1..n) /\ Len(lay) \in Nat
  BY DEF Once
<1>2. {lay[k] : k \in 1..Len(lay)} = 1..n
  <2>1. \A k \in 1..Len(lay) : lay[k] \in 1..n
    BY <1>1
  <2>2. \A b \in 1..n : \E k \in 1..Len(lay) : lay[k] = b
    BY DEF Once
  <2> QED
    BY <2>1, <2>2
<1>3. ExistsBijection(1..Len(lay), 1..n)
  <2>1. lay \in [1..Len(lay) -> 1..n]
    BY <1>1
  <2>2. lay \in Bijection(1..Len(lay), 1..n)
    BY <2>1, <1>2 DEF Once, Bijection, Injection, Surjection, IsInjective
  <2> QED
    BY <2>2 DEF ExistsBijection
<1>4. \A i \in Nat : IsFiniteSet(1..i) /\ Cardinality(1..i) = i
  <2> SUFFICES ASSUME NEW i \in Nat PROVE IsFiniteSet(1..i) /\ Cardinality(1..i) = i
    OBVIOUS
  <2>1. 1 \in Int /\ i \in Int
    OBVIOUS
  <2>2. IsFiniteSet(1..i) /\ Cardinality(1..i) = IF 1 > i THEN 0 ELSE i - 1 + 1
    BY <2>1, FS_Interval, Zenon
  <2> QED
    BY <2>2
<1>5. Cardinality(1..n) = Cardinality(1..Len(lay))
  BY <1>1, <1>3, <1>4, FS_Bijection, Zenon
<1>6. QED
  BY <1>1, <1>2, <1>4, <1>5
-----------------------------------------------------------------------------
(* The builder: what it does to the blocks it does not work on.            *)

LEMMA Instruction ==
  ASSUME NEW op \in Ops, NEW i \in Nat, NEW s \in Nat, NEW to \in Seq(Nat)
  PROVE  Instr(op, i, s, to) \in Instructions /\ Instr(op, i, s, to).op = op
                                              /\ Instr(op, i, s, to).node = i
BY DEF Instr, Instructions

LEMMA EmittedBlocks ==
  ASSUME NEW bs \in Seq(Blocks), NEW b \in 1..Len(bs), NEW s \in Blocks
  PROVE  /\ Emitted(bs, b, s) \in Seq(Blocks) /\ Len(Emitted(bs, b, s)) = Len(bs)
         /\ Emitted(bs, b, s)[b] = bs[b] \o s
         /\ \A c \in 1..Len(bs) : c # b => Emitted(bs, b, s)[c] = bs[c]
<1>1. bs[b] \o s \in Blocks
  BY DEF Blocks
<1>2. QED
  BY <1>1, ExceptSeq DEF Emitted

LEMMA CreatedBlocks ==
  ASSUME NEW bs \in Seq(Blocks), NEW k \in Nat
  PROVE  /\ Created(bs, k) \in Seq(Blocks) /\ Len(Created(bs, k)) = Len(bs) + k
         /\ \A c \in 1..Len(bs) : Created(bs, k)[c] = bs[c]
         /\ \A c \in Len(bs) + 1 .. Len(bs) + k : Created(bs, k)[c] = << >>
<1> DEFINE new == [i \in 1..k |-> << >>]
<1>1. << >> \in Blocks
  BY DEF Blocks
<1>2. new \in Seq(Blocks) /\ Len(new) = k /\ \A i \in 1..k : new[i] = << >>
  BY <1>1
<1> HIDE DEF new
<1>3. /\ bs \o new \in Seq(Blocks) /\ Len(bs \o new) = Len(bs) + k
      /\ \A c \in 1 .. Len(bs) + k :
           (bs \o new)[c] = IF c <= Len(bs) THEN bs[c] ELSE new[c - Len(bs)]
  BY <1>2, ConcatProperties
<1>4. \A c \in Len(bs) + 1 .. Len(bs) + k : c - Len(bs) \in 1..k /\ ~(c <= Len(bs))
  OBVIOUS
<1>5. QED
  BY <1>2, <1>3, <1>4 DEF Created, new

\* new is bs with an allocation in front of block 1, and init at the end of b.
IsAllocated(new, bs, b, init) ==
  /\ \E a \in Instructions :
       /\ a.op = "alloca"
       /\ new[1] = IF b = 1 THEN (<<a>> \o bs[1]) \o <<init>> ELSE <<a>> \o bs[1]
  /\ b # 1 => new[b] = bs[b] \o <<init>>
  /\ \A c \in 1..Len(bs) : c # 1 /\ c # b => new[c] = bs[c]

LEMMA AllocatedBlocks ==
  ASSUME NEW bs \in Seq(Blocks), NEW b \in 1..Len(bs), NEW slot \in Nat, NEW init \in Instructions
  PROVE  /\ Allocated(bs, b, slot, init) \in Seq(Blocks)
         /\ Len(Allocated(bs, b, slot, init)) = Len(bs)
         /\ IsAllocated(Allocated(bs, b, slot, init), bs, b, init)
<1> DEFINE a == Instr("alloca", slot, 0, << >>)
           new == Allocated(bs, b, slot, init)
<1>1. a \in Instructions /\ a.op = "alloca"
  <2>1. "alloca" \in Ops /\ << >> \in Seq(Nat) /\ 0 \in Nat
    BY DEF Ops
  <2>2. /\ Instr("alloca", slot, 0, << >>) \in Instructions
        /\ Instr("alloca", slot, 0, << >>).op = "alloca"
    BY <2>1 DEF Instr, Instructions
  <2> QED
    BY <2>2
<1> DEFINE cs == [bs EXCEPT ![1] = <<a>> \o @]
<1>2. 1 \in 1..Len(bs) /\ <<a>> \o bs[1] \in Blocks
  BY <1>1 DEF Blocks
<1>3. cs \in Seq(Blocks) /\ Len(cs) = Len(bs) /\ cs[1] = <<a>> \o bs[1]
      /\ \A c \in 1..Len(bs) : c # 1 => cs[c] = bs[c]
  BY <1>2, ExceptSeq
<1> HIDE DEF cs
<1>4. <<init>> \in Blocks
  BY DEF Blocks
<1>5. new = Emitted(cs, b, <<init>>)
  BY DEF Allocated, cs
<1> HIDE DEF a, new
<1>6. /\ new \in Seq(Blocks) /\ Len(new) = Len(bs) /\ new[b] = cs[b] \o <<init>>
      /\ \A c \in 1..Len(bs) : c # b => new[c] = cs[c]
  <2>1. b \in 1..Len(cs)
    BY <1>3
  <2> DEFINE t == <<init>>
  <2>2. t \in Blocks /\ cs \in Seq(Blocks)
    BY <1>3, <1>4
  <2> HIDE DEF t
  <2>3. /\ Emitted(cs, b, t) \in Seq(Blocks) /\ Len(Emitted(cs, b, t)) = Len(cs)
        /\ Emitted(cs, b, t)[b] = cs[b] \o t
        /\ \A c \in 1..Len(cs) : c # b => Emitted(cs, b, t)[c] = cs[c]
    BY <2>1, <2>2, EmittedBlocks
  <2> QED
    BY <2>3, <1>3, <1>5 DEF t
<1>7. new[1] = IF b = 1 THEN (<<a>> \o bs[1]) \o <<init>> ELSE <<a>> \o bs[1]
  BY <1>2, <1>3, <1>6
<1>8. b # 1 => new[b] = bs[b] \o <<init>>
  BY <1>3, <1>6
<1>9. \A c \in 1..Len(bs) : c # 1 /\ c # b => new[c] = bs[c]
  BY <1>3, <1>6
<1>10. QED
  BY <1>1, <1>6, <1>7, <1>8, <1>9 DEF new, IsAllocated
-----------------------------------------------------------------------------
(* The calls of the generator.                                             *)

LEMMA TopOfStack ==
  ASSUME Typed, Stacked
  PROVE  /\ Len(stack) \in Nat /\ 1 \in 1..Len(stack) /\ Top = stack[1] /\ Top \in Frames
         /\ Shaped(nodes, Top)
         /\ Top.role # "top" => /\ Len(stack) >= 2 /\ Top.node \in 1..Len(nodes)
                                /\ nodes[Top.node].parent = stack[2].node
                                /\ nodes[Top.node].role = stack[2].role
<1>1. Len(stack) \in Nat /\ 1 \in 1..Len(stack) /\ Top = stack[1] /\ Top \in Frames
  BY DEF Typed, Stacked, Top
<1>2. Top.role # "top" => Len(stack) >= 2
  BY <1>1 DEF Stacked
<1>3. QED
  BY <1>1, <1>2 DEF Stacked

\* The blocks of the innermost call.
LEMMA BlocksOfTop ==
  ASSUME Typed, Stacked
  PROVE  /\ Top.node \in Nat /\ Top.bbs \in Seq(Nat)
         /\ Top.role \in {"cond", "then", "else", "body"} =>
              Top.bbs[1] \in Nat /\ Top.bbs[2] \in Nat /\ Top.bbs[3] \in Nat
         /\ Top.role \in {"lhs", "rhs"} => Top.bbs[1] \in Nat /\ Top.bbs[2] \in Nat
<1>1. Top \in Frames /\ Shaped(nodes, Top)
  BY TopOfStack
<1>2. Top.node \in Nat /\ Top.bbs \in Seq(Nat)
  BY <1>1 DEF Frames
<1>3. ASSUME NEW n \in {2, 3}, Len(Top.bbs) = n
      PROVE  \A i \in 1..n : Top.bbs[i] \in Nat
  BY <1>2, <1>3
<1>4. QED
  BY <1>1, <1>2, <1>3 DEF Shaped

\* What is known of a call stays known when the tree grows.
LEMMA Remembered ==
  ASSUME NEW ns \in Seq(Nodes), NEW n \in Nodes, NEW f \in Frames, f.node \in 1..Len(ns) \/ f.role = "top"
  PROVE  Pending(Append(ns, n), f) = Pending(ns, f) /\ Shaped(Append(ns, n), f) = Shaped(ns, f)
<1>1. \A i \in 1..Len(ns) : Append(ns, n)[i] = ns[i]
  OBVIOUS
<1>2. CASE f.node \in 1..Len(ns)
  BY <1>1, <1>2 DEF Pending, Shaped
<1>3. CASE f.role = "top"
  BY <1>3 DEF Pending, Shaped
<1>4. QED
  BY <1>2, <1>3

LEMMA NodesOfStack ==
  ASSUME Typed, Stacked
  PROVE  \A k \in 1..Len(stack) : stack[k] \in Frames
                                  /\ (stack[k].node \in 1..Len(nodes) \/ stack[k].role = "top")
BY DEF Typed, Stacked

\* A statement or an operand that calls nothing.
LEMMA AddsLeaf ==
  ASSUME Typed, Stacked, NEW n \in Nodes, nodes' = Append(nodes, n), stack' = stack
  PROVE  nodes' \in Seq(Nodes) /\ Stacked' /\ PendingOf(nodes', stack') = PendingOf(nodes, stack)
<1>1. /\ nodes' \in Seq(Nodes) /\ Len(nodes') = Len(nodes) + 1
      /\ \A i \in 1..Len(nodes) : nodes'[i] = nodes[i]
  BY DEF Typed
<1>2. \A k \in 1..Len(stack) : /\ Pending(nodes', stack[k]) = Pending(nodes, stack[k])
                               /\ Shaped(nodes', stack[k]) = Shaped(nodes, stack[k])
  BY NodesOfStack, Remembered DEF Typed
<1>3. Len(nodes) \in Nat
  BY DEF Typed
<1>4. Stacked'
  BY <1>1, <1>2, <1>3, SMTT(60) DEF Stacked
<1>5. QED
  BY <1>1, <1>2, <1>4 DEF PendingOf

\* One that calls the generator.
LEMMA PushesFrame ==
  ASSUME Typed, Stacked, NEW n \in Nodes, nodes' = Append(nodes, n),
         n.parent = Top.node, n.role = Top.role,
         NEW f \in Frames, f.node = Here, f.role # "top", Shaped(nodes', f), stack' = <<f>> \o stack
  PROVE  /\ nodes' \in Seq(Nodes) /\ stack' \in Seq(Frames) /\ Stacked' /\ Top' = f
         /\ PendingOf(nodes', stack') = <<Pending(nodes', f)>> \o PendingOf(nodes, stack)
<1>1. /\ nodes' \in Seq(Nodes) /\ Len(nodes') = Len(nodes) + 1 /\ Len(nodes) \in Nat
      /\ nodes'[Len(nodes) + 1] = n /\ \A i \in 1..Len(nodes) : nodes'[i] = nodes[i]
  BY DEF Typed
<1>2. /\ stack' \in Seq(Frames) /\ Len(stack') = Len(stack) + 1 /\ Len(stack) \in Nat
      /\ stack'[1] = f /\ \A k \in 1..Len(stack) : stack'[k + 1] = stack[k]
  BY DEF Typed
<1>3. \A k \in 1..Len(stack') : k = 1 \/ \E l \in 1..Len(stack) : k = l + 1
  <2> SUFFICES ASSUME NEW k \in 1..Len(stack'), k # 1 PROVE \E l \in 1..Len(stack) : k = l + 1
    OBVIOUS
  <2> k - 1 \in 1..Len(stack) /\ k = (k - 1) + 1
    BY <1>2
  <2> QED
    OBVIOUS
<1>4. \A k \in 1..Len(stack) : /\ Pending(nodes', stack[k]) = Pending(nodes, stack[k])
                               /\ Shaped(nodes', stack[k]) = Shaped(nodes, stack[k])
  BY NodesOfStack, Remembered DEF Typed
<1>5. \A k \in 1..Len(stack') : /\ stack'[k].role = "top" <=> k = Len(stack')
                                /\ Shaped(nodes', stack'[k])
  <2> SUFFICES ASSUME NEW k \in 1..Len(stack')
               PROVE  (stack'[k].role = "top" <=> k = Len(stack')) /\ Shaped(nodes', stack'[k])
    OBVIOUS
  <2>1. CASE k = 1
    BY <2>1, <1>2, TopOfStack
  <2>2. CASE \E l \in 1..Len(stack) : k = l + 1
    BY <2>2, <1>2, <1>4 DEF Stacked
  <2> QED
    BY <2>1, <2>2, <1>3
<1>6. \A k \in 1 .. Len(stack') - 1 :
        /\ stack'[k].node \in 1..Len(nodes')
        /\ nodes'[stack'[k].node].parent = stack'[k + 1].node
        /\ nodes'[stack'[k].node].role = stack'[k + 1].role
  <2> SUFFICES ASSUME NEW k \in 1 .. Len(stack') - 1
               PROVE  /\ stack'[k].node \in 1..Len(nodes')
                      /\ nodes'[stack'[k].node].parent = stack'[k + 1].node
                      /\ nodes'[stack'[k].node].role = stack'[k + 1].role
    OBVIOUS
  <2>1. CASE k = 1
    <3>1. stack'[k + 1] = Top
      BY <2>1, <1>2, TopOfStack
    <3> QED
      BY <2>1, <3>1, <1>1, <1>2 DEF Here
  <2>2. CASE k # 1
    <3>1. PICK l \in 1..Len(stack) : k = l + 1
      BY <2>2, <1>2, <1>3
    <3>2. l \in 1 .. Len(stack) - 1 /\ l + 1 \in 1..Len(stack)
      BY <3>1, <1>2
    <3>3. stack'[k] = stack[l] /\ stack'[k + 1] = stack[l + 1]
      BY <3>1, <3>2, <1>2
    <3>4. /\ stack[l].node \in 1..Len(nodes)
          /\ nodes[stack[l].node].parent = stack[l + 1].node
          /\ nodes[stack[l].node].role = stack[l + 1].role
      BY <3>2 DEF Stacked
    <3>5. stack[l].node \in 1..Len(nodes') /\ nodes'[stack[l].node] = nodes[stack[l].node]
      BY <3>4, <1>1
    <3> QED
      BY <3>3, <3>4, <3>5
  <2> QED
    BY <2>1, <2>2
<1>7. Stacked'
  <2>1. stack' # << >>
    BY <1>2
  <2> QED
    BY <2>1, <1>5, <1>6 DEF Stacked
<1>8. PendingOf(nodes', stack') = <<Pending(nodes', f)>> \o PendingOf(nodes, stack)
  <2> DEFINE P == PendingOf(nodes, stack)
         S == {Pending(nodes, stack[k]) : k \in 1..Len(stack)}
  <2>1. P \in Seq(S) /\ Len(P) = Len(stack)
        /\ \A k \in 1..Len(stack) : P[k] = Pending(nodes, stack[k])
    <3>1. \A k \in 1..Len(stack) : Pending(nodes, stack[k]) \in S
      OBVIOUS
    <3> HIDE DEF S
    <3> QED
      BY <3>1, <1>2 DEF PendingOf
  <2> HIDE DEF P, S
  <2> DEFINE Q == <<Pending(nodes', f)>> \o P
  <2>2. /\ Len(Q) = Len(stack) + 1 /\ Q[1] = Pending(nodes', f)
        /\ \A k \in 1..Len(stack) : Q[k + 1] = P[k]
        /\ Q = [k \in 1..(Len(stack) + 1) |-> Q[k]]
    BY <2>1, <1>2
  <2> HIDE DEF Q
  <2>3. \A k \in 1..Len(stack') : Q[k] = Pending(nodes', stack'[k])
    <3> SUFFICES ASSUME NEW k \in 1..Len(stack') PROVE Q[k] = Pending(nodes', stack'[k])
      OBVIOUS
    <3>1. CASE k = 1
      BY <3>1, <2>2, <1>2
    <3>2. CASE \E l \in 1..Len(stack) : k = l + 1
      BY <3>2, <2>1, <2>2, <1>2, <1>4, ZenonT(60)
    <3> QED
      BY <3>1, <3>2, <1>3
  <2> QED
    BY <2>2, <2>3, <1>2 DEF PendingOf, P, Q
<1>9. Top' = f
  BY <1>2, SMTT(60) DEF Top
<1>10. QED
  BY <1>1, <1>2, <1>7, <1>8, <1>9

\* The blocks that wait are a sequence over the calls.
LEMMA PendingSeq ==
  ASSUME NEW ns, NEW st \in Seq(Frames)
  PROVE  \E S : /\ PendingOf(ns, st) \in Seq(S) /\ Len(PendingOf(ns, st)) = Len(st)
                /\ \A k \in 1..Len(st) : PendingOf(ns, st)[k] = Pending(ns, st[k])
<1> DEFINE S == {Pending(ns, st[k]) : k \in 1..Len(st)}
<1>1. \A k \in 1..Len(st) : Pending(ns, st[k]) \in S
  OBVIOUS
<1> HIDE DEF S
<1>2. /\ PendingOf(ns, st) \in Seq(S) /\ Len(PendingOf(ns, st)) = Len(st)
      /\ \A k \in 1..Len(st) : PendingOf(ns, st)[k] = Pending(ns, st[k])
  BY <1>1 DEF PendingOf
<1>3. QED
  BY <1>2

\* The innermost call goes on with another part of its node.
LEMMA SwapsFrame ==
  ASSUME Typed, Stacked, nodes' = nodes, Top.role # "top",
         NEW f \in Frames, f.node = Top.node, f.role # "top", Shaped(nodes, f),
         stack' = <<f>> \o Tail(stack)
  PROVE  /\ stack' \in Seq(Frames) /\ Stacked'
         /\ PendingOf(nodes', stack') = <<Pending(nodes, f)>> \o Tail(PendingOf(nodes, stack))
<1>1. /\ stack' \in Seq(Frames) /\ Len(stack') = Len(stack) /\ Len(stack) \in Nat
      /\ stack'[1] = f /\ Len(stack) >= 2
      /\ \A k \in 1..Len(stack) : k # 1 => stack'[k] = stack[k]
  BY TopOfStack DEF Typed
<1>2. stack[1] = Top /\ Top.node \in 1..Len(nodes) /\ nodes[Top.node].parent = stack[2].node
      /\ nodes[Top.node].role = stack[2].role
  BY TopOfStack
<1>3. \A k \in 1..Len(stack') : /\ stack'[k].role = "top" <=> k = Len(stack')
                                /\ Shaped(nodes', stack'[k])
  <2> SUFFICES ASSUME NEW k \in 1..Len(stack')
               PROVE  (stack'[k].role = "top" <=> k = Len(stack')) /\ Shaped(nodes', stack'[k])
    OBVIOUS
  <2>1. CASE k = 1
    BY <2>1, <1>1
  <2>2. CASE k # 1
    <3>1. stack'[k] = stack[k] /\ k \in 1..Len(stack)
      BY <2>2, <1>1
    <3> QED
      BY <3>1, <1>1 DEF Stacked
  <2> QED
    BY <2>1, <2>2
<1>4. \A k \in 1 .. Len(stack') - 1 :
        /\ stack'[k].node \in 1..Len(nodes')
        /\ nodes'[stack'[k].node].parent = stack'[k + 1].node
        /\ nodes'[stack'[k].node].role = stack'[k + 1].role
  <2> SUFFICES ASSUME NEW k \in 1 .. Len(stack') - 1
               PROVE  /\ stack'[k].node \in 1..Len(nodes')
                      /\ nodes'[stack'[k].node].parent = stack'[k + 1].node
                      /\ nodes'[stack'[k].node].role = stack'[k + 1].role
    OBVIOUS
  <2>1. k \in 1 .. Len(stack) - 1 /\ k \in 1..Len(stack) /\ k + 1 \in 1..Len(stack) /\ k + 1 # 1
    BY <1>1
  <2>2. stack'[k].node = stack[k].node /\ stack'[k + 1] = stack[k + 1]
    BY <2>1, <1>1, <1>2
  <2> QED
    BY <2>1, <2>2 DEF Stacked
<1>5. Stacked'
  <2>1. stack' # << >>
    BY <1>1
  <2> QED
    BY <2>1, <1>3, <1>4 DEF Stacked
<1>6. PendingOf(nodes', stack') = <<Pending(nodes, f)>> \o Tail(PendingOf(nodes, stack))
  <2> DEFINE P == PendingOf(nodes, stack)
  <2>1. PICK S : /\ P \in Seq(S) /\ Len(P) = Len(stack)
                 /\ \A k \in 1..Len(stack) : P[k] = Pending(nodes, stack[k])
    BY PendingSeq DEF Typed
  <2> HIDE DEF P
  <2> DEFINE Q == <<Pending(nodes, f)>> \o Tail(P)
  <2>2. /\ Len(Q) = Len(stack) /\ Q[1] = Pending(nodes, f)
        /\ \A k \in 1..Len(stack) : k # 1 => Q[k] = P[k]
        /\ Q = [k \in 1..Len(stack) |-> Q[k]]
    BY <2>1, <1>1
  <2> HIDE DEF Q
  <2>3. \A k \in 1..Len(stack') : Q[k] = Pending(nodes', stack'[k])
    BY <2>1, <2>2, <1>1
  <2> QED
    BY <2>2, <2>3, <1>1 DEF PendingOf, P, Q
<1>7. QED
  BY <1>1, <1>5, <1>6

\* It returns.
LEMMA PopsFrame ==
  ASSUME Typed, Stacked, nodes' = nodes, Top.role # "top", stack' = Tail(stack)
  PROVE  /\ stack' \in Seq(Frames) /\ Stacked' /\ Top' = stack[2]
         /\ PendingOf(nodes', stack') = Tail(PendingOf(nodes, stack))
<1>1. /\ stack' \in Seq(Frames) /\ Len(stack') = Len(stack) - 1 /\ Len(stack) \in Nat
      /\ Len(stack) >= 2
      /\ \A k \in 1..Len(stack') : stack'[k] = stack[k + 1] /\ k + 1 \in 1..Len(stack)
  BY TopOfStack DEF Typed
<1>2. \A k \in 1..Len(stack') : /\ stack'[k].role = "top" <=> k = Len(stack')
                                /\ Shaped(nodes', stack'[k])
  <2> SUFFICES ASSUME NEW k \in 1..Len(stack')
               PROVE  (stack'[k].role = "top" <=> k = Len(stack')) /\ Shaped(nodes', stack'[k])
    OBVIOUS
  <2>1. stack'[k] = stack[k + 1] /\ k + 1 \in 1..Len(stack) /\ (k + 1 = Len(stack) <=> k = Len(stack'))
    BY <1>1
  <2> QED
    BY <2>1 DEF Stacked
<1>3. \A k \in 1 .. Len(stack') - 1 :
        /\ stack'[k].node \in 1..Len(nodes')
        /\ nodes'[stack'[k].node].parent = stack'[k + 1].node
        /\ nodes'[stack'[k].node].role = stack'[k + 1].role
  <2> SUFFICES ASSUME NEW k \in 1 .. Len(stack') - 1
               PROVE  /\ stack'[k].node \in 1..Len(nodes')
                      /\ nodes'[stack'[k].node].parent = stack'[k + 1].node
                      /\ nodes'[stack'[k].node].role = stack'[k + 1].role
    OBVIOUS
  <2>1. k + 1 \in 1 .. Len(stack) - 1 /\ stack'[k] = stack[k + 1] /\ stack'[k + 1] = stack[(k + 1) + 1]
    BY <1>1
  <2> QED
    BY <2>1 DEF Stacked
<1>4. stack' # << >> /\ Top' = stack[2]
  <2>1. 1 \in 1..Len(stack') /\ stack'[1] = stack[2]
    BY <1>1
  <2> QED
    BY <2>1, <1>1 DEF Top
<1>5. Stacked'
  BY <1>2, <1>3, <1>4 DEF Stacked
<1>6. PendingOf(nodes', stack') = Tail(PendingOf(nodes, stack))
  <2> DEFINE P == PendingOf(nodes, stack)
  <2>1. PICK S : /\ P \in Seq(S) /\ Len(P) = Len(stack)
                 /\ \A k \in 1..Len(stack) : P[k] = Pending(nodes, stack[k])
    BY PendingSeq DEF Typed
  <2> HIDE DEF P
  <2>2. /\ Len(Tail(P)) = Len(stack) - 1 /\ Tail(P) = [k \in 1 .. Len(stack) - 1 |-> P[k + 1]]
    <3>1. P # << >>
      BY <2>1, <1>1
    <3>2. /\ Tail(P) \in Seq(S) /\ Len(Tail(P)) = Len(stack) - 1
          /\ \A k \in 1 .. Len(stack) - 1 : Tail(P)[k] = P[k + 1]
      BY <3>1, <2>1, HeadTailProperties
    <3>3. \A s \in Seq(S) : s = [k \in 1..Len(s) |-> s[k]]
      OBVIOUS
    <3> QED
      BY <3>2, <3>3
  <2> QED
    BY <2>1, <2>2, <1>1 DEF PendingOf, P
<1>7. QED
  BY <1>1, <1>4, <1>5, <1>6
-----------------------------------------------------------------------------
(* What a step changes of the blocks; the parts of PInv it has to restore. *)

\* The block the builder works on is one of the function.
LEMMA InsertBlock ==
  ASSUME PInv
  PROVE  /\ insert \in 1..Len(blocks) /\ Len(blocks) \in Nat /\ Len(nodes) \in Nat
         /\ PendingOf(nodes, stack) # << >> /\ PendingOf(nodes, stack)[1] = Pending(nodes, Top)
         /\ layout # << >>
<1>1. insert \in 1..Len(blocks) /\ layout # << >>
  BY DEF PInv, Positioned, Placed, Once
<1>2. Len(blocks) \in Nat /\ Len(nodes) \in Nat
  BY DEF PInv, Typed
<1>3. PICK S : /\ PendingOf(nodes, stack) \in Seq(S) /\ Len(PendingOf(nodes, stack)) = Len(stack)
               /\ \A k \in 1..Len(stack) : PendingOf(nodes, stack)[k] = Pending(nodes, stack[k])
  BY PendingSeq DEF PInv, Typed
<1>4. Len(stack) \in Nat /\ 1 \in 1..Len(stack) /\ Top = stack[1]
  BY TopOfStack DEF PInv
<1>5. QED
  BY <1>1, <1>2, <1>3, <1>4

LEMMA NewNode ==
  ASSUME PInv, NEW k \in Kinds, Add(k)
  PROVE  /\ Here \in Nat /\ nodes' \in Seq(Nodes)
         /\ \E n \in Nodes : /\ nodes' = Append(nodes, n) /\ nodes'[Here] = n
                             /\ n.kind = k /\ n.parent = Top.node /\ n.role = Top.role
<1> DEFINE n == [kind |-> k, parent |-> Top.node, role |-> Top.role]
<1>1. n \in Nodes /\ n.kind = k /\ n.parent = Top.node /\ n.role = Top.role
  BY TopOfStack DEF PInv, Nodes, Frames
<1>2. nodes' = Append(nodes, n)
  BY DEF Add
<1> HIDE DEF n
<1>3. Here \in Nat /\ nodes' \in Seq(Nodes) /\ nodes'[Here] = n
  BY <1>1, <1>2 DEF Here, PInv, Typed
<1>4. QED
  BY <1>1, <1>2, <1>3

\* Instructions the generator emits where it is.
LEMMA Emits ==
  ASSUME PInv, NEW s \in Blocks, NEW bs, bs = Emitted(blocks, insert, s)
  PROVE  bs \in Seq(Blocks) /\ Len(bs) = Len(blocks)
BY InsertBlock, EmittedBlocks DEF PInv, Typed

LEMMA Allocates ==
  ASSUME PInv, NEW slot \in Nat, NEW init \in Instructions
  PROVE  /\ Allocated(blocks, insert, slot, init) \in Seq(Blocks)
         /\ Len(Allocated(blocks, insert, slot, init)) = Len(blocks)
<1>1. insert \in 1..Len(blocks) /\ blocks \in Seq(Blocks)
  BY InsertBlock DEF PInv, Typed
<1>2. QED
  BY <1>1, AllocatedBlocks

LEMMA Branches ==
  ASSUME NEW a \in Nat, NEW b \in Nat, got \in Nat
  PROVE  /\ CondBr(a, b) \in Blocks /\ <<Instr("br", 0, 0, <<a>>)>> \in Blocks
         /\ Len(CondBr(a, b)) = 1 /\ CondBr(a, b)[1].op = "condbr"
<1>1. <<a, b>> \in Seq(Nat) /\ <<a>> \in Seq(Nat) /\ "condbr" \in Ops /\ "br" \in Ops
  BY DEF Ops, Terminators
<1>2. Instr("condbr", 0, got, <<a, b>>) \in Instructions /\ Instr("br", 0, 0, <<a>>) \in Instructions
  BY <1>1 DEF Instr, Instructions
<1>3. QED
  BY <1>2 DEF CondBr, Blocks, Instr

LEMMA OneInstr ==
  ASSUME NEW op \in Ops, NEW i \in Nat, NEW s \in Nat
  PROVE  <<Instr(op, i, s, << >>)>> \in Blocks /\ Instr(op, i, s, << >>) \in Instructions
<1>1. << >> \in Seq(Nat)
  OBVIOUS
<1>2. Instr(op, i, s, << >>) \in Instructions
  BY <1>1 DEF Instr, Instructions
<1>3. QED
  BY <1>2 DEF Blocks

\* A block is appended and the builder goes to its end.
LEMMA Places ==
  ASSUME PInv, NEW b \in Nat, Place(<<b>>)
  PROVE  layout' = layout \o <<b>> /\ insert' = b /\ layout' \in Seq(Nat)
BY DEF Place, PInv, Typed

\* What an action that places nothing and calls nothing leaves to show.
LEMMA SamePlaces ==
  ASSUME PInv, phase = "build", phase' = "build", blocks' \in Seq(Blocks), Len(blocks') = Len(blocks),
         layout' = layout, insert' = insert, got' \in Nat,
         nodes' \in Seq(Nodes), stack' \in Seq(Frames), Stacked',
         PendingOf(nodes', stack') = PendingOf(nodes, stack)
  PROVE  PInv'
<1>1. Typed'
  BY DEF PInv, Typed
<1>2. Placed' /\ Positioned' /\ Complete'
  BY DEF PInv, Placed, Positioned, Complete
<1>3. QED
  BY <1>1, <1>2 DEF PInv

LEMMA PCallStatement ==
  ASSUME PInv, CallStatement \/ ReturnVoid PROVE PInv'
<1>1. PICK k \in {"call", "ret"} :
        Add(k) /\ blocks' = Emitted(blocks, insert, <<Instr(k, Here, 0, << >>)>>)
  BY DEF CallStatement, ReturnVoid
<1>2. k \in Kinds /\ k \in Ops
  BY DEF Kinds, Ops, Terminators
<1>3. /\ phase = "build" /\ phase' = "build" /\ layout' = layout /\ insert' = insert
      /\ stack' = stack /\ got' = got /\ got \in Nat /\ Typed /\ Stacked
  BY DEF CallStatement, ReturnVoid, StatementWanted, InBlock, PInv, Typed
<1>4. PICK n \in Nodes : nodes' = Append(nodes, n) /\ Here \in Nat
  BY <1>1, <1>2, NewNode
<1>5. blocks' \in Seq(Blocks) /\ Len(blocks') = Len(blocks)
  BY <1>1, <1>2, <1>4, OneInstr, Emits
<1>6. nodes' \in Seq(Nodes) /\ Stacked' /\ PendingOf(nodes', stack') = PendingOf(nodes, stack)
  BY <1>3, <1>4, AddsLeaf
<1>7. stack' \in Seq(Frames)
  BY <1>3 DEF Typed
<1>8. QED
  BY <1>3, <1>5, <1>6, <1>7, SamePlaces

LEMMA POperand ==
  ASSUME PInv, Operand PROVE PInv'
<1>1. Add("atom") /\ blocks' = Allocated(blocks, insert, Here, Instr("atom", Here, 0, << >>))
  BY DEF Operand
<1>2. "atom" \in Kinds /\ "atom" \in Ops
  BY DEF Kinds, Ops
<1>3. /\ phase = "build" /\ phase' = "build" /\ layout' = layout /\ insert' = insert
      /\ stack' = stack /\ got' = Here /\ Typed /\ Stacked
  BY DEF Operand, OperandWanted, PInv
<1>4. PICK n \in Nodes : nodes' = Append(nodes, n) /\ Here \in Nat
  BY <1>1, <1>2, NewNode
<1>5. blocks' \in Seq(Blocks) /\ Len(blocks') = Len(blocks)
  <2>1. Instr("atom", Here, 0, << >>) \in Instructions
    BY <1>2, <1>4, OneInstr
  <2> QED
    BY <2>1, <1>1, <1>4, Allocates
<1>6. nodes' \in Seq(Nodes) /\ Stacked' /\ PendingOf(nodes', stack') = PendingOf(nodes, stack)
  BY <1>3, <1>4, AddsLeaf
<1>7. stack' \in Seq(Frames)
  BY <1>3 DEF Typed
<1>8. QED
  BY <1>3, <1>4, <1>5, <1>6, <1>7, SamePlaces

\* A call that creates no block: the expression of a statement, the operand of !.
LEMMA PPushPlain ==
  ASSUME PInv, phase = "build", phase' = "build", NEW k \in Kinds, Add(k),
         NEW r \in {"value", "operand"}, stack' = <<Frame(Here, r, << >>)>> \o stack,
         blocks' = blocks, layout' = layout, insert' = insert, got' = got
  PROVE  PInv'
<1> DEFINE f == Frame(Here, r, << >>)
<1>1. PICK n \in Nodes : /\ nodes' = Append(nodes, n) /\ n.parent = Top.node /\ n.role = Top.role
                         /\ Here \in Nat
  BY NewNode
<1>2. /\ f \in Frames /\ f.node = Here /\ f.role # "top" /\ Shaped(nodes', f)
      /\ Pending(nodes', f) = {}
  <2>1. << >> \in Seq(Nat) /\ r \in Roles
    BY DEF Roles
  <2> QED
    BY <2>1, <1>1 DEF Frames, Frame, Shaped, Pending
<1> HIDE DEF f
<1>3. stack' = <<f>> \o stack
  BY DEF f
<1>4. /\ nodes' \in Seq(Nodes) /\ stack' \in Seq(Frames) /\ Stacked'
      /\ PendingOf(nodes', stack') = <<Pending(nodes', f)>> \o PendingOf(nodes, stack)
  BY <1>1, <1>2, <1>3, PushesFrame DEF PInv
<1>5. Len(blocks) \in Nat /\ Once(Len(blocks), layout, PendingOf(nodes, stack))
      /\ {} = Len(blocks) + 1 .. Len(blocks) /\ Len(blocks) <= Len(blocks)
  BY DEF PInv, Placed, Typed
<1>6. Once(Len(blocks), layout, <<{}>> \o PendingOf(nodes, stack))
  BY <1>5, Creates, Zenon
<1>7. Typed'
  BY <1>4 DEF PInv, Typed
<1>8. Placed' /\ Positioned' /\ Complete'
  BY <1>2, <1>4, <1>6 DEF PInv, Placed, Positioned, Complete
<1>9. QED
  BY <1>4, <1>7, <1>8 DEF PInv

LEMMA PValueStatement ==
  ASSUME PInv, ValueStatement \/ BooleanNot PROVE PInv'
<1>1. CASE ValueStatement
  <2>1. PICK k \in {"set", "retval"} : Add(k)
    BY <1>1 DEF ValueStatement
  <2>2. k \in Kinds
    BY DEF Kinds
  <2> QED
    BY <2>1, <2>2, <1>1, PPushPlain DEF ValueStatement, StatementWanted, InBlock
<1>2. CASE BooleanNot
  <2>1. "not" \in Kinds
    BY DEF Kinds
  <2> QED
    BY <2>1, <1>2, PPushPlain DEF BooleanNot, OperandWanted
<1>3. QED
  BY <1>1, <1>2

\* A call that creates k blocks: a conditional, && and ||.
LEMMA PPushBlocks ==
  ASSUME PInv, phase = "build", phase' = "build", NEW kind \in Kinds, Add(kind),
         NEW r \in Roles, r # "top", NEW bbs \in Seq(Nat), NEW f, f = Frame(Here, r, bbs),
         stack' = <<f>> \o stack,
         NEW k \in Nat, NEW bs \in Seq(Blocks), Len(bs) = Len(blocks), blocks' = Created(bs, k),
         Shaped(nodes', f), Pending(nodes', f) = Len(blocks) + 1 .. Len(blocks) + k,
         layout' = layout, insert' = insert, got' = got
  PROVE  PInv'
<1>1. PICK n \in Nodes : /\ nodes' = Append(nodes, n) /\ n.parent = Top.node /\ n.role = Top.role
                         /\ Here \in Nat
  BY NewNode
<1>2. f \in Frames /\ f.node = Here /\ f.role # "top"
  BY <1>1 DEF Frames, Frame
<1>3. /\ nodes' \in Seq(Nodes) /\ stack' \in Seq(Frames) /\ Stacked'
      /\ PendingOf(nodes', stack') = <<Pending(nodes', f)>> \o PendingOf(nodes, stack)
  BY <1>1, <1>2, PushesFrame DEF PInv
<1>4. Len(blocks) \in Nat /\ Once(Len(blocks), layout, PendingOf(nodes, stack))
      /\ Len(blocks) + k \in Nat /\ Len(blocks) <= Len(blocks) + k
  BY DEF PInv, Placed, Typed
<1>5. Once(Len(blocks) + k, layout, <<Pending(nodes', f)>> \o PendingOf(nodes, stack))
  BY <1>4, Creates, Zenon
<1>6. blocks' \in Seq(Blocks) /\ Len(blocks') = Len(blocks) + k
  BY CreatedBlocks
<1>7. Typed'
  BY <1>3, <1>6 DEF PInv, Typed
<1>8. Placed' /\ Positioned' /\ Complete'
  BY <1>3, <1>5, <1>6 DEF PInv, Placed, Positioned, Complete
<1>9. QED
  BY <1>3, <1>7, <1>8 DEF PInv

LEMMA PConditional ==
  ASSUME PInv, Conditional PROVE PInv'
<1> DEFINE body == Len(blocks) + 1
           End(has_else) == IF has_else THEN body + 2 ELSE body + 1
<1>1. PICK has_else \in BOOLEAN :
        /\ blocks' = Created(blocks, End(has_else) - Len(blocks))
        /\ stack' = <<Frame(Here, "cond", <<body, body + 1, End(has_else)>>)>> \o stack
  BY DEF Conditional
<1> DEFINE end == End(has_else)
           bbs == <<body, body + 1, end>>
           f == Frame(Here, "cond", bbs)
<1>2. /\ phase = "build" /\ phase' = "build" /\ Add("if") /\ layout' = layout /\ insert' = insert
      /\ got' = got /\ "if" \in Kinds /\ "cond" \in Roles
  BY DEF Conditional, StatementWanted, InBlock, Kinds, Roles
<1>3. nodes'[Here].kind = "if"
  BY <1>2, NewNode
<1>4. Len(blocks) \in Nat /\ blocks \in Seq(Blocks)
  BY DEF PInv, Typed
<1>5. /\ end \in {body + 1, body + 2} /\ end - Len(blocks) \in Nat
      /\ Len(blocks) + (end - Len(blocks)) = end
  BY <1>4
<1>6. {body, body + 1, end} = body .. end
  BY <1>4, <1>5
<1>7. bbs \in Seq(Nat) /\ Len(bbs) = 3 /\ bbs[1] = body /\ bbs[2] = body + 1 /\ bbs[3] = end
  BY <1>4, <1>5
<1>8. f.role = "cond" /\ f.node = Here /\ f.bbs = bbs
  BY DEF Frame
<1> HIDE DEF end, bbs
<1>9. Shaped(nodes', f)
  BY <1>3, <1>4, <1>5, <1>7, <1>8, SMTT(60) DEF Shaped
<1>10. Pending(nodes', f) = {body, body + 1, end}
  BY <1>3, <1>7, <1>8 DEF Pending
<1>11. Pending(nodes', f) = Len(blocks) + 1 .. Len(blocks) + (end - Len(blocks))
  BY <1>5, <1>6, <1>10
<1>12. /\ f = Frame(Here, "cond", bbs) /\ stack' = <<f>> \o stack
       /\ blocks' = Created(blocks, end - Len(blocks)) /\ "cond" # "top"
  BY <1>1 DEF end, bbs
<1> HIDE DEF f, body
<1>13. QED
  BY <1>2, <1>4, <1>5, <1>7, <1>9, <1>11, <1>12, PPushBlocks

LEMMA PShortCircuit ==
  ASSUME PInv, ShortCircuit PROVE PInv'
<1>1. PICK op \in {"and", "or"} :
        /\ Add(op)
        /\ blocks' = Created(Allocated(blocks, insert, Here,
                               Instr(IF op = "and" THEN "false" ELSE "true", Here, 0, << >>)), 2)
  BY DEF ShortCircuit
<1> DEFINE init == Instr(IF op = "and" THEN "false" ELSE "true", Here, 0, << >>)
           bs == Allocated(blocks, insert, Here, init)
           bbs == <<Len(blocks) + 1, Len(blocks) + 2>>
           f == Frame(Here, "lhs", bbs)
<1>2. /\ phase = "build" /\ phase' = "build" /\ layout' = layout /\ insert' = insert
      /\ got' = got /\ op \in Kinds /\ "lhs" \in Roles /\ "lhs" # "top" /\ stack' = <<f>> \o stack
  BY DEF ShortCircuit, OperandWanted, Kinds, Roles
<1>3. Len(blocks) \in Nat /\ blocks \in Seq(Blocks) /\ Here \in Nat
  BY <1>1, <1>2, NewNode DEF PInv, Typed
<1>4. init \in Instructions
  BY <1>3, OneInstr DEF Ops
<1> HIDE DEF init
<1>5. bs \in Seq(Blocks) /\ Len(bs) = Len(blocks) /\ blocks' = Created(bs, 2)
  BY <1>1, <1>3, <1>4, Allocates DEF init
<1>6. bbs \in Seq(Nat) /\ Len(bbs) = 2 /\ bbs[1] = Len(blocks) + 1 /\ bbs[2] = Len(blocks) + 2
  BY <1>3
<1>7. f.role = "lhs" /\ f.node = Here /\ f.bbs = bbs /\ f = Frame(Here, "lhs", bbs)
  BY DEF Frame
<1> HIDE DEF f, bbs, bs
<1>8. Shaped(nodes', f)
  BY <1>3, <1>6, <1>7 DEF Shaped
<1>9. Pending(nodes', f) = {Len(blocks) + 1, Len(blocks) + 2}
  BY <1>6, <1>7 DEF Pending
<1>10. Pending(nodes', f) = Len(blocks) + 1 .. Len(blocks) + 2
  BY <1>3, <1>9
<1>11. 2 \in Nat
  OBVIOUS
<1>12. QED
  BY <1>1, <1>2, <1>5, <1>6, <1>7, <1>8, <1>10, <1>11, PPushBlocks

\* One that creates its three blocks and appends the first: a loop.
LEMMA PWhile ==
  ASSUME PInv, While PROVE PInv'
<1> DEFINE n == Len(blocks)
           cond == n + 1
           bbs == <<cond, cond + 1, cond + 2>>
           f == Frame(Here, "cond", bbs)
           bs == Created(blocks, 3)
           br == <<Instr("br", 0, 0, <<cond>>)>>
           P == <<Pending(nodes', f)>> \o PendingOf(nodes, stack)
           W == {cond, cond + 1, cond + 2}
           Q == <<W>> \o PendingOf(nodes, stack)
<1>1. /\ phase = "build" /\ phase' = "build" /\ Add("while") /\ got' = got /\ Place(<<cond>>)
      /\ blocks' = Emitted(bs, insert, br) /\ stack' = <<f>> \o stack
      /\ "while" \in Kinds /\ "cond" \in Roles /\ "cond" # "top"
  BY DEF While, StatementWanted, InBlock, Kinds, Roles
<1>2. Here \in Nat /\ n \in Nat /\ cond \in Nat /\ blocks \in Seq(Blocks) /\ 3 \in Nat
  BY <1>1, NewNode DEF PInv, Typed
<1>3. PICK nd \in Nodes : /\ nodes' = Append(nodes, nd) /\ nd.parent = Top.node
                          /\ nd.role = Top.role /\ nodes'[Here] = nd /\ nd.kind = "while"
  BY <1>1, NewNode
<1>4. bbs \in Seq(Nat) /\ Len(bbs) = 3 /\ bbs[1] = cond /\ bbs[2] = cond + 1 /\ bbs[3] = cond + 2
  BY <1>2
<1>5. f.role = "cond" /\ f.node = Here /\ f.bbs = bbs /\ f \in Frames
  BY <1>1, <1>2, <1>4 DEF Frame, Frames
<1>6. layout' = layout \o <<cond>> /\ insert' = cond /\ layout' \in Seq(Nat)
  BY <1>1, <1>2, Places
<1>7. br \in Blocks
  <2>1. Instr("br", 0, 0, <<cond>>) \in Instructions
    BY <1>2 DEF Instr, Instructions, Ops, Terminators
  <2> QED
    BY <2>1 DEF Blocks
<1> HIDE DEF f, bbs, br, bs
<1>8. Shaped(nodes', f)
  BY <1>2, <1>4, <1>5 DEF Shaped
<1>9. Pending(nodes', f) = {cond + 1, cond + 2}
  BY <1>3, <1>4, <1>5 DEF Pending
<1>10. /\ nodes' \in Seq(Nodes) /\ stack' \in Seq(Frames) /\ Stacked'
       /\ PendingOf(nodes', stack') = <<Pending(nodes', f)>> \o PendingOf(nodes, stack)
  BY <1>1, <1>3, <1>5, <1>8, PushesFrame DEF PInv
<1>11. bs \in Seq(Blocks) /\ Len(bs) = n + 3 /\ insert \in 1..Len(bs)
  <2>1. bs \in Seq(Blocks) /\ Len(bs) = Len(blocks) + 3
    BY <1>2, CreatedBlocks, Zenon DEF bs
  <2>2. insert \in 1..Len(blocks)
    BY InsertBlock
  <2> QED
    BY <1>2, <2>1, <2>2
<1>12. blocks' \in Seq(Blocks) /\ Len(blocks') = n + 3
  BY <1>1, <1>7, <1>11, EmittedBlocks
<1>13. Once(n + 3, layout, Q)
  <2>1. n + 3 \in Nat /\ n <= n + 3 /\ W = n + 1 .. n + 3
    BY <1>2
  <2>2. Once(n, layout, PendingOf(nodes, stack))
    BY DEF PInv, Placed
  <2> HIDE DEF W, n
  <2> QED
    BY <1>2, <2>1, <2>2, Creates, Zenon
<1>14. /\ Once(n + 3, layout \o <<cond>>, <<W \ {cond}>> \o Tail(Q))
       /\ \E k \in 1..Len(layout \o <<cond>>) : (layout \o <<cond>>)[k] = cond
  <2>1. Q # << >> /\ Q[1] = W /\ cond \in W /\ n + 3 \in Nat
    BY <1>2, <1>13 DEF Once
  <2> HIDE DEF W, n, Q, cond
  <2> QED
    BY <1>13, <2>1, Appends
<1>15. Tail(Q) = PendingOf(nodes, stack)
  <2>1. \E S : PendingOf(nodes, stack) \in Seq(S)
    BY PendingSeq DEF PInv, Typed
  <2>2. \A S, x : \A s \in Seq(S) : Tail(<<x>> \o s) = s
    OBVIOUS
  <2> QED
    BY <2>1, <2>2
<1>16. W \ {cond} = Pending(nodes', f)
  BY <1>2, <1>9
<1>17. Typed'
  BY <1>1, <1>2, <1>6, <1>10, <1>12 DEF PInv, Typed
<1>18. Placed' /\ Positioned' /\ Complete'
  BY <1>1, <1>6, <1>10, <1>12, <1>14, <1>15, <1>16 DEF Placed, Positioned, Complete
<1>19. QED
  BY <1>10, <1>17, <1>18 DEF PInv

\* The innermost call appends a block and goes on.
LEMMA PPlaceSwap ==
  ASSUME PInv, phase = "build", phase' = "build", got' \in Nat, nodes' = nodes,
         NEW b \in Pending(nodes, Top), Place(<<b>>), Top.role # "top",
         blocks' \in Seq(Blocks), Len(blocks') = Len(blocks),
         NEW r \in Roles, r # "top", stack' = <<Frame(Top.node, r, Top.bbs)>> \o Tail(stack),
         Shaped(nodes, Frame(Top.node, r, Top.bbs)),
         Pending(nodes, Frame(Top.node, r, Top.bbs)) = Pending(nodes, Top) \ {b}
  PROVE  PInv'
<1> DEFINE f == Frame(Top.node, r, Top.bbs)
           P == PendingOf(nodes, stack)
<1>1. f \in Frames /\ f.node = Top.node /\ f.role # "top"
  BY TopOfStack DEF PInv, Frame, Frames
<1> HIDE DEF f
<1>2. /\ stack' \in Seq(Frames) /\ Stacked'
      /\ PendingOf(nodes', stack') = <<Pending(nodes, f)>> \o Tail(P)
  BY <1>1, SwapsFrame DEF PInv, f
<1>3. /\ Len(blocks) \in Nat /\ Once(Len(blocks), layout, P) /\ P # << >> /\ b \in P[1]
      /\ Pending(nodes, f) = P[1] \ {b}
  BY InsertBlock DEF PInv, Placed, f
<1>4. /\ Once(Len(blocks), layout \o <<b>>, <<Pending(nodes, f)>> \o Tail(P))
      /\ \E k \in 1..Len(layout \o <<b>>) : (layout \o <<b>>)[k] = b
  <2> HIDE DEF P
  <2> QED
    BY <1>3, Appends, SMTT(60)
<1>5. b \in Nat
  BY <1>3 DEF Once
<1>6. layout' = layout \o <<b>> /\ insert' = b /\ layout' \in Seq(Nat)
  BY <1>5, Places
<1>7. Typed'
  BY <1>2, <1>5, <1>6 DEF PInv, Typed
<1>8. Placed' /\ Positioned' /\ Complete'
  BY <1>2, <1>4, <1>6 DEF Placed, Positioned, Complete
<1>9. QED
  BY <1>2, <1>7, <1>8 DEF PInv

\* The innermost call appends its last block and returns.
LEMMA PPlacePop ==
  ASSUME PInv, phase = "build", phase' = "build", got' \in Nat, nodes' = nodes,
         NEW b, Pending(nodes, Top) = {b}, Place(<<b>>), Top.role # "top",
         blocks' \in Seq(Blocks), Len(blocks') = Len(blocks), stack' = Tail(stack)
  PROVE  PInv'
<1> DEFINE P == PendingOf(nodes, stack)
           Q == <<{}>> \o Tail(P)
<1>1. stack' \in Seq(Frames) /\ Stacked' /\ PendingOf(nodes', stack') = Tail(P)
  BY PopsFrame DEF PInv
<1>2. /\ Len(blocks) \in Nat /\ Once(Len(blocks), layout, P) /\ P # << >> /\ b \in P[1]
      /\ {} = P[1] \ {b}
  BY InsertBlock DEF PInv, Placed
<1>3. /\ Once(Len(blocks), layout \o <<b>>, Q)
      /\ \E k \in 1..Len(layout \o <<b>>) : (layout \o <<b>>)[k] = b
  <2> HIDE DEF P
  <2> QED
    BY <1>2, Appends
<1>4. Q # << >> /\ Q[1] = {} /\ Tail(Q) = Tail(P)
  <2>1. \E S : P \in Seq(S)
    BY PendingSeq DEF PInv, Typed
  <2> HIDE DEF P
  <2>2. \E S : Tail(P) \in Seq(S)
    BY <2>1, <1>2
  <2>3. \A S, x : \A s \in Seq(S) : /\ <<x>> \o s # << >> /\ (<<x>> \o s)[1] = x
                                /\ Tail(<<x>> \o s) = s
    OBVIOUS
  <2> QED
    BY <2>2, <2>3
<1>5. Once(Len(blocks), layout \o <<b>>, Tail(P))
  <2>1. Once(Len(blocks), layout \o <<b>>, Tail(Q))
    <3> HIDE DEF Q
    <3> QED
      BY <1>2, <1>3, <1>4, GivesUp, Zenon
  <2> QED
    BY <2>1, <1>4
<1>6. b \in Nat
  BY <1>2 DEF Once
<1>7. layout' = layout \o <<b>> /\ insert' = b /\ layout' \in Seq(Nat)
  BY <1>6, Places
<1>8. Typed'
  BY <1>1, <1>6, <1>7 DEF PInv, Typed
<1>9. Placed' /\ Positioned' /\ Complete'
  BY <1>1, <1>3, <1>5, <1>7 DEF Placed, Positioned, Complete
<1>10. QED
  BY <1>1, <1>8, <1>9 DEF PInv

\* It returns without appending one.
LEMMA PPop ==
  ASSUME PInv, phase = "build", phase' = "build", got' \in Nat, nodes' = nodes,
         Pending(nodes, Top) = {}, Top.role # "top", layout' = layout, insert' = insert,
         blocks' \in Seq(Blocks), Len(blocks') = Len(blocks), stack' = Tail(stack)
  PROVE  PInv'
<1> DEFINE P == PendingOf(nodes, stack)
<1>1. stack' \in Seq(Frames) /\ Stacked' /\ PendingOf(nodes', stack') = Tail(P)
  BY PopsFrame DEF PInv
<1>2. Len(blocks) \in Nat /\ Once(Len(blocks), layout, P) /\ P # << >> /\ P[1] = {}
  BY InsertBlock DEF PInv, Placed
<1>3. Once(Len(blocks), layout, Tail(P))
  <2> HIDE DEF P
  <2> QED
    BY <1>2, GivesUp, Zenon
<1>4. Typed'
  BY <1>1 DEF PInv, Typed
<1>5. Placed' /\ Positioned' /\ Complete'
  BY <1>1, <1>3 DEF PInv, Placed, Positioned, Complete
<1>6. QED
  BY <1>1, <1>4, <1>5 DEF PInv
-----------------------------------------------------------------------------
(* The steps that come back to a call.                                     *)

LEMMA PConditionDone ==
  ASSUME PInv, ConditionDone PROVE PInv'
<1> DEFINE f == Top.bbs
           g(r) == Frame(Top.node, r, f)
<1>1. /\ phase = "build" /\ phase' = "build" /\ Top.role = "cond" /\ got' = 0 /\ nodes' = nodes
      /\ got \in Nat
  BY DEF ConditionDone, Returned, PInv, Typed
<1>2. Len(f) = 3 /\ f \in Seq(Nat) /\ f[1] < f[2] /\ f[2] <= f[3]
      /\ f[1] \in Nat /\ f[2] \in Nat /\ f[3] \in Nat
  <2>1. Shaped(nodes, Top) /\ Top \in Frames
    BY TopOfStack DEF PInv
  <2>2. Len(f) = 3 /\ f \in Seq(Nat) /\ f[1] < f[2] /\ f[2] <= f[3]
    BY <2>1, <1>1 DEF Shaped, Frames
  <2> QED
    BY <2>2
<1>3. \A r : g(r).role = r /\ g(r).node = Top.node /\ g(r).bbs = f
  BY DEF Frame
<1>4. CASE nodes[Top.node].kind = "while"
  <2>1. /\ blocks' = Emitted(blocks, insert, CondBr(f[2], f[3])) /\ Place(<<f[2]>>)
        /\ stack' = <<g("body")>> \o Tail(stack)
    BY <1>4 DEF ConditionDone
  <2>2. blocks' \in Seq(Blocks) /\ Len(blocks') = Len(blocks)
    BY <2>1, <1>1, <1>2, Branches, Emits
  <2>3. f[2] < f[3]
    BY <1>1, <1>4, TopOfStack DEF Shaped, PInv
  <2>4. Pending(nodes, Top) = {f[2], f[3]}
    BY <1>1, <1>4 DEF Pending
  <2> HIDE DEF f, g
  <2>5. Shaped(nodes, g("body")) /\ Pending(nodes, g("body")) = {f[3]}
    BY <1>2, <1>3, <2>3 DEF Shaped, Pending
  <2>6. Pending(nodes, g("body")) = Pending(nodes, Top) \ {f[2]} /\ f[2] \in Pending(nodes, Top)
    BY <1>2, <2>3, <2>4, <2>5
  <2> QED
    BY <1>1, <2>1, <2>2, <2>5, <2>6, PPlaceSwap DEF Roles, BlockRoles, f, g
<1>5. CASE nodes[Top.node].kind # "while"
  <2>1. /\ blocks' = Emitted(blocks, insert, CondBr(f[1], f[2])) /\ Place(<<f[1]>>)
        /\ stack' = <<g("then")>> \o Tail(stack)
    BY <1>5 DEF ConditionDone
  <2>2. blocks' \in Seq(Blocks) /\ Len(blocks') = Len(blocks)
    BY <2>1, <1>1, <1>2, Branches, Emits
  <2>4. Pending(nodes, Top) = {f[1], f[2], f[3]}
    BY <1>1, <1>5 DEF Pending
  <2> HIDE DEF f, g
  <2>5. Shaped(nodes, g("then")) /\ Pending(nodes, g("then")) = {f[2], f[3]}
    BY <1>2, <1>3 DEF Shaped, Pending
  <2>6. Pending(nodes, g("then")) = Pending(nodes, Top) \ {f[1]} /\ f[1] \in Pending(nodes, Top)
    BY <1>2, <2>4, <2>5
  <2> QED
    BY <1>1, <2>1, <2>2, <2>5, <2>6, PPlaceSwap DEF Roles, BlockRoles, f, g
<1>6. QED
  BY <1>4, <1>5

LEMMA PLeftDone ==
  ASSUME PInv, LeftDone PROVE PInv'
<1> DEFINE f == Top.bbs
           g == Frame(Top.node, "rhs", f)
<1>1. /\ phase = "build" /\ phase' = "build" /\ Top.role = "lhs" /\ got' = 0 /\ nodes' = nodes
      /\ blocks' = Emitted(blocks, insert, ShortTargets(nodes[Top.node].kind, f[1], f[2]))
      /\ Place(<<f[1]>>) /\ stack' = <<g>> \o Tail(stack)
      /\ got \in Nat
  BY DEF LeftDone, Returned, PInv, Typed
<1>2. Len(f) = 2 /\ f \in Seq(Nat) /\ f[1] < f[2] /\ f[1] \in Nat /\ f[2] \in Nat
  <2>1. Shaped(nodes, Top) /\ Top \in Frames
    BY TopOfStack DEF PInv
  <2>2. Len(f) = 2 /\ f \in Seq(Nat) /\ f[1] < f[2]
    BY <2>1, <1>1 DEF Shaped, Frames
  <2> QED
    BY <2>2
<1>3. g.role = "rhs" /\ g.node = Top.node /\ g.bbs = f
  BY DEF Frame
<1>4. blocks' \in Seq(Blocks) /\ Len(blocks') = Len(blocks)
  BY <1>1, <1>2, Branches, Emits DEF ShortTargets
<1>5. Pending(nodes, Top) = {f[1], f[2]}
  BY <1>1 DEF Pending
<1> HIDE DEF f, g
<1>6. Shaped(nodes, g) /\ Pending(nodes, g) = {f[2]}
  BY <1>2, <1>3 DEF Shaped, Pending
<1>7. Pending(nodes, g) = Pending(nodes, Top) \ {f[1]} /\ f[1] \in Pending(nodes, Top)
  BY <1>2, <1>5, <1>6
<1>8. QED
  BY <1>1, <1>4, <1>6, <1>7, PPlaceSwap DEF Roles, f, g

LEMMA PRightDone ==
  ASSUME PInv, RightDone PROVE PInv'
<1> DEFINE b == Top.bbs[2]
<1>1. /\ phase = "build" /\ phase' = "build" /\ Top.role = "rhs" /\ got' = Top.node /\ nodes' = nodes
      /\ blocks' = Emitted(blocks, insert, <<Instr("copy", Top.node, got, << >>),
                                             Instr("br", 0, 0, <<b>>)>>)
      /\ Place(<<b>>) /\ stack' = Tail(stack) /\ got \in Nat
  BY DEF RightDone, Returned, PInv, Typed
<1>2. b \in Nat /\ Top.node \in Nat
  BY <1>1, BlocksOfTop DEF PInv
<1>3. /\ Instr("copy", Top.node, got, << >>) \in Instructions
      /\ Instr("br", 0, 0, <<b>>) \in Instructions
  <2>1. Instr("copy", Top.node, got, << >>) \in Instructions
    BY <1>1, <1>2, OneInstr DEF Ops
  <2>2. Instr("br", 0, 0, <<b>>) \in Instructions
    BY <1>2 DEF Instr, Instructions, Ops, Terminators
  <2> QED
    BY <2>1, <2>2
<1>4. <<Instr("copy", Top.node, got, << >>), Instr("br", 0, 0, <<b>>)>> \in Blocks
  BY <1>3 DEF Blocks
<1>5. blocks' \in Seq(Blocks) /\ Len(blocks') = Len(blocks)
  BY <1>1, <1>4, Emits
<1>6. Pending(nodes, Top) = {b}
  BY <1>1 DEF Pending
<1>7. QED
  BY <1>1, <1>2, <1>5, <1>6, PPlacePop

LEMMA PNotDone ==
  ASSUME PInv, NotDone PROVE PInv'
<1>1. /\ phase = "build" /\ phase' = "build" /\ Top.role = "operand" /\ got' = Top.node
      /\ nodes' = nodes /\ layout' = layout /\ insert' = insert
      /\ blocks' = Allocated(blocks, insert, Top.node, Instr("not", Top.node, got, << >>))
      /\ stack' = Tail(stack) /\ got \in Nat
  BY DEF NotDone, Returned, PInv, Typed
<1>2. Top.node \in Nat
  BY TopOfStack DEF PInv, Frames
<1>3. Instr("not", Top.node, got, << >>) \in Instructions
  BY <1>1, <1>2, OneInstr DEF Ops
<1>4. blocks' \in Seq(Blocks) /\ Len(blocks') = Len(blocks)
  BY <1>1, <1>2, <1>3, Allocates
<1>5. Pending(nodes, Top) = {}
  BY <1>1 DEF Pending
<1>6. QED
  BY <1>1, <1>2, <1>4, <1>5, PPop

LEMMA PValueDone ==
  ASSUME PInv, ValueDone PROVE PInv'
<1>1. /\ phase = "build" /\ phase' = "build" /\ Top.role = "value" /\ got' = 0
      /\ nodes' = nodes /\ layout' = layout /\ insert' = insert
      /\ stack' = Tail(stack) /\ got \in Nat
  BY DEF ValueDone, Returned, PInv, Typed
<1>2. PICK op \in {"set", "ret"} :
        blocks' = Emitted(blocks, insert, <<Instr(op, Top.node, got, << >>)>>)
  BY DEF ValueDone
<1>3. Top.node \in Nat
  BY TopOfStack DEF PInv, Frames
<1>4. <<Instr(op, Top.node, got, << >>)>> \in Blocks
  BY <1>1, <1>3, OneInstr DEF Ops, Terminators
<1>5. blocks' \in Seq(Blocks) /\ Len(blocks') = Len(blocks)
  BY <1>2, <1>4, Emits
<1>6. Pending(nodes, Top) = {}
  BY <1>1 DEF Pending
<1>7. QED
  BY <1>1, <1>5, <1>6, PPop

\* The branch behind a body, if the body does not end in one.
LEMMA LeavesBody ==
  ASSUME PInv, NEW b \in Nat, NEW bs, bs = BranchUnlessTerminated(blocks, insert, b)
  PROVE  bs \in Seq(Blocks) /\ Len(bs) = Len(blocks)
<1>1. <<Instr("br", 0, 0, <<b>>)>> \in Blocks
  <2>1. Instr("br", 0, 0, <<b>>) \in Instructions
    BY DEF Instr, Instructions, Ops, Terminators
  <2> QED
    BY <2>1 DEF Blocks
<1>2. CASE Terminated(blocks, insert)
  BY <1>2 DEF BranchUnlessTerminated, PInv, Typed
<1>3. CASE ~Terminated(blocks, insert)
  BY <1>1, <1>3, Emits DEF BranchUnlessTerminated
<1>4. QED
  BY <1>2, <1>3

LEMMA PThenEnds ==
  ASSUME PInv, ThenEnds PROVE PInv'
<1> DEFINE f == Top.bbs
           g == Frame(Top.node, "else", f)
<1>1. /\ phase = "build" /\ phase' = "build" /\ Top.role = "then" /\ got' = got /\ nodes' = nodes
      /\ blocks' = BranchUnlessTerminated(blocks, insert, f[3]) /\ Place(<<f[2]>>)
      /\ stack' = IF f[2] # f[3] THEN <<g>> \o Tail(stack) ELSE Tail(stack)
      /\ got \in Nat
  BY DEF ThenEnds, BodyEnds, HasElse, PInv, Typed
<1>2. Len(f) = 3 /\ f \in Seq(Nat) /\ f[1] < f[2] /\ f[2] <= f[3]
      /\ f[1] \in Nat /\ f[2] \in Nat /\ f[3] \in Nat
  <2>1. Shaped(nodes, Top) /\ Top \in Frames
    BY TopOfStack DEF PInv
  <2>2. Len(f) = 3 /\ f \in Seq(Nat) /\ f[1] < f[2] /\ f[2] <= f[3]
    BY <2>1, <1>1 DEF Shaped, Frames
  <2> QED
    BY <2>2
<1>3. g.role = "else" /\ g.node = Top.node /\ g.bbs = f
  BY DEF Frame
<1>4. blocks' \in Seq(Blocks) /\ Len(blocks') = Len(blocks)
  BY <1>1, <1>2, LeavesBody
<1>5. Pending(nodes, Top) = {f[2], f[3]}
  BY <1>1 DEF Pending
<1> HIDE DEF f, g
<1>6. CASE f[2] # f[3]
  <2>1. Shaped(nodes, g) /\ Pending(nodes, g) = {f[3]}
    BY <1>2, <1>3, <1>6 DEF Shaped, Pending
  <2>2. Pending(nodes, g) = Pending(nodes, Top) \ {f[2]} /\ f[2] \in Pending(nodes, Top)
    BY <1>5, <1>6, <2>1
  <2> QED
    BY <1>1, <1>4, <1>6, <2>1, <2>2, PPlaceSwap DEF Roles, BlockRoles, f, g
<1>7. CASE f[2] = f[3]
  <2>1. Pending(nodes, Top) = {f[2]}
    BY <1>5, <1>7
  <2> QED
    BY <1>1, <1>4, <1>7, <2>1, PPlacePop
<1>8. QED
  BY <1>6, <1>7

LEMMA PLastEnds ==
  ASSUME PInv, ElseEnds \/ WhileEnds PROVE PInv'
<1> DEFINE b == Top.bbs[3]
<1>1. /\ phase = "build" /\ phase' = "build" /\ Top.role \in {"else", "body"} /\ got' = got
      /\ nodes' = nodes /\ Place(<<b>>) /\ stack' = Tail(stack) /\ got \in Nat
  BY DEF ElseEnds, WhileEnds, BodyEnds, PInv, Typed
<1>2. PICK j \in {1, 3} : blocks' = BranchUnlessTerminated(blocks, insert, Top.bbs[j])
  BY DEF ElseEnds, WhileEnds
<1>3. b \in Nat /\ Top.bbs[j] \in Nat
  BY <1>1, BlocksOfTop DEF PInv
<1>4. blocks' \in Seq(Blocks) /\ Len(blocks') = Len(blocks)
  BY <1>2, <1>3, LeavesBody
<1>5. Pending(nodes, Top) = {b}
  BY <1>1 DEF Pending
<1>6. QED
  BY <1>1, <1>4, <1>5, PPlacePop

LEMMA PFunctionEnds ==
  ASSUME PInv, FunctionEnds PROVE PInv'
<1>1. /\ phase' = "run" /\ Top.role = "top" /\ UNCHANGED <<nodes, layout, insert, stack, got>>
  BY DEF FunctionEnds, BodyEnds
<1>2. blocks' \in Seq(Blocks) /\ Len(blocks') = Len(blocks)
  <2>1. "ret" \in Ops /\ 0 \in Nat
    BY DEF Ops, Terminators
  <2>2. <<Instr("ret", 0, 0, << >>)>> \in Blocks
    BY <2>1, OneInstr
  <2>3. CASE Terminated(blocks, insert)
    BY <2>3 DEF FunctionEnds, PInv, Typed
  <2>4. CASE ~Terminated(blocks, insert)
    BY <2>2, <2>4, Emits DEF FunctionEnds
  <2> QED
    BY <2>3, <2>4
<1>3. Typed' /\ Stacked'
  BY <1>1, <1>2 DEF PInv, Typed, Stacked
<1>4. Placed' /\ Positioned' /\ Complete'
  BY <1>1, <1>2 DEF PInv, Placed, Positioned, Complete, Top
<1>5. QED
  BY <1>3, <1>4 DEF PInv

\* The function is complete, or the generator has stopped.
LEMMA PRun ==
  ASSUME PInv, Break \/ Execute \/ Exit \/ UNCHANGED vars PROVE PInv'
<1>1. UNCHANGED build
  BY DEF Break, Execute, Exit, Step, Go, vars
<1>2. \/ phase' = phase \/ phase' = "error"
      \/ phase' = "returned" /\ phase = "run"
  BY DEF Break, Execute, Exit, Step, Go, vars
<1>3. Typed' /\ Stacked' /\ Placed' /\ Positioned'
  BY <1>1, <1>2 DEF PInv, Typed, Stacked, Placed, Positioned, build
<1>4. Complete'
  BY <1>1, <1>2 DEF PInv, Complete, Top, build
<1>5. QED
  BY <1>3, <1>4 DEF PInv

LEMMA PInit ==
  ASSUME Init PROVE PInv
<1> DEFINE f == Frame(0, "top", << >>)
<1>1. /\ phase = "build" /\ nodes = << >> /\ blocks = << << >> >> /\ layout = <<1>>
      /\ insert = 1 /\ stack = <<f>> /\ got = 0
  BY DEF Init
<1>2. f \in Frames /\ f.role = "top"
  <2>1. << >> \in Seq(Nat) /\ "top" \in Roles
    BY DEF Roles, BlockRoles
  <2> QED
    BY <2>1 DEF Frame, Frames
<1> HIDE DEF f
<1>3. Typed
  <2>1. << >> \in Blocks /\ << >> \in Seq(Nodes)
    BY DEF Blocks
  <2> QED
    BY <2>1, <1>1, <1>2 DEF Typed
<1>4. Stacked
  BY <1>1, <1>2 DEF Stacked, Shaped
<1>5. Len(blocks) = 1 /\ PendingOf(nodes, stack) = <<{}>>
  <2>1. Pending(nodes, f) = {}
    BY <1>2 DEF Pending
  <2> QED
    BY <2>1, <1>1 DEF PendingOf
<1>6. Placed
  <2>1. layout \in Seq(1..1) /\ Len(layout) = 1 /\ layout[1] = 1
    BY <1>1
  <2>2. <<{}>> \in Seq(SUBSET (1..1)) /\ Len(<<{}>>) = 1 /\ <<{}>>[1] = {}
    OBVIOUS
  <2>3. Once(1, layout, <<{}>>)
    BY <2>1, <2>2 DEF Once
  <2> QED
    BY <2>3, <1>5 DEF Placed
<1>7. Positioned /\ Complete
  BY <1>1 DEF Positioned, Complete
<1>8. QED
  BY <1>3, <1>4, <1>6, <1>7 DEF PInv

LEMMA PNext ==
  ASSUME PInv, [Next]_vars PROVE PInv'
BY PCallStatement, POperand, PValueStatement, PConditional, PShortCircuit, PWhile, PConditionDone,
   PLeftDone, PRightDone, PNotDone, PValueDone, PThenEnds, PLastEnds, PFunctionEnds, PRun DEF Next

LEMMA PInvariance == Spec => []PInv
<1>1. QED
  BY PInit, PNext, PTL DEF Spec

LEMMA PlacedAtEnd ==
  ASSUME PInv PROVE AllPlaced
<1>1. AllPlaced
  <2> SUFFICES ASSUME phase \in {"run", "returned"}
               PROVE  Len(layout) = Len(blocks) /\ {layout[k] : k \in 1..Len(layout)} = 1..Len(blocks)
    BY DEF AllPlaced
  <2>1. Len(stack) = 1 /\ stack[1].role = "top"
    BY TopOfStack DEF PInv, Complete, Stacked
  <2>2. \A l \in 1..Len(PendingOf(nodes, stack)) : PendingOf(nodes, stack)[l] = {}
    <3>1. Pending(nodes, stack[1]) = {}
      BY <2>1 DEF Pending
    <3> QED
      BY <2>1, <3>1 DEF PendingOf
  <2>3. Once(Len(blocks), layout, PendingOf(nodes, stack)) /\ Len(blocks) \in Nat
    BY DEF PInv, Placed, Typed
  <2> QED
    BY <2>2, <2>3, AllInLayout
<1>2. QED
  BY <1>1

\* Every block created for a statement becomes a block of the function, once
\* (cg-inst.c:161-290, cg-operator.c:147-297).
THEOREM BlocksPlaced == Spec => []AllPlaced
BY PInvariance, PlacedAtEnd, PTL
-----------------------------------------------------------------------------
(* Terminators.                                                            *)

Ends(q) == q # << >> /\ q[Len(q)].op \in Terminators

\* The statement at node i of the tree ns is not the last of its block.
Later(ns, i) == /\ i \in 1..Len(ns)
                /\ \E j \in 1..Len(ns) : j > i /\ ns[j].parent = ns[i].parent
                                               /\ ns[j].role = ns[i].role
\* If the instruction is a terminator, it is a return with statements behind it.
Passable(ns, x) == x.op \in Terminators => x.op = "ret" /\ Later(ns, x.node)
Inner(ns, q) == \A k \in 1 .. Len(q) - 1 : Passable(ns, q[k])
Full(ns, q) == \A k \in 1..Len(q) : Passable(ns, q[k])

\* The entry block is in the function; the builder has ended the blocks it left,
\* and has put nothing in those that wait.
Settled(ns, bs, lay, b0) ==
  /\ \E k \in 1..Len(lay) : lay[k] = 1
  /\ \A b \in 1..Len(bs) : Inner(ns, bs[b])
  /\ \A k \in 1..Len(lay) : lay[k] # b0 => Ends(bs[lay[k]])
  /\ \A b \in 1..Len(bs) : (\A k \in 1..Len(lay) : lay[k] # b) => bs[b] = << >>

\* The block the builder is in ends with a return of this list of statements, if in any.
Open(ns, g, top, q) ==
  Ends(q) => LET i == q[Len(q)].node
             IN /\ q[Len(q)].op = "ret" /\ i \in 1..Len(ns)
                /\ Later(ns, i) \/ (g = 0 /\ ns[i].parent = top.node /\ ns[i].role = top.role)

TInv == /\ Settled(nodes, blocks, layout, insert)
        /\ phase = "build" => Open(nodes, got, Top, blocks[insert])
        /\ phase \in {"run", "returned"} => Ends(blocks[insert])

\* A statement with others behind it stays one.
LEMMA LaterGrows ==
  ASSUME NEW ns \in Seq(Nodes), NEW n \in Nodes, NEW i, Later(ns, i)
  PROVE  Later(Append(ns, n), i)
<1>1. /\ Len(Append(ns, n)) = Len(ns) + 1 /\ Len(ns) \in Nat
      /\ \A j \in 1..Len(ns) : Append(ns, n)[j] = ns[j]
  OBVIOUS
<1>2. PICK j \in 1..Len(ns) : j > i /\ ns[j].parent = ns[i].parent /\ ns[j].role = ns[i].role
  BY DEF Later
<1>3. i \in 1..Len(ns)
  BY DEF Later
<1>4. j \in 1..Len(Append(ns, n)) /\ i \in 1..Len(Append(ns, n))
  BY <1>1, <1>3
<1>5. QED
  BY <1>1, <1>2, <1>3, <1>4 DEF Later

LEMMA InnerGrows ==
  ASSUME NEW ns \in Seq(Nodes), NEW n \in Nodes, NEW q
  PROVE  /\ Inner(ns, q) => Inner(Append(ns, n), q)
         /\ Full(ns, q) => Full(Append(ns, n), q)
BY LaterGrows DEF Inner, Full, Passable

LEMMA SettledGrows ==
  ASSUME NEW ns \in Seq(Nodes), NEW n \in Nodes, NEW bs, NEW lay, NEW b0,
         Settled(ns, bs, lay, b0)
  PROVE  Settled(Append(ns, n), bs, lay, b0)
BY InnerGrows DEF Settled

\* Instructions behind a block that may go on.
LEMMA GoesOn ==
  ASSUME NEW ns, NEW q \in Blocks, NEW s \in Blocks, s # << >>, Full(ns, q), Inner(ns, s)
  PROVE  /\ Inner(ns, q \o s) /\ (q \o s) # << >> /\ (q \o s)[Len(q \o s)] = s[Len(s)]
         /\ (Ends(q \o s) <=> Ends(s))
<1>1. /\ Len(q) \in Nat /\ Len(s) \in Nat /\ Len(s) >= 1 /\ q \o s \in Blocks
      /\ Len(q \o s) = Len(q) + Len(s)
      /\ \A k \in 1 .. Len(q) + Len(s) : (q \o s)[k] = IF k <= Len(q) THEN q[k] ELSE s[k - Len(q)]
  BY ConcatProperties DEF Blocks
<1>2. (q \o s) # << >> /\ (q \o s)[Len(q \o s)] = s[Len(s)]
  BY <1>1
<1>3. Inner(ns, q \o s)
  <2> SUFFICES ASSUME NEW k \in 1 .. Len(q \o s) - 1 PROVE Passable(ns, (q \o s)[k])
    BY DEF Inner
  <2>1. CASE k <= Len(q)
    BY <2>1, <1>1 DEF Full
  <2>2. CASE ~(k <= Len(q))
    <3>1. (q \o s)[k] = s[k - Len(q)] /\ k - Len(q) \in 1 .. Len(s) - 1
      BY <2>2, <1>1
    <3> QED
      BY <3>1 DEF Inner
  <2> QED
    BY <2>1, <2>2
<1>4. QED
  BY <1>2, <1>3 DEF Ends

\* An allocation in front of the first block.
LEMMA GoesBefore ==
  ASSUME NEW ns, NEW q \in Blocks, NEW a \in Instructions, a.op = "alloca"
  PROVE  /\ <<a>> \o q \in Blocks
         /\ Inner(ns, q) => Inner(ns, <<a>> \o q)
         /\ Full(ns, q) => Full(ns, <<a>> \o q)
         /\ Ends(<<a>> \o q) <=> Ends(q)
         /\ Ends(q) => (<<a>> \o q)[Len(<<a>> \o q)] = q[Len(q)]
<1> DEFINE p == <<a>> \o q
<1>1. /\ Len(q) \in Nat /\ p \in Blocks /\ Len(p) = Len(q) + 1 /\ p[1] = a
      /\ \A k \in 1..Len(q) : p[k + 1] = q[k]
  BY DEF Blocks
<1>2. \A k \in 1..Len(p) : k = 1 \/ (k - 1 \in 1..Len(q) /\ p[k] = q[k - 1])
  BY <1>1
<1>3. "alloca" \notin Terminators
  BY DEF Terminators
<1> HIDE DEF p
<1>4. Full(ns, q) => Full(ns, p)
  BY <1>1, <1>2, <1>3 DEF Full, Passable
<1>5. Inner(ns, q) => Inner(ns, p)
  <2> SUFFICES ASSUME Inner(ns, q), NEW k \in 1 .. Len(p) - 1 PROVE Passable(ns, p[k])
    BY DEF Inner
  <2>1. CASE k = 1
    BY <2>1, <1>1, <1>3 DEF Passable
  <2>2. CASE k # 1
    <3>1. k - 1 \in 1 .. Len(q) - 1 /\ p[k] = q[k - 1]
      BY <2>2, <1>1, <1>2
    <3> QED
      BY <3>1 DEF Inner
  <2> QED
    BY <2>1, <2>2
<1>6. q = << >> \/ (q # << >> /\ p[Len(p)] = q[Len(q)])
  <2>1. CASE Len(q) = 0
    BY <2>1 DEF Blocks
  <2>2. CASE Len(q) # 0
    BY <2>2, <1>1
  <2> QED
    BY <2>1, <2>2
<1>7. Ends(p) <=> Ends(q)
  <2>1. CASE q = << >>
    BY <2>1, <1>1, <1>3 DEF Ends
  <2>2. CASE q # << >>
    BY <2>2, <1>1, <1>6 DEF Ends
  <2> QED
    BY <2>1, <2>2
<1>8. QED
  BY <1>1, <1>4, <1>5, <1>6, <1>7 DEF p, Ends

LEMMA SettledCreated ==
  ASSUME NEW ns, NEW bs \in Seq(Blocks), NEW k \in Nat, NEW lay \in Seq(1..Len(bs)), NEW b0,
         Settled(ns, bs, lay, b0)
  PROVE  Settled(ns, Created(bs, k), lay, b0)
<1> DEFINE cs == Created(bs, k)
<1>1. /\ Len(cs) = Len(bs) + k /\ Len(bs) \in Nat
      /\ \A c \in 1..Len(cs) : (c \in 1..Len(bs) /\ cs[c] = bs[c]) \/ cs[c] = << >>
      /\ \A c \in 1..Len(bs) : cs[c] = bs[c]
  <2>1. /\ Len(cs) = Len(bs) + k /\ \A c \in 1..Len(bs) : cs[c] = bs[c]
        /\ \A c \in Len(bs) + 1 .. Len(bs) + k : cs[c] = << >>
    BY CreatedBlocks
  <2> HIDE DEF cs
  <2>2. \A c \in 1..Len(cs) : c \in 1..Len(bs) \/ c \in Len(bs) + 1 .. Len(bs) + k
    BY <2>1
  <2> QED
    BY <2>1, <2>2
<1> HIDE DEF cs
<1>2. \A b \in 1..Len(cs) : Inner(ns, cs[b])
  <2>1. Inner(ns, << >>)
    BY DEF Inner
  <2> QED
    BY <2>1, <1>1 DEF Settled
<1>3. \A j \in 1..Len(lay) : lay[j] \in 1..Len(bs)
  OBVIOUS
<1>4. \A j \in 1..Len(lay) : lay[j] # b0 => Ends(cs[lay[j]])
  BY <1>1, <1>3 DEF Settled
<1>5. \A b \in 1..Len(cs) : (\A j \in 1..Len(lay) : lay[j] # b) => cs[b] = << >>
  BY <1>1 DEF Settled
<1>6. QED
  BY <1>2, <1>4, <1>5 DEF Settled, cs

\* The builder has emitted s in block b0, and is there.
WentOn(ns, bs, lay, b0, s) == /\ Settled(ns, bs, lay, b0)
                              /\ bs[b0][Len(bs[b0])] = s[Len(s)]
                              /\ Ends(bs[b0]) <=> Ends(s)

\* The builder emits at the end of its block, which may go on.
LEMMA SettledEmits ==
  ASSUME NEW ns, NEW bs \in Seq(Blocks), NEW lay \in Seq(1..Len(bs)), NEW b0 \in 1..Len(bs),
         Settled(ns, bs, lay, b0), \E k \in 1..Len(lay) : lay[k] = b0,
         NEW s \in Blocks, s # << >>, Inner(ns, s), Full(ns, bs[b0])
  PROVE  WentOn(ns, Emitted(bs, b0, s), lay, b0, s)
<1> DEFINE cs == Emitted(bs, b0, s)
<1>1. /\ Len(cs) = Len(bs) /\ cs[b0] = bs[b0] \o s
      /\ \A c \in 1..Len(bs) : c # b0 => cs[c] = bs[c]
  BY EmittedBlocks
<1> HIDE DEF cs
<1>2. bs[b0] \in Blocks
  OBVIOUS
<1>3. /\ Inner(ns, cs[b0]) /\ cs[b0][Len(cs[b0])] = s[Len(s)]
      /\ Ends(cs[b0]) <=> Ends(s)
  BY <1>1, <1>2, GoesOn
<1>4. \A b \in 1..Len(cs) : Inner(ns, cs[b])
  BY <1>1, <1>3 DEF Settled
<1>5. \A j \in 1..Len(lay) : lay[j] # b0 => Ends(cs[lay[j]])
  <2>1. \A j \in 1..Len(lay) : lay[j] \in 1..Len(bs)
    OBVIOUS
  <2> QED
    BY <2>1, <1>1 DEF Settled
<1>6. \A b \in 1..Len(cs) : (\A j \in 1..Len(lay) : lay[j] # b) => cs[b] = << >>
  BY <1>1 DEF Settled
<1>7. QED
  BY <1>1, <1>3, <1>4, <1>5, <1>6 DEF Settled, WentOn, cs

\* It allocates a stack slot, and stores its first value.
LEMMA SettledAllocated ==
  ASSUME NEW ns, NEW bs \in Seq(Blocks), NEW lay \in Seq(1..Len(bs)), NEW b0 \in 1..Len(bs),
         Settled(ns, bs, lay, b0), \E k \in 1..Len(lay) : lay[k] = b0,
         NEW slot \in Nat, NEW init \in Instructions, init.op \notin Terminators,
         Full(ns, bs[b0])
  PROVE  /\ Settled(ns, Allocated(bs, b0, slot, init), lay, b0)
         /\ ~Ends(Allocated(bs, b0, slot, init)[b0])
<1> DEFINE cs == Allocated(bs, b0, slot, init)
           s == <<init>>
<1>1. cs \in Seq(Blocks) /\ Len(cs) = Len(bs) /\ IsAllocated(cs, bs, b0, init)
  BY AllocatedBlocks
<1> HIDE DEF cs
<1>2. PICK a \in Instructions : a.op = "alloca" /\ cs[1] = IF b0 = 1 THEN (<<a>> \o bs[1]) \o s
                                                          ELSE <<a>> \o bs[1]
  BY <1>1 DEF IsAllocated
<1>3. /\ b0 # 1 => cs[b0] = bs[b0] \o s
      /\ \A c \in 1..Len(bs) : c # 1 /\ c # b0 => cs[c] = bs[c]
  BY <1>1 DEF IsAllocated
<1>4. s \in Blocks /\ s # << >> /\ Inner(ns, s) /\ ~Ends(s)
  BY DEF Blocks, Inner, Ends
<1> HIDE DEF s
<1>5. 1 \in 1..Len(bs) /\ bs[1] \in Blocks /\ bs[b0] \in Blocks
  OBVIOUS
<1>6. /\ <<a>> \o bs[1] \in Blocks /\ Inner(ns, <<a>> \o bs[1])
      /\ Full(ns, bs[1]) => Full(ns, <<a>> \o bs[1])
      /\ Ends(<<a>> \o bs[1]) <=> Ends(bs[1])
  BY <1>2, <1>5, GoesBefore DEF Settled
<1>7. Inner(ns, cs[b0]) /\ ~Ends(cs[b0])
  <2>1. CASE b0 = 1
    <3> DEFINE x == <<a>> \o bs[1]
    <3>1. Full(ns, x) /\ x \in Blocks
      BY <2>1, <1>6
    <3>2. cs[b0] = x \o s
      BY <2>1, <1>2
    <3> HIDE DEF x
    <3> QED
      BY <3>1, <3>2, <1>4, GoesOn
  <2>2. CASE b0 # 1
    <3> DEFINE x == bs[b0]
    <3>1. Full(ns, x) /\ x \in Blocks
      BY <1>5
    <3>2. cs[b0] = x \o s
      BY <2>2, <1>3
    <3> HIDE DEF x
    <3> QED
      BY <3>1, <3>2, <1>4, GoesOn
  <2> QED
    BY <2>1, <2>2
<1>8. \A b \in 1..Len(cs) : Inner(ns, cs[b])
  BY <1>1, <1>2, <1>3, <1>6, <1>7 DEF Settled
<1>9. \A j \in 1..Len(lay) : lay[j] # b0 => Ends(cs[lay[j]])
  <2>1. \A j \in 1..Len(lay) : lay[j] \in 1..Len(bs)
    OBVIOUS
  <2> QED
    BY <2>1, <1>2, <1>3, <1>6 DEF Settled
<1>10. \A b \in 1..Len(cs) : (\A j \in 1..Len(lay) : lay[j] # b) => cs[b] = << >>
  BY <1>1, <1>3 DEF Settled
<1>11. QED
  BY <1>7, <1>8, <1>9, <1>10 DEF Settled, cs

\* It has ended its block and goes to one that was not in the function.
LEMMA SettledMoves ==
  ASSUME NEW ns, NEW bs, NEW n, NEW lay \in Seq(n), NEW b0, NEW b \in 1..Len(bs),
         Settled(ns, bs, lay, b0), Ends(bs[b0]), b \in n,
         \A k \in 1..Len(lay) : lay[k] # b
  PROVE  Settled(ns, bs, lay \o <<b>>, b) /\ bs[b] = << >> /\ ~Ends(bs[b])
<1> DEFINE more == lay \o <<b>>
<1>1. /\ Len(more) = Len(lay) + 1 /\ Len(lay) \in Nat /\ more[Len(lay) + 1] = b
      /\ \A k \in 1..Len(lay) : more[k] = lay[k]
  OBVIOUS
<1> HIDE DEF more
<1>2. \A k \in 1..Len(more) : k = Len(lay) + 1 \/ k \in 1..Len(lay)
  BY <1>1
<1>3. \A k \in 1..Len(lay) : k \in 1..Len(more)
  BY <1>1
<1>4. \E k \in 1..Len(more) : more[k] = 1
  BY <1>1, <1>3 DEF Settled
<1>5. \A k \in 1..Len(more) : more[k] # b => Ends(bs[more[k]])
  BY <1>1, <1>2 DEF Settled
<1>6. \A c \in 1..Len(bs) : (\A k \in 1..Len(more) : more[k] # c) => bs[c] = << >>
  BY <1>1, <1>3 DEF Settled
<1>7. bs[b] = << >> /\ ~Ends(bs[b])
  BY DEF Settled, Ends
<1>8. QED
  BY <1>4, <1>5, <1>6, <1>7 DEF Settled, more
-----------------------------------------------------------------------------
(* When the builder's block may go on.                                     *)

LEMMA FullWhenOpen ==
  ASSUME PInv, TInv, NEW ns, NEW q, q = blocks[insert], Inner(ns, q),
         Ends(q) => Passable(ns, q[Len(q)])
  PROVE  Full(ns, q)
<1>1. q \in Blocks
  BY InsertBlock DEF PInv, Typed
<1>2. Len(q) \in Nat /\ (Len(q) # 0 => q # << >>)
  BY <1>1 DEF Blocks
<1>3. SUFFICES ASSUME NEW k \in 1..Len(q) PROVE Passable(ns, q[k])
  BY DEF Full
<1>4. CASE k \in 1 .. Len(q) - 1
  BY <1>4 DEF Inner
<1>5. CASE k = Len(q)
  <2>1. q # << >>
    BY <1>2, <1>5
  <2> QED
    BY <2>1, <1>5 DEF Ends, Passable
<1>6. QED
  BY <1>2, <1>4, <1>5

\* Behind a return stands another statement of its list.
LEMMA AfterAdd ==
  ASSUME PInv, TInv, phase = "build", NEW kind \in Kinds, Add(kind), got = 0
  PROVE  Full(nodes', blocks[insert]) /\ Settled(nodes', blocks, layout, insert)
<1>1. PICK n \in Nodes : /\ nodes' = Append(nodes, n) /\ nodes'[Here] = n
                         /\ n.parent = Top.node /\ n.role = Top.role
  BY NewNode
<1>2. nodes \in Seq(Nodes) /\ insert \in 1..Len(blocks) /\ blocks \in Seq(Blocks)
  BY InsertBlock DEF PInv, Typed
<1>3. Settled(nodes', blocks, layout, insert)
  BY <1>1, <1>2, SettledGrows DEF TInv
<1> DEFINE q == blocks[insert]
           i == q[Len(q)].node
<1>4. Inner(nodes', q)
  BY <1>2, <1>3 DEF Settled
<1>5. Ends(q) => Passable(nodes', q[Len(q)])
  <2> SUFFICES ASSUME Ends(q) PROVE q[Len(q)].op = "ret" /\ Later(nodes', i)
    BY DEF Passable
  <2>1. /\ q[Len(q)].op = "ret" /\ i \in 1..Len(nodes)
        /\ \/ Later(nodes, i)
           \/ got = 0 /\ nodes[i].parent = Top.node /\ nodes[i].role = Top.role
    BY DEF TInv, Open
  <2> HIDE DEF i, q
  <2>2. CASE Later(nodes, i)
    BY <2>1, <2>2, <1>1, <1>2, LaterGrows
  <2>3. CASE nodes[i].parent = Top.node /\ nodes[i].role = Top.role
    <3>1. /\ Len(nodes') = Len(nodes) + 1 /\ Len(nodes) \in Nat /\ nodes'[i] = nodes[i]
      BY <2>1, <1>1, <1>2
    <3>2. Here \in 1..Len(nodes') /\ Here > i /\ i \in 1..Len(nodes')
      BY <2>1, <3>1 DEF Here
    <3>3. nodes'[Here].parent = nodes'[i].parent /\ nodes'[Here].role = nodes'[i].role
      BY <3>1, <2>3, <1>1
    <3> QED
      BY <2>1, <3>2, <3>3 DEF Later
  <2> QED
    BY <2>1, <2>2, <2>3
<1> HIDE DEF q
<1>6. Full(nodes', q)
  BY <1>4, <1>5, FullWhenOpen DEF q
<1>7. QED
  BY <1>3, <1>6 DEF q

\* Inside a statement the builder's block may go on.
LEMMA AfterExpression ==
  ASSUME PInv, TInv, phase = "build", got # 0 \/ ~Ends(blocks[insert])
  PROVE  Full(nodes, blocks[insert])
<1>1. insert \in 1..Len(blocks)
  BY InsertBlock
<1>2. Inner(nodes, blocks[insert])
  BY <1>1 DEF TInv, Settled
<1>3. Ends(blocks[insert]) => Passable(nodes, blocks[insert][Len(blocks[insert])])
  BY DEF TInv, Open, Passable
<1>4. QED
  BY <1>2, <1>3, FullWhenOpen

LEMMA FullIsOpen ==
  ASSUME NEW ns, NEW g, NEW top, NEW q \in Blocks, Full(ns, q)
  PROVE  Open(ns, g, top, q)
<1>1. q # << >> => Len(q) \in 1..Len(q)
  BY DEF Blocks
<1>2. QED
  BY <1>1 DEF Full, Passable, Ends, Open, Later
-----------------------------------------------------------------------------
(* The steps.                                                              *)

LEMMA LayoutTyped ==
  ASSUME PInv
  PROVE  /\ blocks \in Seq(Blocks) /\ layout \in Seq(1..Len(blocks)) /\ insert \in 1..Len(blocks)
         /\ \E k \in 1..Len(layout) : layout[k] = insert
         /\ blocks[insert] \in Blocks /\ got \in Nat
         /\ \A b \in Pending(nodes, Top) : b \in 1..Len(blocks)
                                           /\ \A k \in 1..Len(layout) : layout[k] # b
<1>1. blocks \in Seq(Blocks) /\ insert \in 1..Len(blocks) /\ got \in Nat
  BY InsertBlock DEF PInv, Typed
<1>2. layout \in Seq(1..Len(blocks)) /\ \E k \in 1..Len(layout) : layout[k] = insert
  BY DEF PInv, Placed, Once, Positioned
<1>3. /\ 1 \in 1..Len(PendingOf(nodes, stack))
      /\ PendingOf(nodes, stack)[1] = Pending(nodes, Top)
  <2>1. PICK S : PendingOf(nodes, stack) \in Seq(S)
    BY PendingSeq DEF PInv, Typed
  <2> QED
    BY <2>1, InsertBlock
<1>4. \A b \in Pending(nodes, Top) : b \in 1..Len(blocks) /\ \A k \in 1..Len(layout) : layout[k] # b
  BY <1>3 DEF PInv, Placed, Once
<1>5. QED
  BY <1>1, <1>2, <1>4

\* One instruction as a sequence.
LEMMA Single ==
  ASSUME NEW x \in Instructions, NEW ns
  PROVE  /\ <<x>> \in Blocks /\ <<x>> # << >> /\ Inner(ns, <<x>>)
         /\ <<x>>[Len(<<x>>)] = x /\ (Ends(<<x>>) <=> x.op \in Terminators)
BY DEF Blocks, Inner, Ends

LEMMA TCallStatement ==
  ASSUME PInv, TInv, CallStatement \/ ReturnVoid PROVE TInv'
<1>1. PICK k \in {"call", "ret"} :
        Add(k) /\ blocks' = Emitted(blocks, insert, <<Instr(k, Here, 0, << >>)>>)
  BY DEF CallStatement, ReturnVoid
<1>2. k \in Kinds /\ k \in Ops /\ ("call" \notin Terminators)
  BY DEF Kinds, Ops, Terminators
<1>3. /\ phase = "build" /\ phase' = "build" /\ layout' = layout /\ insert' = insert
      /\ stack' = stack /\ got' = 0 /\ got = 0 /\ Top' = Top
  BY DEF CallStatement, ReturnVoid, StatementWanted, InBlock, Top
<1> DEFINE x == Instr(k, Here, 0, << >>)
<1>4. /\ Here \in Nat
      /\ \E n \in Nodes : /\ nodes' = Append(nodes, n) /\ nodes'[Here] = n
                          /\ n.parent = Top.node /\ n.role = Top.role
  BY <1>1, <1>2, NewNode
<1>5. x \in Instructions /\ x.op = k /\ x.node = Here
  BY <1>2, <1>4, OneInstr DEF Instr
<1>6. Full(nodes', blocks[insert]) /\ Settled(nodes', blocks, layout, insert)
  BY <1>1, <1>2, <1>3, AfterAdd
<1> DEFINE s == <<x>>
<1>7. s \in Blocks /\ s # << >> /\ Inner(nodes', s) /\ s[Len(s)] = x /\ (Ends(s) <=> k \in Terminators)
  BY <1>5, Single
<1>8. blocks' = Emitted(blocks, insert, s)
  BY <1>1
<1> HIDE DEF x, s
<1>9. /\ Settled(nodes', blocks', layout, insert) /\ blocks'[insert][Len(blocks'[insert])] = x
      /\ Ends(blocks'[insert]) <=> k \in Terminators
  <2>1. /\ blocks \in Seq(Blocks) /\ layout \in Seq(1..Len(blocks)) /\ insert \in 1..Len(blocks)
        /\ \E j \in 1..Len(layout) : layout[j] = insert
    BY LayoutTyped
  <2>2. WentOn(nodes', Emitted(blocks, insert, s), layout, insert, s)
    BY <2>1, <1>6, <1>7, SettledEmits
  <2> QED
    BY <2>2, <1>7, <1>8 DEF WentOn
<1>10. Open(nodes', got', Top', blocks'[insert'])
  <2>1. Here \in 1..Len(nodes') /\ nodes'[Here].parent = Top.node /\ nodes'[Here].role = Top.role
    BY <1>4 DEF Here, PInv, Typed
  <2>2. Ends(blocks'[insert]) => k = "ret"
    BY <1>2, <1>9
  <2> QED
    BY <1>3, <1>5, <1>9, <2>1, <2>2 DEF Open
<1>11. QED
  BY <1>3, <1>9, <1>10 DEF TInv

\* A statement or an operand that calls the generator before it emits.
LEMMA TAddOnly ==
  ASSUME PInv, TInv, ValueStatement \/ BooleanNot \/ Conditional PROVE TInv'
<1>1. PICK k \in {"set", "retval", "not", "if"} : Add(k)
  BY DEF ValueStatement, BooleanNot, Conditional
<1>2. k \in Kinds
  BY DEF Kinds
<1>3. /\ phase = "build" /\ phase' = "build" /\ layout' = layout /\ insert' = insert /\ got = 0
      /\ blocks' = blocks \/ \E n \in 2..3 : blocks' = Created(blocks, n)
  <2>1. CASE ValueStatement
    BY <2>1 DEF ValueStatement, StatementWanted, InBlock
  <2>2. CASE BooleanNot
    BY <2>2 DEF BooleanNot, OperandWanted
  <2>3. CASE Conditional
    <3> DEFINE body == Len(blocks) + 1
    <3>1. PICK has_else \in BOOLEAN :
            blocks' = Created(blocks, (IF has_else THEN body + 2 ELSE body + 1) - Len(blocks))
      BY <2>3 DEF Conditional
    <3>2. (IF has_else THEN body + 2 ELSE body + 1) - Len(blocks) \in 2..3
      BY InsertBlock
    <3> QED
      BY <2>3, <3>1, <3>2 DEF Conditional, StatementWanted, InBlock
  <2> QED
    BY <2>1, <2>2, <2>3
<1>4. Full(nodes', blocks[insert]) /\ Settled(nodes', blocks, layout, insert)
  BY <1>1, <1>2, <1>3, AfterAdd
<1>5. Settled(nodes', blocks', layout, insert) /\ blocks'[insert] = blocks[insert]
  <2>1. CASE blocks' = blocks
    BY <2>1, <1>4
  <2>2. CASE \E n \in 2..3 : blocks' = Created(blocks, n)
    <3>1. PICK n \in Nat : blocks' = Created(blocks, n)
      BY <2>2
    <3> QED
      BY <3>1, <1>4, LayoutTyped, SettledCreated, CreatedBlocks, ZenonT(60)
  <2> QED
    BY <2>1, <2>2, <1>3
<1>6. Open(nodes', got', Top', blocks'[insert])
  BY <1>4, <1>5, LayoutTyped, FullIsOpen
<1>7. QED
  BY <1>3, <1>5, <1>6 DEF TInv

LEMMA TOperand ==
  ASSUME PInv, TInv, Operand \/ ShortCircuit PROVE TInv'
<1>1. PICK k \in {"atom", "and", "or"}, op \in {"atom", "false", "true"} :
        /\ Add(k)
        /\ LET bs == Allocated(blocks, insert, Here, Instr(op, Here, 0, << >>))
           IN blocks' = bs \/ blocks' = Created(bs, 2)
  BY DEF Operand, ShortCircuit
<1>2. k \in Kinds /\ op \in Ops /\ op \notin Terminators
  BY DEF Kinds, Ops, Terminators
<1>3. phase = "build" /\ phase' = "build" /\ layout' = layout /\ insert' = insert /\ got = 0
  BY DEF Operand, ShortCircuit, OperandWanted
<1> DEFINE x == Instr(op, Here, 0, << >>)
           bs == Allocated(blocks, insert, Here, x)
<1>4. Here \in Nat
  BY <1>1, <1>2, NewNode
<1>5. x \in Instructions /\ x.op \notin Terminators
  BY <1>2, <1>4, OneInstr DEF Instr
<1>6. Full(nodes', blocks[insert]) /\ Settled(nodes', blocks, layout, insert)
  BY <1>1, <1>2, <1>3, AfterAdd
<1>7. blocks' = bs \/ blocks' = Created(bs, 2)
  BY <1>1
<1> HIDE DEF x
<1>8. /\ Settled(nodes', bs, layout, insert) /\ ~Ends(bs[insert])
      /\ bs \in Seq(Blocks) /\ Len(bs) = Len(blocks)
  BY <1>4, <1>5, <1>6, LayoutTyped, SettledAllocated, Allocates
<1> HIDE DEF bs
<1>9. Settled(nodes', blocks', layout, insert) /\ ~Ends(blocks'[insert])
  <2>1. CASE blocks' = bs
    BY <2>1, <1>8
  <2>2. CASE blocks' = Created(bs, 2)
    <3>1. 2 \in Nat /\ layout \in Seq(1..Len(bs)) /\ insert \in 1..Len(bs)
      BY <1>8, LayoutTyped
    <3>2. Settled(nodes', blocks', layout, insert)
      BY <2>2, <3>1, <1>8, SettledCreated
    <3>3. blocks'[insert] = bs[insert]
      BY <2>2, <3>1, <1>8, CreatedBlocks
    <3> QED
      BY <3>2, <3>3, <1>8
  <2> QED
    BY <2>1, <2>2, <1>7
<1>10. QED
  BY <1>3, <1>9 DEF TInv, Open

LEMMA TWhile ==
  ASSUME PInv, TInv, While PROVE TInv'
<1> DEFINE n == Len(blocks)
           cond == n + 1
           bs == Created(blocks, 3)
           x == Instr("br", 0, 0, <<cond>>)
           s == <<x>>
<1>1. /\ phase = "build" /\ phase' = "build" /\ Add("while") /\ got = 0 /\ Place(<<cond>>)
      /\ blocks' = Emitted(bs, insert, s) /\ "while" \in Kinds
  BY DEF While, StatementWanted, InBlock, Kinds
<1>2. /\ blocks \in Seq(Blocks) /\ layout \in Seq(1..n) /\ insert \in 1..n /\ n \in Nat
      /\ \E j \in 1..Len(layout) : layout[j] = insert
  BY LayoutTyped, InsertBlock
<1>3. Full(nodes', blocks[insert]) /\ Settled(nodes', blocks, layout, insert)
  BY <1>1, AfterAdd
<1>4. /\ bs \in Seq(Blocks) /\ Len(bs) = n + 3 /\ 3 \in Nat
      /\ \A c \in 1..n : bs[c] = blocks[c]
  BY <1>2, CreatedBlocks
<1>5. Settled(nodes', bs, layout, insert)
  BY <1>2, <1>3, <1>4, SettledCreated
<1>6. x \in Instructions /\ x.op \in Terminators
  BY <1>2 DEF Instr, Instructions, Ops, Terminators
<1> HIDE DEF x
<1>7. s \in Blocks /\ s # << >> /\ Inner(nodes', s) /\ Ends(s)
  BY <1>6, Single
<1> HIDE DEF s, bs
<1>8. /\ layout \in Seq(1..Len(bs)) /\ insert \in 1..Len(bs) /\ Full(nodes', bs[insert])
      /\ layout' = layout \o <<cond>> /\ insert' = cond
      /\ \A k \in 1..Len(layout) : layout[k] # cond
  BY <1>1, <1>2, <1>3, <1>4 DEF Place
<1>9. Settled(nodes', blocks', layout, insert) /\ Ends(blocks'[insert])
  <2>1. WentOn(nodes', Emitted(bs, insert, s), layout, insert, s)
    BY <1>2, <1>4, <1>5, <1>7, <1>8, SettledEmits
  <2> QED
    BY <2>1, <1>1, <1>7 DEF WentOn
<1>10. cond \in 1..Len(blocks') /\ cond \in 1..Len(bs)
  <2>1. Len(Emitted(bs, insert, s)) = Len(bs)
    BY <1>4, <1>7, <1>8, EmittedBlocks
  <2>2. Len(blocks') = Len(bs)
    BY <2>1, <1>1
  <2> QED
    BY <2>2, <1>2, <1>4
<1> HIDE DEF cond, n
<1>11. Settled(nodes', blocks', layout', insert') /\ ~Ends(blocks'[insert'])
  BY <1>8, <1>9, <1>10, SettledMoves
<1>12. QED
  BY <1>1, <1>11 DEF TInv, Open

\* The innermost call ends the builder's block and goes to one of its own.
LEMMA TMove ==
  ASSUME PInv, TInv, phase = "build", phase' = "build", nodes' = nodes,
         NEW b \in Pending(nodes, Top), Place(<<b>>),
         Settled(nodes, blocks', layout, insert), Ends(blocks'[insert]),
         Len(blocks') = Len(blocks)
  PROVE  TInv'
<1>1. /\ layout \in Seq(1..Len(blocks)) /\ b \in 1..Len(blocks)
      /\ \A k \in 1..Len(layout) : layout[k] # b
  BY LayoutTyped
<1>2. layout' = layout \o <<b>> /\ insert' = b
  BY DEF Place
<1>3. Settled(nodes, blocks', layout', insert') /\ ~Ends(blocks'[insert'])
  BY <1>1, <1>2, SettledMoves
<1>4. QED
  BY <1>3 DEF TInv, Open

\* Instructions of a statement that is not complete yet.
LEMMA TEmits ==
  ASSUME PInv, TInv, phase = "build", got # 0 \/ ~Ends(blocks[insert]),
         NEW s \in Blocks, s # << >>, Inner(nodes, s)
  PROVE  /\ WentOn(nodes, Emitted(blocks, insert, s), layout, insert, s)
         /\ Len(Emitted(blocks, insert, s)) = Len(blocks)
<1>1. Full(nodes, blocks[insert])
  BY AfterExpression
<1>2. /\ blocks \in Seq(Blocks) /\ layout \in Seq(1..Len(blocks)) /\ insert \in 1..Len(blocks)
      /\ \E j \in 1..Len(layout) : layout[j] = insert
  BY LayoutTyped
<1>3. Settled(nodes, blocks, layout, insert)
  BY DEF TInv
<1>4. Len(Emitted(blocks, insert, s)) = Len(blocks)
  BY <1>2, EmittedBlocks
<1>5. QED
  BY <1>1, <1>2, <1>3, <1>4, SettledEmits

LEMMA BranchIsEnd ==
  ASSUME NEW ns, NEW a \in Nat, NEW b \in Nat, got \in Nat
  PROVE  /\ CondBr(a, b) \in Blocks /\ CondBr(a, b) # << >> /\ Inner(ns, CondBr(a, b))
         /\ Ends(CondBr(a, b))
<1>1. Instr("condbr", 0, got, <<a, b>>) \in Instructions
      /\ Instr("condbr", 0, got, <<a, b>>).op \in Terminators
  BY DEF Instr, Instructions, Ops, Terminators
<1>2. QED
  BY <1>1, Single DEF CondBr

LEMMA TConditionDone ==
  ASSUME PInv, TInv, ConditionDone \/ LeftDone PROVE TInv'
<1>1. /\ phase = "build" /\ phase' = "build" /\ got # 0 /\ got \in Nat /\ nodes' = nodes
      /\ Top.role \in {"cond", "lhs"}
  BY DEF ConditionDone, LeftDone, Returned, PInv, Typed
<1>2. PICK i \in 1..3, j \in 1..3, k \in 1..3 :
        /\ blocks' = Emitted(blocks, insert, CondBr(Top.bbs[j], Top.bbs[k]))
        /\ Place(<<Top.bbs[i]>>) /\ Top.bbs[i] \in Pending(nodes, Top)
        /\ Top.bbs[j] \in Nat /\ Top.bbs[k] \in Nat
  <2>1. Shaped(nodes, Top) /\ Top.bbs \in Seq(Nat)
    BY TopOfStack DEF PInv, Frames
  <2> DEFINE f == Top.bbs
  <2>2. CASE ConditionDone /\ nodes[Top.node].kind = "while"
    <3>1. /\ blocks' = Emitted(blocks, insert, CondBr(f[2], f[3])) /\ Place(<<f[2]>>)
          /\ Top.role = "cond"
      BY <2>2 DEF ConditionDone, Returned
    <3>2. f[2] \in Nat /\ f[3] \in Nat /\ f[2] \in Pending(nodes, Top)
      BY <2>1, <2>2, <3>1 DEF Shaped, Pending
    <3> QED
      BY <3>1, <3>2
  <2>3. CASE ConditionDone /\ nodes[Top.node].kind # "while"
    <3>1. /\ blocks' = Emitted(blocks, insert, CondBr(f[1], f[2])) /\ Place(<<f[1]>>)
          /\ Top.role = "cond"
      BY <2>3 DEF ConditionDone, Returned
    <3>2. f[1] \in Nat /\ f[2] \in Nat /\ f[1] \in Pending(nodes, Top)
      BY <2>1, <2>3, <3>1 DEF Shaped, Pending
    <3> QED
      BY <3>1, <3>2
  <2>4. CASE LeftDone
    <3>1. /\ \/ blocks' = Emitted(blocks, insert, CondBr(f[1], f[2]))
             \/ blocks' = Emitted(blocks, insert, CondBr(f[2], f[1]))
          /\ Place(<<f[1]>>) /\ Top.role = "lhs"
      BY <2>4 DEF LeftDone, Returned, ShortTargets
    <3>2. f[1] \in Nat /\ f[2] \in Nat /\ f[1] \in Pending(nodes, Top)
      BY <2>1, <3>1 DEF Shaped, Pending
    <3> QED
      BY <3>1, <3>2
  <2> QED
    BY <2>2, <2>3, <2>4
<1> DEFINE s == CondBr(Top.bbs[j], Top.bbs[k])
<1>3. s \in Blocks /\ s # << >> /\ Inner(nodes, s) /\ Ends(s)
  BY <1>1, <1>2, BranchIsEnd
<1>4. blocks' = Emitted(blocks, insert, s)
  BY <1>2
<1> HIDE DEF s
<1>5. Settled(nodes, blocks', layout, insert) /\ Ends(blocks'[insert]) /\ Len(blocks') = Len(blocks)
  BY <1>1, <1>3, <1>4, TEmits DEF WentOn
<1>6. QED
  BY <1>1, <1>2, <1>5, TMove

LEMMA TRightDone ==
  ASSUME PInv, TInv, RightDone PROVE TInv'
<1> DEFINE b == Top.bbs[2]
           x == Instr("copy", Top.node, got, << >>)
           y == Instr("br", 0, 0, <<b>>)
           s == <<x, y>>
<1>1. /\ phase = "build" /\ phase' = "build" /\ Top.role = "rhs" /\ nodes' = nodes
      /\ blocks' = Emitted(blocks, insert, s) /\ Place(<<b>>) /\ got \in Nat /\ got # 0
  BY DEF RightDone, Returned, PInv, Typed
<1>2. b \in Nat /\ Top.node \in Nat
  BY <1>1, BlocksOfTop DEF PInv
<1>3. /\ x \in Instructions /\ x.op \notin Terminators
      /\ y \in Instructions /\ y.op \in Terminators
  <2>1. x \in Instructions /\ x.op = "copy"
    BY <1>1, <1>2, OneInstr DEF Ops, Instr
  <2>2. y \in Instructions /\ y.op = "br"
    BY <1>2 DEF Instr, Instructions, Ops, Terminators
  <2> QED
    BY <2>1, <2>2 DEF Terminators
<1> HIDE DEF x, y
<1>4. s \in Blocks /\ s # << >> /\ Inner(nodes, s) /\ Ends(s)
  BY <1>3 DEF Blocks, Inner, Ends, Passable
<1>5. b \in Pending(nodes, Top)
  BY <1>1 DEF Pending
<1> HIDE DEF s
<1>6. Settled(nodes, blocks', layout, insert) /\ Ends(blocks'[insert]) /\ Len(blocks') = Len(blocks)
  BY <1>1, <1>4, TEmits DEF WentOn
<1>7. QED
  BY <1>1, <1>5, <1>6, TMove

LEMMA TNotDone ==
  ASSUME PInv, TInv, NotDone PROVE TInv'
<1> DEFINE x == Instr("not", Top.node, got, << >>)
<1>1. /\ phase = "build" /\ phase' = "build" /\ nodes' = nodes /\ layout' = layout
      /\ insert' = insert /\ got \in Nat /\ got # 0
      /\ blocks' = Allocated(blocks, insert, Top.node, x)
  BY DEF NotDone, Returned, PInv, Typed
<1>2. Top.node \in Nat
  BY TopOfStack DEF PInv, Frames
<1>3. x \in Instructions /\ x.op \notin Terminators
  BY <1>1, <1>2, OneInstr DEF Ops, Instr, Terminators
<1> HIDE DEF x
<1>4. Full(nodes, blocks[insert]) /\ Settled(nodes, blocks, layout, insert)
  BY <1>1, AfterExpression DEF TInv
<1>5. Settled(nodes, blocks', layout, insert) /\ ~Ends(blocks'[insert])
  BY <1>1, <1>2, <1>3, <1>4, LayoutTyped, SettledAllocated
<1>6. QED
  BY <1>1, <1>5 DEF TInv, Open

LEMMA TValueDone ==
  ASSUME PInv, TInv, ValueDone PROVE TInv'
<1>1. /\ phase = "build" /\ phase' = "build" /\ nodes' = nodes /\ layout' = layout
      /\ insert' = insert /\ got \in Nat /\ got # 0 /\ got' = 0 /\ Top.role = "value"
      /\ stack' = Tail(stack)
  BY DEF ValueDone, Returned, PInv, Typed
<1>2. PICK op \in {"set", "ret"} :
        blocks' = Emitted(blocks, insert, <<Instr(op, Top.node, got, << >>)>>)
  BY DEF ValueDone
<1> DEFINE x == Instr(op, Top.node, got, << >>)
           s == <<x>>
<1>3. /\ Top.node \in 1..Len(nodes) /\ Top.node \in Nat
      /\ nodes[Top.node].parent = stack[2].node /\ nodes[Top.node].role = stack[2].role
  BY <1>1, TopOfStack DEF PInv, Frames
<1>4. x \in Instructions /\ x.op = op /\ x.node = Top.node
  BY <1>1, <1>3, OneInstr DEF Ops, Instr, Terminators
<1>5. blocks' = Emitted(blocks, insert, s)
  BY <1>2
<1> HIDE DEF x
<1>6. /\ s \in Blocks /\ s # << >> /\ Inner(nodes, s) /\ s[Len(s)] = x
      /\ Ends(s) <=> op \in Terminators
  BY <1>4, Single
<1> HIDE DEF s
<1>7. /\ Settled(nodes, blocks', layout, insert) /\ blocks'[insert][Len(blocks'[insert])] = x
      /\ Ends(blocks'[insert]) <=> op \in Terminators
  BY <1>1, <1>5, <1>6, TEmits DEF WentOn
<1>8. Top' = stack[2]
  BY <1>1, PopsFrame DEF PInv
<1>9. Ends(blocks'[insert]) => op = "ret"
  BY <1>7 DEF Terminators
<1>10. Open(nodes', got', Top', blocks'[insert'])
  BY <1>1, <1>3, <1>4, <1>7, <1>8, <1>9 DEF Open
<1>11. QED
  BY <1>1, <1>7, <1>10 DEF TInv

\* Behind a body stands one terminator, its own or the branch.
LEMMA TLeavesBody ==
  ASSUME PInv, TInv, phase = "build", NEW b \in Nat, NEW bs,
         bs = BranchUnlessTerminated(blocks, insert, b)
  PROVE  Settled(nodes, bs, layout, insert) /\ Ends(bs[insert]) /\ Len(bs) = Len(blocks)
<1>1. CASE Ends(blocks[insert])
  BY <1>1 DEF BranchUnlessTerminated, Terminated, Ends, TInv
<1>2. CASE ~Ends(blocks[insert])
  <2> DEFINE s == <<Instr("br", 0, 0, <<b>>)>>
  <2>1. bs = Emitted(blocks, insert, s)
    BY <1>2 DEF BranchUnlessTerminated, Terminated, Ends
  <2>2. Instr("br", 0, 0, <<b>>) \in Instructions /\ Instr("br", 0, 0, <<b>>).op \in Terminators
    BY DEF Instr, Instructions, Ops, Terminators
  <2>3. s \in Blocks /\ s # << >> /\ Inner(nodes, s) /\ Ends(s)
    BY <2>2, Single
  <2> HIDE DEF s
  <2> QED
    BY <2>1, <2>3, <1>2, TEmits DEF WentOn
<1>3. QED
  BY <1>1, <1>2

LEMMA TBodyEnds ==
  ASSUME PInv, TInv, ThenEnds \/ ElseEnds \/ WhileEnds PROVE TInv'
<1>1. phase = "build" /\ phase' = "build" /\ nodes' = nodes /\ Top.role \in {"then", "else", "body"}
  BY DEF ThenEnds, ElseEnds, WhileEnds, BodyEnds
<1>2. PICK i \in {1, 3} : blocks' = BranchUnlessTerminated(blocks, insert, Top.bbs[i])
  BY DEF ThenEnds, ElseEnds, WhileEnds
<1>3. PICK j \in {2, 3} : Place(<<Top.bbs[j]>>) /\ Top.bbs[j] \in Pending(nodes, Top)
  BY DEF ThenEnds, ElseEnds, WhileEnds, BodyEnds, Pending
<1>4. Top.bbs[i] \in Nat
  BY <1>1, BlocksOfTop DEF PInv
<1>5. Settled(nodes, blocks', layout, insert) /\ Ends(blocks'[insert]) /\ Len(blocks') = Len(blocks)
  BY <1>1, <1>2, <1>4, TLeavesBody
<1>6. QED
  BY <1>1, <1>3, <1>5, TMove

LEMMA TFunctionEnds ==
  ASSUME PInv, TInv, FunctionEnds PROVE TInv'
<1>1. phase = "build" /\ phase' = "run" /\ UNCHANGED <<nodes, layout, insert>>
  BY DEF FunctionEnds, BodyEnds
<1>2. Settled(nodes, blocks', layout, insert) /\ Ends(blocks'[insert])
  <2>1. CASE Ends(blocks[insert])
    BY <2>1 DEF FunctionEnds, Terminated, Ends, TInv
  <2>2. CASE ~Ends(blocks[insert])
    <3> DEFINE s == <<Instr("ret", 0, 0, << >>)>>
    <3>1. blocks' = Emitted(blocks, insert, s)
      BY <2>2 DEF FunctionEnds, Terminated, Ends
    <3>2. Instr("ret", 0, 0, << >>) \in Instructions /\ Instr("ret", 0, 0, << >>).op \in Terminators
      BY OneInstr DEF Instr, Ops, Terminators
    <3>3. s \in Blocks /\ s # << >> /\ Inner(nodes, s) /\ Ends(s)
      BY <3>2, Single
    <3> HIDE DEF s
    <3> QED
      BY <3>1, <3>3, <2>2, <1>1, TEmits DEF WentOn
  <2> QED
    BY <2>1, <2>2
<1>3. QED
  BY <1>1, <1>2 DEF TInv

LEMMA TRun ==
  ASSUME PInv, TInv, Break \/ Execute \/ Exit \/ UNCHANGED vars PROVE TInv'
<1>1. UNCHANGED build
  BY DEF Break, Execute, Exit, Step, Go, vars
<1>2. \/ phase' = phase \/ phase' = "error"
      \/ phase' = "returned" /\ phase = "run"
  BY DEF Break, Execute, Exit, Step, Go, vars
<1>3. QED
  BY <1>1, <1>2 DEF TInv, Top, build

LEMMA TInit ==
  ASSUME Init PROVE TInv
<1>1. /\ phase = "build" /\ blocks = << << >> >> /\ layout = <<1>> /\ insert = 1
  BY DEF Init
<1>2. Len(blocks) = 1 /\ blocks[1] = << >> /\ Len(layout) = 1 /\ layout[1] = 1 /\ Len(<< >>) = 0
  BY <1>1
<1>3. Inner(nodes, << >>) /\ ~Ends(<< >>)
  BY DEF Inner, Ends
<1>4. Settled(nodes, blocks, layout, insert)
  BY <1>1, <1>2, <1>3 DEF Settled
<1>5. QED
  BY <1>1, <1>2, <1>3, <1>4 DEF TInv, Open

LEMMA TNext ==
  ASSUME PInv, TInv, [Next]_vars PROVE TInv'
BY TCallStatement, TAddOnly, TOperand, TWhile, TConditionDone, TRightDone, TNotDone, TValueDone,
   TBodyEnds, TFunctionEnds, TRun DEF Next

\* Every block of a complete function ends in a terminator, and has another one
\* in front of it only where the program goes on behind a return
\* (cg-inst.c:190-290, cg-function.c:160-175).
THEOREM BlocksTerminated == Spec => []OneTerminator
<1>1. PInv /\ TInv => OneTerminator
  <2> SUFFICES ASSUME PInv, TInv, phase \in {"run", "returned"}, NEW b \in 1..Len(blocks)
               PROVE  /\ Terminated(blocks, b)
                      /\ \A k \in 1 .. Len(blocks[b]) - 1 : blocks[b][k].op \in Terminators =>
                           \E m \in 1..k : /\ blocks[b][m].op = "ret"
                                           /\ \E j \in 1..Len(nodes) :
                                                /\ j > blocks[b][m].node
                                                /\ nodes[j].parent = nodes[blocks[b][m].node].parent
                                                /\ nodes[j].role = nodes[blocks[b][m].node].role
    BY DEF OneTerminator
  <2>1. \E k \in 1..Len(layout) : layout[k] = b
    <3>1. AllPlaced
      BY PlacedAtEnd
    <3> QED
      BY <3>1 DEF AllPlaced
  <2>2. Terminated(blocks, b)
    BY <2>1 DEF TInv, Settled, Ends, Terminated
  <2>3. Inner(nodes, blocks[b])
    BY DEF TInv, Settled
  <2>4. \A k \in 1 .. Len(blocks[b]) - 1 : blocks[b][k].op \in Terminators =>
          /\ k \in 1..k /\ blocks[b][k].op = "ret"
          /\ \E j \in 1..Len(nodes) :
               /\ j > blocks[b][k].node
               /\ nodes[j].parent = nodes[blocks[b][k].node].parent
               /\ nodes[j].role = nodes[blocks[b][k].node].role
    BY <2>3 DEF Inner, Passable, Later
  <2> QED
    BY <2>2, <2>4
<1>2. Init => PInv /\ TInv
  BY PInit, TInit
<1>3. PInv /\ TInv /\ [Next]_vars => (PInv /\ TInv)'
  BY PNext, TNext
<1>4. QED
  BY <1>1, <1>2, <1>3, PTL DEF Spec
-----------------------------------------------------------------------------
(* Stack slots: `In' says of each block which of them have a value where   *)
(* it starts.                                                              *)

Storing == {"atom", "false", "true", "copy", "not"}
\* The slots stored to, and allocated, by the first p instructions of q.
Stored(q, p) == {q[k].node : k \in {j \in 1..p : q[j].op \in Storing}}
SlotsTo(q, p) == {q[k].node : k \in {j \in 1..p : q[j].op = "alloca"}}
All(q) == Stored(q, Len(q))
Slots(q) == SlotsTo(q, Len(q))
Avail(In, bs, b) == In[b] \cup All(bs[b])

\* Of n blocks and the allocated slots, an instruction where those in have hold a value.
Fits(In, n, slots, have, x) ==
  /\ x.slot # 0 => x.slot \in have
  /\ \A t \in 1..Len(x.to) : x.to[t] \in 2..n /\ In[x.to[t]] \subseteq have
  /\ x.op \in Storing => x.node \in slots
  /\ x.op = "br" => Len(x.to) = 1
  /\ x.op = "condbr" => Len(x.to) = 2
Sound(In, n, slots, have, q) ==
  \A p \in 1..Len(q) : Fits(In, n, slots, have \cup Stored(q, p - 1), q[p])

\* The allocations stand at the start of the entry block, one for each slot.
Front(bs) ==
  /\ \A b \in 2..Len(bs) : \A k \in 1..Len(bs[b]) : bs[b][k].op # "alloca"
  /\ \A k \in 1..Len(bs[1]) : bs[1][k].op = "alloca" =>
       \A j \in 1..(k - 1) : bs[1][j].op = "alloca" /\ bs[1][j].node # bs[1][k].node

Static(In, bs) ==
  /\ In \in [1..Len(bs) -> SUBSET Nat] /\ 1 \in 1..Len(bs) /\ In[1] = {} /\ Front(bs)
  /\ \A b \in 1..Len(bs) : Sound(In, Len(bs), Slots(bs[1]), In[b], bs[b])

\* What fits goes on fitting.
LEMMA FitsMore ==
  ASSUME NEW I, NEW J, NEW n \in Nat, NEW m \in Nat, n <= m, \A c \in 1..n : J[c] = I[c],
         NEW s, NEW t, s \subseteq t, NEW h, NEW g, h \subseteq g, NEW x, Fits(I, n, s, h, x)
  PROVE  Fits(J, m, t, g, x)
<1>1. \A u \in 1..Len(x.to) : x.to[u] \in 2..m /\ J[x.to[u]] \subseteq g
  <2> SUFFICES ASSUME NEW u \in 1..Len(x.to) PROVE x.to[u] \in 2..m /\ J[x.to[u]] \subseteq g
    OBVIOUS
  <2>1. x.to[u] \in 2..n /\ I[x.to[u]] \subseteq h
    BY DEF Fits
  <2>2. x.to[u] \in 1..n
    BY <2>1
  <2>3. x.to[u] \in 2..m
    BY <2>1
  <2> QED
    BY <2>1, <2>2, <2>3
<1>2. QED
  BY <1>1 DEF Fits

LEMMA SoundMore ==
  ASSUME NEW I, NEW J, NEW n \in Nat, NEW m \in Nat, n <= m, \A c \in 1..n : J[c] = I[c],
         NEW s, NEW t, s \subseteq t, NEW h, NEW q, Sound(I, n, s, h, q)
  PROVE  Sound(J, m, t, h, q)
<1> SUFFICES ASSUME NEW p \in 1..Len(q)
             PROVE  Fits(J, m, t, h \cup Stored(q, p - 1), q[p])
  BY DEF Sound
<1> DEFINE g == h \cup Stored(q, p - 1)
<1>1. Fits(I, n, s, g, q[p]) /\ g \subseteq g
  BY DEF Sound
<1> HIDE DEF g
<1>2. Fits(J, m, t, g, q[p])
  BY <1>1, FitsMore, Zenon
<1>3. QED
  BY <1>2 DEF g

\* One more instruction, at the end of a block.
LEMMA OneMore ==
  ASSUME NEW q \in Blocks, NEW x \in Instructions
  PROVE  /\ q \o <<x>> \in Blocks /\ Len(q \o <<x>>) = Len(q) + 1
         /\ \A k \in 1..Len(q) : (q \o <<x>>)[k] = q[k]
         /\ (q \o <<x>>)[Len(q) + 1] = x
         /\ \A p \in 0..Len(q) : /\ Stored(q \o <<x>>, p) = Stored(q, p)
                                 /\ SlotsTo(q \o <<x>>, p) = SlotsTo(q, p)
         /\ All(q \o <<x>>) = All(q) \cup (IF x.op \in Storing THEN {x.node} ELSE {})
         /\ Slots(q \o <<x>>) = Slots(q) \cup (IF x.op = "alloca" THEN {x.node} ELSE {})
<1> DEFINE r == q \o <<x>>
<1>1. /\ Len(q) \in Nat /\ r \in Blocks /\ Len(r) = Len(q) + 1 /\ r[Len(q) + 1] = x
      /\ \A k \in 1..Len(q) : r[k] = q[k]
  BY DEF Blocks
<1> HIDE DEF r
<1>2. \A p \in 0..Len(q) : Stored(r, p) = Stored(q, p) /\ SlotsTo(r, p) = SlotsTo(q, p)
  <2> SUFFICES ASSUME NEW p \in 0..Len(q) PROVE Stored(r, p) = Stored(q, p) /\ SlotsTo(r, p) = SlotsTo(q, p)
    OBVIOUS
  <2>1. \A j \in 1..p : r[j] = q[j]
    BY <1>1
  <2> QED
    BY <2>1 DEF Stored, SlotsTo
<1>3. \A k : k \in 1..Len(r) <=> k \in 1..Len(q) \/ k = Len(q) + 1
  BY <1>1
<1>4. All(r) = All(q) \cup (IF x.op \in Storing THEN {x.node} ELSE {})
  BY <1>1, <1>3 DEF All, Stored
<1>5. Slots(r) = Slots(q) \cup (IF x.op = "alloca" THEN {x.node} ELSE {})
  BY <1>1, <1>3 DEF Slots, SlotsTo
<1>6. QED
  BY <1>1, <1>2, <1>4, <1>5 DEF r

LEMMA SoundOneMore ==
  ASSUME NEW In, NEW n, NEW s, NEW h, NEW q \in Blocks, NEW x \in Instructions,
         Sound(In, n, s, h, q), Fits(In, n, s, h \cup All(q), x)
  PROVE  Sound(In, n, s, h, q \o <<x>>)
<1> DEFINE r == q \o <<x>>
<1>1. /\ Len(q) \in Nat /\ Len(r) = Len(q) + 1 /\ r[Len(q) + 1] = x
      /\ \A k \in 1..Len(q) : r[k] = q[k]
      /\ \A p \in 0..Len(q) : Stored(r, p) = Stored(q, p)
  BY OneMore DEF Blocks
<1> HIDE DEF r
<1> SUFFICES ASSUME NEW p \in 1..Len(r) PROVE Fits(In, n, s, h \cup Stored(r, p - 1), r[p])
  BY DEF Sound, r
<1>2. CASE p \in 1..Len(q)
  <2>1. Stored(r, p - 1) = Stored(q, p - 1) /\ r[p] = q[p]
    BY <1>1, <1>2
  <2> QED
    BY <2>1, <1>2 DEF Sound
<1>3. CASE p = Len(q) + 1
  <2>1. p - 1 = Len(q)
    BY <1>3, <1>1
  <2>2. Stored(r, p - 1) = All(q) /\ r[p] = x
    BY <2>1, <1>1, <1>3 DEF All
  <2> QED
    BY <2>2
<1>4. QED
  BY <1>1, <1>2, <1>3

\* An allocation in front.
LEMMA OneBefore ==
  ASSUME NEW q \in Blocks, NEW a \in Instructions, a.op = "alloca"
  PROVE  /\ <<a>> \o q \in Blocks /\ Len(<<a>> \o q) = Len(q) + 1 /\ (<<a>> \o q)[1] = a
         /\ \A k \in 1..Len(q) : (<<a>> \o q)[k + 1] = q[k]
         /\ \A p \in 0..Len(q) : Stored(<<a>> \o q, p + 1) = Stored(q, p)
         /\ Stored(<<a>> \o q, 0) = {}
         /\ All(<<a>> \o q) = All(q) /\ Slots(<<a>> \o q) = Slots(q) \cup {a.node}
<1> DEFINE r == <<a>> \o q
<1>1. /\ Len(q) \in Nat /\ r \in Blocks /\ Len(r) = Len(q) + 1 /\ r[1] = a
      /\ \A k \in 1..Len(q) : r[k + 1] = q[k]
  BY DEF Blocks
<1>2. a.op \notin Storing
  BY DEF Storing
<1> HIDE DEF r
<1>3. \A p \in 0..Len(q) : Stored(r, p + 1) = Stored(q, p)
  <2> SUFFICES ASSUME NEW p \in 0..Len(q) PROVE Stored(r, p + 1) = Stored(q, p)
    OBVIOUS
  <2>1. \A j \in 1 .. p + 1 : r[j].op \in Storing => j - 1 \in 1..p /\ r[j] = q[j - 1]
    <3> SUFFICES ASSUME NEW j \in 1 .. p + 1, r[j].op \in Storing
                 PROVE  j - 1 \in 1..p /\ r[j] = q[j - 1]
      OBVIOUS
    <3>1. j # 1
      BY <1>1, <1>2
    <3>2. j - 1 \in 1..p /\ j - 1 \in 1..Len(q) /\ (j - 1) + 1 = j
      BY <3>1, <1>1
    <3> QED
      BY <3>2, <1>1
  <2>2. \A j \in 1..p : j + 1 \in 1 .. p + 1 /\ r[j + 1] = q[j]
    BY <1>1
  <2> QED
    BY <2>1, <2>2 DEF Stored
<1>4. Stored(r, 0) = {}
  BY DEF Stored
<1>5. All(r) = All(q)
  BY <1>1, <1>3 DEF All
<1>6. Slots(r) = Slots(q) \cup {a.node}
  <2>1. \A j \in 1..Len(r) : j = 1 \/ (j - 1 \in 1..Len(q) /\ r[j] = q[j - 1])
    <3> SUFFICES ASSUME NEW j \in 1..Len(r), j # 1 PROVE j - 1 \in 1..Len(q) /\ r[j] = q[j - 1]
      OBVIOUS
    <3>1. j - 1 \in 1..Len(q) /\ (j - 1) + 1 = j
      BY <1>1
    <3> QED
      BY <3>1, <1>1
  <2>2. \A j \in 1..Len(q) : j + 1 \in 1..Len(r) /\ r[j + 1] = q[j]
    BY <1>1
  <2>3. 1 \in 1..Len(r) /\ r[1].op = "alloca" /\ r[1].node = a.node
    BY <1>1
  <2> QED
    BY <2>1, <2>2, <2>3, SMTT(60) DEF Slots, SlotsTo
<1>7. QED
  BY <1>1, <1>3, <1>4, <1>5, <1>6 DEF r

LEMMA SoundOneBefore ==
  ASSUME NEW In, NEW n, NEW s, NEW h, NEW q \in Blocks, NEW a \in Instructions, a.op = "alloca",
         a.slot = 0, a.to = << >>, Sound(In, n, s, h, q)
  PROVE  Sound(In, n, s, h, <<a>> \o q)
<1> DEFINE r == <<a>> \o q
<1>1. /\ Len(q) \in Nat /\ Len(r) = Len(q) + 1 /\ r[1] = a
      /\ \A k \in 1..Len(q) : r[k + 1] = q[k]
      /\ \A p \in 0..Len(q) : Stored(r, p + 1) = Stored(q, p)
  BY OneBefore DEF Blocks
<1> HIDE DEF r
<1>2. \A have : Fits(In, n, s, have, a)
  BY DEF Fits, Storing
<1> SUFFICES ASSUME NEW p \in 1..Len(r) PROVE Fits(In, n, s, h \cup Stored(r, p - 1), r[p])
  BY DEF Sound, r
<1>3. CASE p = 1
  BY <1>1, <1>2, <1>3
<1>4. CASE p # 1
  <2>1. /\ p - 1 \in 1..Len(q) /\ (p - 1) - 1 \in 0..Len(q) /\ (p - 1) + 1 = p
        /\ ((p - 1) - 1) + 1 = p - 1
    BY <1>1, <1>4
  <2>2. r[p] = q[p - 1] /\ Stored(r, p - 1) = Stored(q, (p - 1) - 1)
    BY <2>1, <1>1
  <2>3. Fits(In, n, s, h \cup Stored(q, (p - 1) - 1), q[p - 1])
    BY <2>1 DEF Sound
  <2> QED
    BY <2>2, <2>3
<1>5. QED
  BY <1>3, <1>4
-----------------------------------------------------------------------------
\* After a step of the builder: the blocks, the slots allocated, and those that have
\* a value at the end of b.
Became(In, bs, n, slots, b, have) ==
  /\ bs \in Seq(Blocks) /\ Len(bs) = n /\ Static(In, bs)
  /\ Slots(bs[1]) = slots /\ Avail(In, bs, b) = have
Gives(x) == IF x.op \in Storing THEN {x.node} ELSE {}

\* The builder emits an instruction that fits at the end of a block.
LEMMA FrontEmits ==
  ASSUME NEW bs \in Seq(Blocks), 1 \in 1..Len(bs), Front(bs), NEW b \in 1..Len(bs),
         NEW x \in Instructions, x.op # "alloca"
  PROVE  Front(Emitted(bs, b, <<x>>))
<1> DEFINE cs == Emitted(bs, b, <<x>>)
<1>1. /\ cs \in Seq(Blocks) /\ Len(cs) = Len(bs) /\ cs[b] = bs[b] \o <<x>>
      /\ \A c \in 1..Len(bs) : c # b => cs[c] = bs[c]
  <2>1. <<x>> \in Blocks
    BY DEF Blocks
  <2> QED
    BY <2>1, EmittedBlocks
<1>2. bs[b] \in Blocks /\ Len(bs[b]) \in Nat
  BY DEF Blocks
<1>3. /\ Len(bs[b] \o <<x>>) = Len(bs[b]) + 1 /\ (bs[b] \o <<x>>)[Len(bs[b]) + 1] = x
      /\ \A k \in 1..Len(bs[b]) : (bs[b] \o <<x>>)[k] = bs[b][k]
  BY <1>2, OneMore
<1> HIDE DEF cs
<1>4. \A c \in 1..Len(cs) : \A k \in 1..Len(cs[c]) :
        cs[c][k].op = "alloca" => k \in 1..Len(bs[c]) /\ \A j \in 1..k : cs[c][j] = bs[c][j]
  <2> SUFFICES ASSUME NEW c \in 1..Len(cs), NEW k \in 1..Len(cs[c]), cs[c][k].op = "alloca"
               PROVE  k \in 1..Len(bs[c]) /\ \A j \in 1..k : cs[c][j] = bs[c][j]
    OBVIOUS
  <2>1. CASE c # b
    BY <2>1, <1>1
  <2>2. CASE c = b
    <3>1. k # Len(bs[b]) + 1
      BY <2>2, <1>1, <1>3
    <3>2. k \in 1..Len(bs[b])
      BY <3>1, <2>2, <1>1, <1>2, <1>3
    <3>3. \A j \in 1..k : j \in 1..Len(bs[b])
      BY <3>2, <1>2
    <3> QED
      BY <3>2, <3>3, <2>2, <1>1, <1>3
  <2> QED
    BY <2>1, <2>2
<1>5. \A c \in 2..Len(cs) : \A k \in 1..Len(cs[c]) : cs[c][k].op # "alloca"
  <2> SUFFICES ASSUME NEW c \in 2..Len(cs), NEW k \in 1..Len(cs[c]), cs[c][k].op = "alloca"
               PROVE  FALSE
    OBVIOUS
  <2>1. c \in 1..Len(cs) /\ k \in 1..k
    OBVIOUS
  <2>2. k \in 1..Len(bs[c]) /\ cs[c][k] = bs[c][k]
    BY <2>1, <1>4
  <2> QED
    BY <2>2, <1>1 DEF Front
<1>6. \A k \in 1..Len(cs[1]) : cs[1][k].op = "alloca" =>
        \A j \in 1..(k - 1) : cs[1][j].op = "alloca" /\ cs[1][j].node # cs[1][k].node
  <2> SUFFICES ASSUME NEW k \in 1..Len(cs[1]), cs[1][k].op = "alloca", NEW j \in 1..(k - 1)
               PROVE  cs[1][j].op = "alloca" /\ cs[1][j].node # cs[1][k].node
    OBVIOUS
  <2>1. 1 \in 1..Len(cs) /\ k \in 1..k /\ j \in 1..k
    BY <1>1
  <2>2. k \in 1..Len(bs[1]) /\ cs[1][k] = bs[1][k] /\ cs[1][j] = bs[1][j]
    BY <2>1, <1>4
  <2> QED
    BY <2>2 DEF Front
<1>7. QED
  BY <1>5, <1>6 DEF Front, cs

LEMMA StaticEmits ==
  ASSUME NEW In, NEW bs \in Seq(Blocks), Static(In, bs), NEW b \in 1..Len(bs),
         NEW x \in Instructions, x.op # "alloca",
         Fits(In, Len(bs), Slots(bs[1]), Avail(In, bs, b), x)
  PROVE  Became(In, Emitted(bs, b, <<x>>), Len(bs), Slots(bs[1]), b, Avail(In, bs, b) \cup Gives(x))
<1> DEFINE cs == Emitted(bs, b, <<x>>)
<1>1. /\ cs \in Seq(Blocks) /\ Len(cs) = Len(bs) /\ cs[b] = bs[b] \o <<x>>
      /\ \A c \in 1..Len(bs) : c # b => cs[c] = bs[c]
  <2>1. <<x>> \in Blocks
    BY DEF Blocks
  <2> QED
    BY <2>1, EmittedBlocks
<1>2. 1 \in 1..Len(bs) /\ Front(bs) /\ bs[b] \in Blocks /\ Sound(In, Len(bs), Slots(bs[1]), In[b], bs[b])
  BY DEF Static
<1>3. Front(cs)
  BY <1>2, FrontEmits
<1> HIDE DEF cs
<1>4. /\ All(cs[b]) = All(bs[b]) \cup (IF x.op \in Storing THEN {x.node} ELSE {})
      /\ Slots(cs[b]) = Slots(bs[b])
  <2>1. /\ All(bs[b] \o <<x>>) = All(bs[b]) \cup (IF x.op \in Storing THEN {x.node} ELSE {})
        /\ Slots(bs[b] \o <<x>>) = Slots(bs[b]) \cup (IF x.op = "alloca" THEN {x.node} ELSE {})
    BY <1>2, OneMore, Zenon
  <2> QED
    BY <2>1, <1>1
<1>5. Slots(cs[1]) = Slots(bs[1])
  BY <1>1, <1>2, <1>4
<1>6. Sound(In, Len(bs), Slots(bs[1]), In[b], cs[b])
  BY <1>1, <1>2, SoundOneMore DEF Avail
<1>7. \A c \in 1..Len(cs) : Sound(In, Len(cs), Slots(cs[1]), In[c], cs[c])
  BY <1>1, <1>5, <1>6 DEF Static
<1>8. Static(In, cs)
  BY <1>1, <1>3, <1>7 DEF Static
<1>9. QED
  BY <1>1, <1>4, <1>5, <1>8 DEF Avail, Became, Gives, cs

\* It allocates a new slot in the entry block, and stores a value where it is.
LEMMA StaticFronts ==
  ASSUME NEW In, NEW bs \in Seq(Blocks), Static(In, bs), NEW a \in Instructions,
         a.op = "alloca", a.slot = 0, a.to = << >>, a.node \notin Slots(bs[1])
  PROVE  \A b \in 1..Len(bs) :
           Became(In, [bs EXCEPT ![1] = <<a>> \o @], Len(bs), Slots(bs[1]) \cup {a.node}, b, Avail(In, bs, b))
<1> DEFINE cs == [bs EXCEPT ![1] = <<a>> \o @]
<1>1. 1 \in 1..Len(bs) /\ Front(bs) /\ bs[1] \in Blocks /\ Len(bs) \in Nat
  BY DEF Static
<1>2. /\ cs \in Seq(Blocks) /\ Len(cs) = Len(bs) /\ cs[1] = <<a>> \o bs[1]
      /\ \A c \in 1..Len(bs) : c # 1 => cs[c] = bs[c]
  <2>1. <<a>> \o bs[1] \in Blocks
    BY <1>1 DEF Blocks
  <2> QED
    BY <2>1, <1>1, ExceptSeq
<1> HIDE DEF cs
<1>3. /\ Len(bs[1]) \in Nat /\ Len(cs[1]) = Len(bs[1]) + 1 /\ cs[1][1] = a
      /\ \A k \in 1..Len(bs[1]) : cs[1][k + 1] = bs[1][k]
      /\ All(cs[1]) = All(bs[1]) /\ Slots(cs[1]) = Slots(bs[1]) \cup {a.node}
  BY <1>1, <1>2, OneBefore, SMTT(60) DEF Blocks
<1>4. \A k \in 1..Len(bs[1]) : bs[1][k].op = "alloca" => bs[1][k].node # a.node
  BY DEF Slots, SlotsTo
<1>5. \A k \in 1..Len(cs[1]) : cs[1][k].op = "alloca" =>
        \A j \in 1..(k - 1) : cs[1][j].op = "alloca" /\ cs[1][j].node # cs[1][k].node
  <2> SUFFICES ASSUME NEW k \in 1..Len(cs[1]), cs[1][k].op = "alloca", NEW j \in 1..(k - 1)
               PROVE  cs[1][j].op = "alloca" /\ cs[1][j].node # cs[1][k].node
    OBVIOUS
  <2>1. k - 1 \in 1..Len(bs[1]) /\ (k - 1) + 1 = k
    BY <1>3
  <2>2. cs[1][k] = bs[1][k - 1]
    BY <2>1, <1>3
  <2>3. CASE j = 1
    BY <2>1, <2>2, <2>3, <1>3, <1>4
  <2>4. CASE j # 1
    <3>1. j - 1 \in 1..((k - 1) - 1) /\ j - 1 \in 1..Len(bs[1]) /\ (j - 1) + 1 = j
      BY <2>1, <2>4
    <3>2. cs[1][j] = bs[1][j - 1]
      BY <3>1, <1>3
    <3>3. bs[1][j - 1].op = "alloca" /\ bs[1][j - 1].node # bs[1][k - 1].node
      BY <2>1, <2>2, <3>1, <1>1, SMTT(60) DEF Front
    <3> QED
      BY <2>2, <3>2, <3>3
  <2> QED
    BY <2>3, <2>4
<1>6. \A b \in 2..Len(cs) : \A k \in 1..Len(cs[b]) : cs[b][k].op # "alloca"
  BY <1>1, <1>2 DEF Front
<1>7. Front(cs)
  BY <1>5, <1>6 DEF Front
<1>8. \A b \in 1..Len(bs) : Sound(In, Len(bs), Slots(bs[1]), In[b], cs[b])
  <2>1. \A b \in 1..Len(bs) : Sound(In, Len(bs), Slots(bs[1]), In[b], bs[b])
    BY DEF Static
  <2>2. Sound(In, Len(bs), Slots(bs[1]), In[1], cs[1])
    BY <2>1, <1>1, <1>2, SoundOneBefore
  <2> QED
    BY <2>1, <2>2, <1>2
<1>9. \A b \in 1..Len(cs) : Sound(In, Len(cs), Slots(cs[1]), In[b], cs[b])
  <2> SUFFICES ASSUME NEW b \in 1..Len(cs) PROVE Sound(In, Len(cs), Slots(cs[1]), In[b], cs[b])
    OBVIOUS
  <2>1. Slots(bs[1]) \subseteq Slots(cs[1])
    BY <1>3
  <2>2. Sound(In, Len(bs), Slots(bs[1]), In[b], cs[b])
    BY <1>2, <1>8
  <2>3. Len(cs) \in Nat /\ Len(bs) \in Nat /\ Len(bs) <= Len(cs)
    BY <1>1, <1>2
  <2>4. \A c \in 1..Len(bs) : In[c] = In[c]
    OBVIOUS
  <2> QED
    BY <2>1, <2>2, <2>3, <2>4, SoundMore
<1>10. Static(In, cs)
  BY <1>2, <1>7, <1>9 DEF Static
<1>11. \A b \in 1..Len(bs) : Avail(In, cs, b) = Avail(In, bs, b)
  BY <1>2, <1>3 DEF Avail
<1>12. QED
  BY <1>2, <1>3, <1>10, <1>11 DEF Became, cs

LEMMA StaticAllocated ==
  ASSUME NEW In, NEW bs \in Seq(Blocks), Static(In, bs), NEW b \in 1..Len(bs),
         NEW slot \in Nat, slot \notin Slots(bs[1]),
         NEW x \in Instructions, x.op \in Storing, x.node = slot, x.to = << >>,
         x.slot # 0 => x.slot \in Avail(In, bs, b)
  PROVE  Became(In, Allocated(bs, b, slot, x), Len(bs), Slots(bs[1]) \cup {slot}, b,
                Avail(In, bs, b) \cup {slot})
<1> DEFINE a == Instr("alloca", slot, 0, << >>)
           cs == [bs EXCEPT ![1] = <<a>> \o @]
<1>1. a \in Instructions /\ a.op = "alloca" /\ a.node = slot /\ a.slot = 0 /\ a.to = << >>
  <2>1. "alloca" \in Ops /\ << >> \in Seq(Nat) /\ 0 \in Nat
    BY DEF Ops
  <2> QED
    BY <2>1 DEF Instr, Instructions
<1> HIDE DEF a
<1>2. Became(In, cs, Len(bs), Slots(bs[1]) \cup {a.node}, b, Avail(In, bs, b))
  <2>1. a.node \notin Slots(bs[1])
    BY <1>1
  <2> QED
    BY <1>1, <2>1, StaticFronts
<1>3. Allocated(bs, b, slot, x) = Emitted(cs, b, <<x>>)
  BY DEF Allocated, a
<1> HIDE DEF cs
<1>4. /\ cs \in Seq(Blocks) /\ Len(cs) = Len(bs) /\ Static(In, cs)
      /\ Slots(cs[1]) = Slots(bs[1]) \cup {slot} /\ Avail(In, cs, b) = Avail(In, bs, b)
  BY <1>1, <1>2 DEF Became
<1>5. Fits(In, Len(cs), Slots(cs[1]), Avail(In, cs, b), x)
  BY <1>4 DEF Fits, Storing
<1>6. b \in 1..Len(cs) /\ x.op # "alloca" /\ Gives(x) = {slot}
  BY <1>4 DEF Storing, Gives
<1>7. Became(In, Emitted(cs, b, <<x>>), Len(cs), Slots(cs[1]), b, Avail(In, cs, b) \cup Gives(x))
  BY <1>4, <1>5, <1>6, StaticEmits
<1>8. QED
  BY <1>3, <1>4, <1>6, <1>7

\* It creates k blocks, of which J says what has a value there.
LEMMA StaticCreated ==
  ASSUME NEW In, NEW bs \in Seq(Blocks), Static(In, bs), NEW k \in Nat,
         NEW J \in [1 .. Len(bs) + k -> SUBSET Nat], \A c \in 1..Len(bs) : J[c] = In[c]
  PROVE  /\ Created(bs, k) \in Seq(Blocks) /\ Len(Created(bs, k)) = Len(bs) + k
         /\ Static(J, Created(bs, k)) /\ Slots(Created(bs, k)[1]) = Slots(bs[1])
         /\ \A b \in 1..Len(bs) : Avail(J, Created(bs, k), b) = Avail(In, bs, b)
<1> DEFINE cs == Created(bs, k)
<1>0. Len(bs) \in Nat
  OBVIOUS
<1>1. /\ cs \in Seq(Blocks) /\ Len(cs) = Len(bs) + k /\ Len(bs) \in Nat
      /\ \A c \in 1..Len(bs) : cs[c] = bs[c]
      /\ \A c \in Len(bs) + 1 .. Len(bs) + k : cs[c] = << >>
  BY <1>0, CreatedBlocks, Zenon
<1> HIDE DEF cs
<1>2. \A c \in 1..Len(cs) : (c \in 1..Len(bs) /\ cs[c] = bs[c]) \/ cs[c] = << >>
  <2>1. \A c \in 1..Len(cs) : c \in 1..Len(bs) \/ c \in Len(bs) + 1 .. Len(bs) + k
    BY <1>1
  <2> QED
    BY <2>1, <1>1
<1>3. 1 \in 1..Len(bs) /\ Front(bs) /\ cs[1] = bs[1] /\ J[1] = {} /\ 1 \in 1..Len(cs)
  BY <1>1 DEF Static
<1>4. Front(cs)
  BY <1>1, <1>2, <1>3 DEF Front
<1>5. \A c \in 1..Len(cs) : Sound(J, Len(cs), Slots(cs[1]), J[c], cs[c])
  <2> SUFFICES ASSUME NEW c \in 1..Len(cs) PROVE Sound(J, Len(cs), Slots(cs[1]), J[c], cs[c])
    OBVIOUS
  <2>1. CASE cs[c] = << >>
    BY <2>1 DEF Sound
  <2>2. CASE c \in 1..Len(bs) /\ cs[c] = bs[c]
    <3>1. Sound(In, Len(bs), Slots(bs[1]), J[c], cs[c])
      BY <2>2 DEF Static
    <3>2. Len(cs) \in Nat /\ Len(bs) <= Len(cs) /\ Slots(bs[1]) \subseteq Slots(cs[1])
      BY <1>1, <1>3
    <3>3. Len(bs) \in Nat /\ \A d \in 1..Len(bs) : J[d] = In[d]
      BY <1>1
    <3> DEFINE h == J[c]
               q == cs[c]
               n == Len(bs)
               m == Len(cs)
               s == Slots(bs[1])
               t == Slots(cs[1])
    <3>4. n \in Nat /\ m \in Nat /\ n <= m /\ s \subseteq t /\ Sound(In, n, s, h, q)
      BY <3>1, <3>2, <3>3
    <3>5. \A d \in 1..n : J[d] = In[d]
      BY <3>3
    <3> HIDE DEF h, q, n, m, s, t
    <3>6. Sound(J, m, t, h, q)
      BY <3>4, <3>5, SoundMore
    <3> QED
      BY <3>6 DEF h, q, m, t
  <2> QED
    BY <2>1, <2>2, <1>2
<1>6. Static(J, cs)
  BY <1>1, <1>3, <1>4, <1>5 DEF Static
<1>7. QED
  BY <1>1, <1>3, <1>6 DEF Avail, cs
-----------------------------------------------------------------------------
\* The result of an operator that is being generated has a slot meanwhile.
Own(f) == IF f.role \in {"lhs", "rhs"} THEN {f.node} ELSE {}
\* The slots that have a value wherever the calls from the k-th on go on.
Around(st, k) == UNION {Own(st[l]) : l \in k .. Len(st)}

\* The blocks of a call start with what the calls around it need; a slot is
\* allocated when its operator begins, that of a ! when it ends.
FrameOK(In, n, slots, f, around) ==
  /\ \A j \in 1..Len(f.bbs) : f.bbs[j] \in 2..n /\ In[f.bbs[j]] = around
  /\ f.role = "operand" => f.node \notin slots
  /\ f.role \in {"lhs", "rhs"} => f.node \in slots

FramesOK(In, n, slots, last, st) ==
  \A k \in 1..Len(st) : /\ FrameOK(In, n, slots, st[k], Around(st, k))
                        /\ st[k].node <= last
                        /\ \A j \in 1 .. k - 1 : st[k].node < st[j].node

LEMMA AroundPush ==
  ASSUME NEW st \in Seq(Frames), NEW f \in Frames
  PROVE  /\ <<f>> \o st \in Seq(Frames) /\ Len(<<f>> \o st) = Len(st) + 1 /\ (<<f>> \o st)[1] = f
         /\ \A k \in 1..Len(st) : (<<f>> \o st)[k + 1] = st[k]
         /\ Around(<<f>> \o st, 1) = Own(f) \cup Around(st, 1)
         /\ \A k \in 1..Len(st) : Around(<<f>> \o st, k + 1) = Around(st, k)
<1> DEFINE r == <<f>> \o st
<1>1. /\ r \in Seq(Frames) /\ Len(r) = Len(st) + 1 /\ r[1] = f /\ Len(st) \in Nat
      /\ \A k \in 1..Len(st) : r[k + 1] = st[k]
  OBVIOUS
<1> HIDE DEF r
<1>2. \A k \in 1..Len(r) : k = 1 \/ (k - 1 \in 1..Len(st) /\ r[k] = st[k - 1])
  <2> SUFFICES ASSUME NEW k \in 1..Len(r), k # 1 PROVE k - 1 \in 1..Len(st) /\ r[k] = st[k - 1]
    OBVIOUS
  <2>1. k - 1 \in 1..Len(st) /\ (k - 1) + 1 = k
    BY <1>1
  <2> QED
    BY <2>1, <1>1
<1>3. Around(r, 1) = Own(f) \cup Around(st, 1)
  <2>1. \A l \in 1..Len(r) : l = 1 \/ \E m \in 1..Len(st) : r[l] = st[m]
    BY <1>2
  <2>2. 1 \in 1..Len(r) /\ \A m \in 1..Len(st) : m + 1 \in 1..Len(r)
    BY <1>1
  <2> QED
    BY <2>1, <2>2, <1>1 DEF Around
<1>4. ASSUME NEW k \in 1..Len(st) PROVE Around(r, k + 1) = Around(st, k)
  <2>1. \A l \in k + 1 .. Len(r) : l - 1 \in k .. Len(st) /\ r[l] = st[l - 1]
    <3> SUFFICES ASSUME NEW l \in k + 1 .. Len(r) PROVE l - 1 \in k .. Len(st) /\ r[l] = st[l - 1]
      OBVIOUS
    <3>1. l \in 1..Len(r) /\ l # 1 /\ l - 1 \in k .. Len(st)
      BY <1>1
    <3> QED
      BY <3>1, <1>2
  <2>2. \A m \in k .. Len(st) : m + 1 \in k + 1 .. Len(r) /\ r[m + 1] = st[m]
    BY <1>1
  <2> QED
    BY <2>1, <2>2 DEF Around
<1>5. QED
  BY <1>1, <1>3, <1>4 DEF r

\* A call on top of the others.
LEMMA FramesPush ==
  ASSUME NEW In, NEW n, NEW slots, NEW last, NEW st \in Seq(Frames), NEW f \in Frames
  PROVE  FramesOK(In, n, slots, last, <<f>> \o st) <=>
           /\ FramesOK(In, n, slots, last, st)
           /\ FrameOK(In, n, slots, f, Own(f) \cup Around(st, 1))
           /\ f.node <= last /\ \A k \in 1..Len(st) : st[k].node < f.node
<1> DEFINE r == <<f>> \o st
<1>1. /\ r \in Seq(Frames) /\ Len(r) = Len(st) + 1 /\ r[1] = f /\ Len(st) \in Nat
      /\ \A k \in 1..Len(st) : r[k + 1] = st[k]
      /\ Around(r, 1) = Own(f) \cup Around(st, 1)
      /\ \A k \in 1..Len(st) : Around(r, k + 1) = Around(st, k)
  <2>1. Len(st) \in Nat
    OBVIOUS
  <2> QED
    BY <2>1, AroundPush, Zenon
<1> HIDE DEF r
<1>2. \A k \in 1..Len(r) : k = 1 \/ \E l \in 1..Len(st) : k = l + 1
  <2> SUFFICES ASSUME NEW k \in 1..Len(r), k # 1 PROVE \E l \in 1..Len(st) : k = l + 1
    OBVIOUS
  <2> k - 1 \in 1..Len(st) /\ k = (k - 1) + 1
    BY <1>1
  <2> QED
    OBVIOUS
<1>3. \A l \in 1..Len(st) : l + 1 \in 1..Len(r)
  BY <1>1
<1>4. 1 \in 1..Len(r) /\ \A j \in 1 .. 1 - 1 : FALSE
  BY <1>1
<1>5. ASSUME FramesOK(In, n, slots, last, r)
      PROVE  /\ FramesOK(In, n, slots, last, st)
             /\ FrameOK(In, n, slots, f, Own(f) \cup Around(st, 1))
             /\ f.node <= last /\ \A k \in 1..Len(st) : st[k].node < f.node
  <2>1. \A k \in 1..Len(st) : /\ FrameOK(In, n, slots, st[k], Around(st, k)) /\ st[k].node <= last
                              /\ \A j \in 1 .. k : st[k].node < r[j].node
    <3> SUFFICES ASSUME NEW k \in 1..Len(st)
                 PROVE  /\ FrameOK(In, n, slots, st[k], Around(st, k)) /\ st[k].node <= last
                        /\ \A j \in 1 .. k : st[k].node < r[j].node
      OBVIOUS
    <3>1. k + 1 \in 1..Len(r) /\ (k + 1) - 1 = k /\ r[k + 1] = st[k] /\ Around(r, k + 1) = Around(st, k)
      BY <1>1, <1>3
    <3>2. /\ FrameOK(In, n, slots, r[k + 1], Around(r, k + 1)) /\ r[k + 1].node <= last
          /\ \A j \in 1 .. (k + 1) - 1 : r[k + 1].node < r[j].node
      BY <1>5, <3>1 DEF FramesOK
    <3> QED
      BY <3>1, <3>2
  <2>2. \A k \in 1..Len(st) : 1 \in 1..k /\ \A j \in 1 .. k - 1 : j + 1 \in 1..k /\ r[j + 1] = st[j]
    BY <1>1
  <2>3. FramesOK(In, n, slots, last, st)
    BY <2>1, <2>2 DEF FramesOK
  <2>4. FrameOK(In, n, slots, f, Own(f) \cup Around(st, 1)) /\ f.node <= last
    BY <1>1, <1>4, <1>5 DEF FramesOK
  <2>5. \A k \in 1..Len(st) : st[k].node < f.node
    BY <2>1, <2>2, <1>1
  <2> QED
    BY <2>3, <2>4, <2>5
<1>6. ASSUME FramesOK(In, n, slots, last, st),
             FrameOK(In, n, slots, f, Own(f) \cup Around(st, 1)),
             f.node <= last, \A k \in 1..Len(st) : st[k].node < f.node
      PROVE  FramesOK(In, n, slots, last, r)
  <2> SUFFICES ASSUME NEW k \in 1..Len(r)
               PROVE  /\ FrameOK(In, n, slots, r[k], Around(r, k)) /\ r[k].node <= last
                      /\ \A j \in 1 .. k - 1 : r[k].node < r[j].node
    BY DEF FramesOK
  <2>1. CASE k = 1
    BY <2>1, <1>1, <1>4, <1>6
  <2>2. CASE \E l \in 1..Len(st) : k = l + 1
    <3>1. PICK l \in 1..Len(st) : k = l + 1
      BY <2>2
    <3>2. k - 1 = l /\ r[k] = st[l] /\ Around(r, k) = Around(st, l)
      BY <3>1, <1>1
    <3>3. /\ FrameOK(In, n, slots, st[l], Around(st, l)) /\ st[l].node <= last
          /\ \A j \in 1 .. l - 1 : st[l].node < st[j].node
      BY <1>6 DEF FramesOK
    <3>4. \A j \in 1..l : st[l].node < r[j].node
      <4> SUFFICES ASSUME NEW j \in 1..l PROVE st[l].node < r[j].node
        OBVIOUS
      <4>1. CASE j = 1
        BY <4>1, <1>1, <1>6
      <4>2. CASE j # 1
        <5>1. j - 1 \in 1 .. l - 1 /\ j - 1 \in 1..Len(st) /\ (j - 1) + 1 = j
          BY <4>2
        <5>2. r[j] = st[j - 1]
          BY <5>1, <1>1
        <5> QED
          BY <5>1, <5>2, <3>3
      <4> QED
        BY <4>1, <4>2
    <3> QED
      BY <3>2, <3>3, <3>4
  <2> QED
    BY <2>1, <2>2, <1>2
<1>7. QED
  BY <1>5, <1>6 DEF r

\* More blocks, slots and nodes, but not those a call is still to allocate.
LEMMA FramesMore ==
  ASSUME NEW I, NEW J, NEW n \in Nat, NEW m \in Nat, n <= m, \A c \in 1..n : J[c] = I[c],
         NEW s, NEW t, s \subseteq t, NEW l \in Nat, NEW k \in Nat, l <= k, NEW st \in Seq(Frames),
         \A i \in 1..Len(st) : st[i].role = "operand" => st[i].node \notin t,
         FramesOK(I, n, s, l, st)
  PROVE  FramesOK(J, m, t, k, st)
<1> SUFFICES ASSUME NEW i \in 1..Len(st)
             PROVE  /\ FrameOK(J, m, t, st[i], Around(st, i)) /\ st[i].node <= k
                    /\ \A j \in 1 .. i - 1 : st[i].node < st[j].node
  BY DEF FramesOK
<1>1. /\ FrameOK(I, n, s, st[i], Around(st, i)) /\ st[i].node <= l
      /\ \A j \in 1 .. i - 1 : st[i].node < st[j].node
  BY DEF FramesOK
<1>2. st[i].node <= k
  <2>1. st[i] \in Frames
    OBVIOUS
  <2>2. st[i].node \in Nat
    BY <2>1 DEF Frames
  <2> QED
    BY <2>2, <1>1
<1>3. \A b \in 2..n : b \in 2..m /\ J[b] = I[b]
  OBVIOUS
<1>4. FrameOK(J, m, t, st[i], Around(st, i))
  BY <1>1, <1>3 DEF FrameOK
<1>5. QED
  BY <1>1, <1>2, <1>4
-----------------------------------------------------------------------------
\* While the function is built: the slots that are needed from here on have a value.
SReady(In) ==
  /\ FramesOK(In, Len(blocks), Slots(blocks[1]), Len(nodes), stack)
  /\ Slots(blocks[1]) \subseteq 1..Len(nodes)
  /\ Around(stack, 1) \cup ({got} \ {0}) \subseteq Avail(In, blocks, insert)
  /\ at = <<1, 1>> /\ DOMAIN mem = {}

\* While it runs: the slots with a value are those of the blocks' start and of
\* the instructions passed in this one.
SRunning(In) ==
  LET b == at[1]  k == at[2]
  IN /\ b \in 1..Len(blocks) /\ k \in 1..Len(blocks[b])
     /\ \A s \in In[b] \cup Stored(blocks[b], k - 1) : s \in DOMAIN mem /\ mem[s] # {}
     /\ DOMAIN mem = IF b = 1 THEN SlotsTo(blocks[1], k - 1) ELSE Slots(blocks[1])

SInv == \E In : /\ Static(In, blocks)
                /\ phase = "build" => SReady(In)
                /\ phase = "run" => SRunning(In)

\* The innermost call and the others.
LEMMA STop ==
  ASSUME PInv, NEW In, SReady(In)
  PROVE  /\ stack = <<Top>> \o Tail(stack) /\ Tail(stack) \in Seq(Frames) /\ Top \in Frames
         /\ FramesOK(In, Len(blocks), Slots(blocks[1]), Len(nodes), Tail(stack))
         /\ FrameOK(In, Len(blocks), Slots(blocks[1]), Top, Around(stack, 1))
         /\ Around(stack, 1) = Own(Top) \cup Around(Tail(stack), 1)
         /\ Top.node <= Len(nodes) /\ \A k \in 1..Len(Tail(stack)) : Tail(stack)[k].node < Top.node
<1>1. /\ stack = <<Top>> \o Tail(stack) /\ Tail(stack) \in Seq(Frames) /\ Top \in Frames
  <2>1. stack \in Seq(Frames) /\ stack # << >> /\ Top = Head(stack)
    BY DEF PInv, Typed, Stacked, Top
  <2> QED
    BY <2>1, HeadTailProperties
<1> DEFINE t == Tail(stack)
           f == Top
<1>2. stack = <<f>> \o t /\ t \in Seq(Frames) /\ f \in Frames
  BY <1>1
<1>3. FramesOK(In, Len(blocks), Slots(blocks[1]), Len(nodes), stack)
  BY DEF SReady
<1> HIDE DEF t, f
<1>4. Around(<<f>> \o t, 1) = Own(f) \cup Around(t, 1)
  BY <1>2, AroundPush
<1>5. FramesOK(In, Len(blocks), Slots(blocks[1]), Len(nodes), <<f>> \o t)
  BY <1>2, <1>3
<1>6. /\ FramesOK(In, Len(blocks), Slots(blocks[1]), Len(nodes), t)
      /\ FrameOK(In, Len(blocks), Slots(blocks[1]), f, Own(f) \cup Around(t, 1))
      /\ f.node <= Len(nodes) /\ \A k \in 1..Len(t) : t[k].node < f.node
  BY <1>2, <1>5, FramesPush
<1>7. QED
  BY <1>1, <1>2, <1>4, <1>6 DEF t, f

\* The calls there are stay right when a node, and blocks and its slot, are new.
LEMMA SKeeps ==
  ASSUME PInv, NEW In, SReady(In), Len(nodes') = Len(nodes) + 1, NEW n \in Nat, Len(blocks) <= n,
         NEW J, \A c \in 1..Len(blocks) : J[c] = In[c],
         NEW slots, Slots(blocks[1]) \subseteq slots, slots \subseteq Slots(blocks[1]) \cup {Here}
  PROVE  /\ FramesOK(J, n, slots, Len(nodes'), stack) /\ stack \in Seq(Frames)
         /\ \A k \in 1..Len(stack) : stack[k].node < Here
<1>1. stack \in Seq(Frames) /\ Len(nodes) \in Nat /\ Len(blocks) \in Nat /\ Here = Len(nodes) + 1
  BY DEF PInv, Typed, Here
<1>2. \A k \in 1..Len(stack) : stack[k].node <= Len(nodes) /\ stack[k].node \in Nat
  <2>1. \A k \in 1..Len(stack) : stack[k] \in Frames
    BY <1>1
  <2> QED
    BY <2>1 DEF SReady, FramesOK, Frames
<1>3. \A k \in 1..Len(stack) : stack[k].node < Here
  BY <1>1, <1>2
<1>4. \A k \in 1..Len(stack) : stack[k].role = "operand" => stack[k].node \notin slots
  <2>1. \A k \in 1..Len(stack) : stack[k].role = "operand" => stack[k].node \notin Slots(blocks[1])
    BY DEF SReady, FramesOK, FrameOK
  <2>2. \A k \in 1..Len(stack) : stack[k].node # Here
    BY <1>1, <1>2
  <2> QED
    BY <2>1, <2>2
<1>5. FramesOK(J, n, slots, Len(nodes'), stack)
  <2> DEFINE m == Len(blocks)
             s == Slots(blocks[1])
             l == Len(nodes)
             k == Len(nodes')
  <2>1. /\ m \in Nat /\ m <= n /\ s \subseteq slots /\ l \in Nat /\ k \in Nat /\ l <= k
        /\ FramesOK(In, m, s, l, stack)
    BY <1>1 DEF SReady
  <2>2. \A c \in 1..m : J[c] = In[c]
    OBVIOUS
  <2> HIDE DEF m, s, l, k
  <2>3. FramesOK(J, n, slots, k, stack)
    BY <2>1, <2>2, <1>1, <1>4, FramesMore
  <2> QED
    BY <2>3 DEF k
<1>6. QED
  BY <1>1, <1>3, <1>5

\* A call is pushed on them.
LEMMA SPush ==
  ASSUME PInv, NEW In, SReady(In), Len(nodes') = Len(nodes) + 1, NEW n \in Nat, Len(blocks) <= n,
         NEW J, \A c \in 1..Len(blocks) : J[c] = In[c],
         NEW slots, Slots(blocks[1]) \subseteq slots, slots \subseteq Slots(blocks[1]) \cup {Here},
         NEW f \in Frames, f.node = Here, FrameOK(J, n, slots, f, Own(f) \cup Around(stack, 1))
  PROVE  /\ FramesOK(J, n, slots, Len(nodes'), <<f>> \o stack)
         /\ Around(<<f>> \o stack, 1) = Own(f) \cup Around(stack, 1)
<1>1. /\ FramesOK(J, n, slots, Len(nodes'), stack) /\ stack \in Seq(Frames)
      /\ \A k \in 1..Len(stack) : stack[k].node < Here
  BY SKeeps
<1>2. f.node <= Len(nodes') /\ \A k \in 1..Len(stack) : stack[k].node < f.node
  BY <1>1 DEF PInv, Typed, Here
<1>3. FramesOK(J, n, slots, Len(nodes'), <<f>> \o stack)
  BY <1>1, <1>2, FramesPush
<1>4. Around(<<f>> \o stack, 1) = Own(f) \cup Around(stack, 1)
  BY <1>1, AroundPush
<1>5. QED
  BY <1>3, <1>4

\* The innermost call returns, perhaps with its slot allocated.
LEMMA SPop ==
  ASSUME PInv, NEW In, SReady(In),
         NEW slots, Slots(blocks[1]) \subseteq slots, slots \subseteq Slots(blocks[1]) \cup {Top.node}
  PROVE  FramesOK(In, Len(blocks), slots, Len(nodes), Tail(stack))
<1>1. /\ Tail(stack) \in Seq(Frames) /\ Top \in Frames
      /\ FramesOK(In, Len(blocks), Slots(blocks[1]), Len(nodes), Tail(stack))
      /\ \A k \in 1..Len(Tail(stack)) : Tail(stack)[k].node < Top.node
  BY STop
<1> DEFINE t == Tail(stack)
           m == Len(blocks)
           s == Slots(blocks[1])
           l == Len(nodes)
<1>2. /\ m \in Nat /\ m <= m /\ s \subseteq slots /\ l \in Nat /\ l <= l
      /\ FramesOK(In, m, s, l, t) /\ t \in Seq(Frames)
  BY <1>1 DEF PInv, Typed
<1>3. \A k \in 1..Len(t) : t[k].role = "operand" => t[k].node \notin slots
  <2>1. \A k \in 1..Len(t) : t[k].role = "operand" => t[k].node \notin Slots(blocks[1])
    BY <1>2 DEF FramesOK, FrameOK
  <2>2. \A k \in 1..Len(t) : t[k].node # Top.node
    <3>1. \A k \in 1..Len(t) : t[k] \in Frames
      BY <1>2
    <3> QED
      BY <3>1, <1>1 DEF Frames
  <2> QED
    BY <2>1, <2>2
<1>4. \A c \in 1..m : In[c] = In[c]
  OBVIOUS
<1> HIDE DEF t, m, s, l
<1>5. FramesOK(In, m, slots, l, t)
  BY <1>2, <1>3, <1>4, FramesMore
<1>6. QED
  BY <1>5 DEF m, l, t

\* It goes on with the next of its blocks.
LEMMA SSwap ==
  ASSUME PInv, NEW In, SReady(In), NEW g \in Frames, g.node = Top.node, g.bbs = Top.bbs,
         Own(g) = Own(Top), g.role # "operand"
  PROVE  /\ FramesOK(In, Len(blocks), Slots(blocks[1]), Len(nodes), <<g>> \o Tail(stack))
         /\ Around(<<g>> \o Tail(stack), 1) = Around(stack, 1)
<1>1. /\ Tail(stack) \in Seq(Frames) /\ Top \in Frames
      /\ FramesOK(In, Len(blocks), Slots(blocks[1]), Len(nodes), Tail(stack))
      /\ FrameOK(In, Len(blocks), Slots(blocks[1]), Top, Around(stack, 1))
      /\ Around(stack, 1) = Own(Top) \cup Around(Tail(stack), 1)
      /\ Top.node <= Len(nodes) /\ \A k \in 1..Len(Tail(stack)) : Tail(stack)[k].node < Top.node
  BY STop
<1>2. Around(<<g>> \o Tail(stack), 1) = Around(stack, 1)
  <2>1. Around(<<g>> \o Tail(stack), 1) = Own(g) \cup Around(Tail(stack), 1)
    BY <1>1, AroundPush
  <2> QED
    BY <2>1, <1>1
<1>3. FrameOK(In, Len(blocks), Slots(blocks[1]), g, Own(g) \cup Around(Tail(stack), 1))
  <2>1. g.role \in {"lhs", "rhs"} => Top.role \in {"lhs", "rhs"}
    BY DEF Own
  <2> QED
    BY <2>1, <1>1 DEF FrameOK
<1>4. QED
  BY <1>1, <1>2, <1>3, FramesPush
-----------------------------------------------------------------------------
\* What an action that goes on building has to show.
LEMMA SDone ==
  ASSUME NEW In, SReady(In), UNCHANGED run, phase' = "build", NEW J, Static(J, blocks'),
         FramesOK(J, Len(blocks'), Slots(blocks'[1]), Len(nodes'), stack'),
         Slots(blocks'[1]) \subseteq 1..Len(nodes'),
         Around(stack', 1) \subseteq Avail(J, blocks', insert'),
         got' = 0 \/ got' \in Avail(J, blocks', insert')
  PROVE  SInv'
<1>1. at' = <<1, 1>> /\ DOMAIN mem' = {}
  BY DEF SReady, run
<1>2. SReady(J)'
  BY <1>1 DEF SReady
<1>3. QED
  BY <1>2 DEF SInv

\* The builder emits an instruction where it is.
LEMMA SEmits ==
  ASSUME PInv, NEW In, Static(In, blocks), NEW x \in Instructions, x.op # "alloca",
         Fits(In, Len(blocks), Slots(blocks[1]), Avail(In, blocks, insert), x)
  PROVE  Became(In, Emitted(blocks, insert, <<x>>), Len(blocks), Slots(blocks[1]), insert,
                Avail(In, blocks, insert) \cup Gives(x))
<1>1. insert \in 1..Len(blocks) /\ blocks \in Seq(Blocks)
  BY InsertBlock DEF PInv, Typed
<1>2. QED
  BY <1>1, StaticEmits

LEMMA SAllocates ==
  ASSUME PInv, NEW In, Static(In, blocks), NEW i \in Nat, i \notin Slots(blocks[1]),
         NEW op \in Storing, NEW s \in Nat, s = 0 \/ s \in Avail(In, blocks, insert)
  PROVE  Became(In, Allocated(blocks, insert, i, Instr(op, i, s, << >>)), Len(blocks),
                Slots(blocks[1]) \cup {i}, insert, Avail(In, blocks, insert) \cup {i})
<1>1. insert \in 1..Len(blocks) /\ blocks \in Seq(Blocks)
  BY InsertBlock DEF PInv, Typed
<1> DEFINE x == Instr(op, i, s, << >>)
<1>2. x \in Instructions /\ x.op = op /\ x.node = i /\ x.slot = s /\ x.to = << >>
  <2>1. op \in Ops
    BY DEF Storing, Ops
  <2> QED
    BY <2>1, OneInstr DEF Instr
<1> HIDE DEF x
<1>3. Became(In, Allocated(blocks, insert, i, x), Len(blocks), Slots(blocks[1]) \cup {i}, insert,
             Avail(In, blocks, insert) \cup {i})
  BY <1>1, <1>2, StaticAllocated
<1>4. QED
  BY <1>3 DEF x

\* J says of the blocks up to n what In does, and that W has a value in those up to m.
Extends(J, In, n, m, W) == /\ J \in [1..m -> SUBSET Nat]
                           /\ \A c \in 1..n : J[c] = In[c]
                           /\ \A c \in n + 1 .. m : J[c] = W
LEMMA NewBlocks ==
  ASSUME NEW In, NEW n \in Nat, In \in [1..n -> SUBSET Nat], NEW m \in Nat, n <= m,
         NEW W \in SUBSET Nat
  PROVE  \E J : Extends(J, In, n, m, W)
<1> DEFINE J == [b \in 1..m |-> IF b \in 1..n THEN In[b] ELSE W]
<1>1. \A c \in 1..n : In[c] \in SUBSET Nat
  OBVIOUS
<1>2. Extends(J, In, n, m, W)
  BY <1>1 DEF Extends
<1>3. QED
  BY <1>2

LEMMA AroundNat ==
  ASSUME NEW st \in Seq(Frames) PROVE Around(st, 1) \in SUBSET Nat
<1>1. \A l \in 1..Len(st) : Own(st[l]) \subseteq Nat
  <2>1. \A l \in 1..Len(st) : st[l] \in Frames
    OBVIOUS
  <2> QED
    BY <2>1 DEF Own, Frames
<1>2. QED
  BY <1>1 DEF Around

\* Each action that generates a statement or an operand.
LEMMA SCallStatement ==
  ASSUME PInv, NEW In, Static(In, blocks), SReady(In), CallStatement \/ ReturnVoid PROVE SInv'
<1>1. PICK k \in {"call", "ret"} :
        Add(k) /\ blocks' = Emitted(blocks, insert, <<Instr(k, Here, 0, << >>)>>)
  BY DEF CallStatement, ReturnVoid
<1>2. /\ phase' = "build" /\ UNCHANGED <<layout, insert, stack, got, run>>
  BY DEF CallStatement, ReturnVoid, InBlock, StatementWanted
<1>3. Len(nodes') = Len(nodes) + 1 /\ Here = Len(nodes) + 1 /\ Len(nodes) \in Nat /\ Len(blocks) \in Nat
  BY <1>1 DEF Add, PInv, Typed, Here
<1> DEFINE x == Instr(k, Here, 0, << >>)
<1>4. x \in Instructions /\ x.op = k /\ x.slot = 0 /\ x.to = << >>
  <2>1. k \in Ops /\ Here \in Nat
    BY <1>3 DEF Ops, Terminators
  <2> QED
    BY <2>1, OneInstr DEF Instr
<1> HIDE DEF x
<1>5. x.op # "alloca" /\ Gives(x) = {} /\ \A slots, have : Fits(In, Len(blocks), slots, have, x)
  BY <1>4 DEF Fits, Gives, Storing
<1>6. Became(In, blocks', Len(blocks), Slots(blocks[1]), insert, Avail(In, blocks, insert) \cup Gives(x))
  BY <1>1, <1>4, <1>5, SEmits DEF x
<1>7. FramesOK(In, Len(blocks), Slots(blocks[1]), Len(nodes'), stack)
  BY <1>3, SKeeps
<1>8. /\ Slots(blocks[1]) \subseteq 1..Len(nodes') /\ Around(stack, 1) \subseteq Avail(In, blocks, insert)
      /\ got = 0 \/ got \in Avail(In, blocks, insert)
  BY <1>3 DEF SReady
<1>9. QED
  BY <1>2, <1>5, <1>6, <1>7, <1>8, SDone DEF Became

LEMMA SPushPlain ==
  ASSUME PInv, NEW In, Static(In, blocks), SReady(In), ValueStatement \/ BooleanNot PROVE SInv'
<1>1. PICK r \in {"value", "operand"} : stack' = <<Frame(Here, r, << >>)>> \o stack
  BY DEF ValueStatement, BooleanNot
<1>2. /\ phase' = "build" /\ UNCHANGED <<blocks, layout, insert, got, run>>
      /\ got = 0 /\ \E k : Add(k)
  BY DEF ValueStatement, BooleanNot, StatementWanted, OperandWanted, InBlock
<1>3. Len(nodes') = Len(nodes) + 1 /\ Here = Len(nodes) + 1 /\ Len(nodes) \in Nat /\ Len(blocks) \in Nat
  BY <1>2 DEF Add, PInv, Typed, Here
<1> DEFINE f == Frame(Here, r, << >>)
<1>4. f \in Frames /\ f.node = Here /\ f.role = r /\ f.bbs = << >>
  BY <1>3 DEF Frame, Frames, Roles
<1> HIDE DEF f
<1>5. Own(f) = {} /\ Here \notin Slots(blocks[1])
  BY <1>3, <1>4 DEF Own, SReady
<1>6. \A around : FrameOK(In, Len(blocks), Slots(blocks[1]), f, around)
  BY <1>4, <1>5 DEF FrameOK
<1>7. /\ FramesOK(In, Len(blocks), Slots(blocks[1]), Len(nodes'), <<f>> \o stack)
      /\ Around(<<f>> \o stack, 1) = Own(f) \cup Around(stack, 1)
  <2>1. /\ Len(blocks) <= Len(blocks) /\ Slots(blocks[1]) \subseteq Slots(blocks[1])
        /\ Slots(blocks[1]) \subseteq Slots(blocks[1]) \cup {Here}
        /\ FrameOK(In, Len(blocks), Slots(blocks[1]), f, Own(f) \cup Around(stack, 1))
    BY <1>3, <1>6
  <2>2. \A c \in 1..Len(blocks) : In[c] = In[c]
    OBVIOUS
  <2> DEFINE n == Len(blocks)
  <2>3. n \in Nat
    BY <1>3
  <2> HIDE DEF n
  <2>4. n = Len(blocks)
    BY DEF n
  <2> QED
    BY <1>3, <1>4, <2>1, <2>2, <2>3, <2>4, SPush
<1>8. /\ Slots(blocks[1]) \subseteq 1..Len(nodes') /\ Around(stack, 1) \subseteq Avail(In, blocks, insert)
  BY <1>3 DEF SReady
<1>9. stack' = <<f>> \o stack
  BY <1>1 DEF f
<1>10. QED
  BY <1>2, <1>5, <1>7, <1>8, <1>9, SDone

LEMMA SOperand ==
  ASSUME PInv, NEW In, Static(In, blocks), SReady(In), Operand PROVE SInv'
<1>1. /\ phase' = "build" /\ UNCHANGED <<insert, stack, run>> /\ got' = Here
      /\ blocks' = Allocated(blocks, insert, Here, Instr("atom", Here, 0, << >>)) /\ \E k : Add(k)
  BY DEF Operand, OperandWanted
<1>2. Len(nodes') = Len(nodes) + 1 /\ Here = Len(nodes) + 1 /\ Len(nodes) \in Nat /\ Len(blocks) \in Nat
  BY <1>1 DEF Add, PInv, Typed, Here
<1>3. Here \in Nat /\ Here \notin Slots(blocks[1]) /\ "atom" \in Storing
  BY <1>2 DEF SReady, Storing
<1>4. Became(In, blocks', Len(blocks), Slots(blocks[1]) \cup {Here}, insert,
             Avail(In, blocks, insert) \cup {Here})
  BY <1>1, <1>3, SAllocates
<1>5. FramesOK(In, Len(blocks), Slots(blocks[1]) \cup {Here}, Len(nodes'), stack)
  BY <1>2, SKeeps
<1>6. /\ Slots(blocks[1]) \cup {Here} \subseteq 1..Len(nodes')
      /\ Around(stack, 1) \subseteq Avail(In, blocks, insert)
  BY <1>2 DEF SReady
<1>7. QED
  BY <1>1, <1>4, <1>5, <1>6, SDone DEF Became

LEMMA ConditionalBlocks ==
  ASSUME PInv, Conditional
  PROVE  \E e \in {1, 2} :
           /\ blocks' = Created(blocks, e + 1)
           /\ stack' = <<Frame(Here, "cond", <<Len(blocks) + 1, Len(blocks) + 2, Len(blocks) + 1 + e>>)>>
                         \o stack
<1>1. Len(blocks) \in Nat
  BY DEF PInv, Typed
<1>2. PICK has_else \in BOOLEAN :
        LET body == Len(blocks) + 1
            end  == IF has_else THEN body + 2 ELSE body + 1
        IN /\ blocks' = Created(blocks, end - Len(blocks))
           /\ stack' = <<Frame(Here, "cond", <<body, body + 1, end>>)>> \o stack
  BY DEF Conditional
<1>3. Len(blocks) + 1 + 1 = Len(blocks) + 2
  BY <1>1
<1>4. CASE has_else
  <2>1. (Len(blocks) + 1 + 2) - Len(blocks) = 3
    BY <1>1
  <2> QED
    BY <1>2, <1>3, <1>4, <2>1
<1>5. CASE ~has_else
  <2>1. (Len(blocks) + 1 + 1) - Len(blocks) = 2
    BY <1>1
  <2> QED
    BY <1>2, <1>3, <1>5, <2>1
<1> QED
  BY <1>4, <1>5

LEMMA SConditional ==
  ASSUME PInv, NEW In, Static(In, blocks), SReady(In), Conditional PROVE SInv'
<1>1. PICK e \in {1, 2} :
        /\ blocks' = Created(blocks, e + 1)
        /\ stack' = <<Frame(Here, "cond", <<Len(blocks) + 1, Len(blocks) + 2, Len(blocks) + 1 + e>>)>>
                      \o stack
  BY ConditionalBlocks
<1>2. phase' = "build" /\ UNCHANGED <<insert, got, run>> /\ got = 0 /\ \E k : Add(k)
  BY DEF Conditional, StatementWanted, InBlock
<1>3. /\ Len(nodes') = Len(nodes) + 1 /\ Here = Len(nodes) + 1 /\ Len(nodes) \in Nat
      /\ Len(blocks) \in Nat /\ blocks \in Seq(Blocks) /\ stack \in Seq(Frames)
      /\ insert \in 1..Len(blocks)
  BY <1>2, InsertBlock DEF Add, PInv, Typed, Here
<1>4. PICK J : Extends(J, In, Len(blocks), Len(blocks) + (e + 1), Around(stack, 1))
  <2> DEFINE W == Around(stack, 1)
             n == Len(blocks)
             m == Len(blocks) + (e + 1)
  <2>1. W \in SUBSET Nat /\ n \in Nat /\ m \in Nat /\ n <= m /\ In \in [1..n -> SUBSET Nat]
    BY <1>3, AroundNat DEF Static
  <2> HIDE DEF W, m, n
  <2>2. \E J : Extends(J, In, n, m, W)
    BY <2>1, NewBlocks
  <2> QED
    BY <2>2 DEF W, m, n
<1>5. /\ Len(blocks') = Len(blocks) + (e + 1) /\ Static(J, blocks')
      /\ Slots(blocks'[1]) = Slots(blocks[1]) /\ Avail(J, blocks', insert) = Avail(In, blocks, insert)
  <2>1. /\ J \in [1 .. Len(blocks) + (e + 1) -> SUBSET Nat] /\ e + 1 \in Nat
        /\ \A c \in 1..Len(blocks) : J[c] = In[c]
    BY <1>4 DEF Extends
  <2> QED
    BY <1>1, <1>3, <2>1, StaticCreated, SMTT(60)
<1> DEFINE bbs == <<Len(blocks) + 1, Len(blocks) + 2, Len(blocks) + 1 + e>>
           f == Frame(Here, "cond", bbs)
<1>6. f \in Frames /\ f.node = Here /\ f.role = "cond" /\ f.bbs = bbs
  BY <1>3 DEF Frame, Frames, Roles
<1>7. \A j \in 1..Len(bbs) : bbs[j] \in Len(blocks) + 1 .. Len(blocks) + (e + 1)
  BY <1>3, SMTT(60)
<1>8. stack' = <<f>> \o stack
  BY <1>1
<1> HIDE DEF bbs, f
<1>9. Own(f) = {}
  BY <1>6 DEF Own
<1>10. FrameOK(J, Len(blocks'), Slots(blocks[1]), f, Own(f) \cup Around(stack, 1))
  <2>1. 1 <= Len(blocks)
    BY <1>3
  <2>2. \A c \in Len(blocks) + 1 .. Len(blocks) + (e + 1) : c \in 2..Len(blocks')
    BY <2>1, <1>3, <1>5
  <2> QED
    BY <2>2, <1>4, <1>6, <1>7, <1>9 DEF FrameOK, Extends
<1>11. Len(blocks') \in Nat /\ Len(blocks) <= Len(blocks')
  BY <1>3, <1>5
<1>12. /\ FramesOK(J, Len(blocks'), Slots(blocks[1]), Len(nodes'), <<f>> \o stack)
       /\ Around(<<f>> \o stack, 1) = Own(f) \cup Around(stack, 1)
  <2>1. /\ Slots(blocks[1]) \subseteq Slots(blocks[1])
        /\ Slots(blocks[1]) \subseteq Slots(blocks[1]) \cup {Here}
    OBVIOUS
  <2>2. \A c \in 1..Len(blocks) : J[c] = In[c]
    BY <1>4 DEF Extends
  <2> DEFINE n == Len(blocks')
  <2>3. /\ n \in Nat /\ Len(blocks) <= n
        /\ FrameOK(J, n, Slots(blocks[1]), f, Own(f) \cup Around(stack, 1))
    BY <1>10, <1>11
  <2> HIDE DEF n
  <2>4. /\ FramesOK(J, n, Slots(blocks[1]), Len(nodes'), <<f>> \o stack)
        /\ Around(<<f>> \o stack, 1) = Own(f) \cup Around(stack, 1)
    BY <1>3, <1>6, <2>1, <2>2, <2>3, SPush, ZenonT(60)
  <2> QED
    BY <2>4 DEF n
<1>13. /\ Slots(blocks[1]) \subseteq 1..Len(nodes') /\ Around(stack, 1) \subseteq Avail(In, blocks, insert)
  BY <1>3 DEF SReady
<1>14. QED
  BY <1>2, <1>5, <1>8, <1>9, <1>12, <1>13, SDone

LEMMA SShortCircuit ==
  ASSUME PInv, NEW In, Static(In, blocks), SReady(In), ShortCircuit PROVE SInv'
<1> DEFINE W == {Here} \cup Around(stack, 1)
           n == Len(blocks)
           bbs == <<n + 1, n + 2>>
           f == Frame(Here, "lhs", bbs)
           slots == Slots(blocks[1]) \cup {Here}
<1>1. PICK op \in {"false", "true"} :
        blocks' = Created(Allocated(blocks, insert, Here, Instr(op, Here, 0, << >>)), 2)
  BY DEF ShortCircuit
<1>2. /\ phase' = "build" /\ UNCHANGED <<insert, got, run>> /\ got = 0 /\ \E k : Add(k)
      /\ stack' = <<f>> \o stack
  BY DEF ShortCircuit, OperandWanted
<1>3. /\ Len(nodes') = Len(nodes) + 1 /\ Here = Len(nodes) + 1 /\ Len(nodes) \in Nat
      /\ n \in Nat /\ stack \in Seq(Frames) /\ insert \in 1..n
  BY <1>2, InsertBlock DEF Add, PInv, Typed, Here
<1>4. PICK J : Extends(J, In, n, n + 2, W)
  <2>1. W \in SUBSET Nat /\ n \in Nat /\ In \in [1..n -> SUBSET Nat]
    BY <1>3, AroundNat DEF Static
  <2> DEFINE m == n + 2
  <2>2. m \in Nat /\ n <= m
    BY <1>3
  <2> HIDE DEF W, m, n
  <2>3. \E J : Extends(J, In, n, m, W)
    BY <2>1, <2>2, NewBlocks
  <2> QED
    BY <2>3 DEF m
<1> DEFINE A == Allocated(blocks, insert, Here, Instr(op, Here, 0, << >>))
<1>5. Became(In, A, n, slots, insert, Avail(In, blocks, insert) \cup {Here})
  <2>1. Here \in Nat /\ Here \notin Slots(blocks[1]) /\ op \in Storing
    BY <1>3 DEF SReady, Storing
  <2> QED
    BY <2>1, SAllocates
<1>6. f \in Frames /\ f.node = Here /\ f.role = "lhs" /\ f.bbs = bbs /\ Own(f) = {Here}
      /\ Len(bbs) = 2 /\ \A j \in 1..2 : bbs[j] \in n + 1 .. n + 2
  BY <1>3 DEF Frame, Frames, Roles, Own
<1> HIDE DEF A, bbs, f, n, slots
<1>7. /\ J \in [1 .. n + 2 -> SUBSET Nat] /\ \A c \in 1..n : J[c] = In[c]
      /\ \A c \in n + 1 .. n + 2 : J[c] = W
  BY <1>4 DEF Extends
<1>8. /\ A \in Seq(Blocks) /\ Len(A) = n /\ Static(In, A) /\ Slots(A[1]) = slots
      /\ Avail(In, A, insert) = Avail(In, blocks, insert) \cup {Here}
  BY <1>5 DEF Became
<1>9. /\ Len(blocks') = n + 2 /\ Static(J, blocks') /\ Slots(blocks'[1]) = slots
      /\ Avail(J, blocks', insert) = Avail(In, blocks, insert) \cup {Here}
  <2>1. /\ Len(Created(A, 2)) = Len(A) + 2 /\ Static(J, Created(A, 2)) /\ Slots(Created(A, 2)[1]) = Slots(A[1])
        /\ \A b \in 1..Len(A) : Avail(J, Created(A, 2), b) = Avail(In, A, b)
    BY <1>7, <1>8, StaticCreated
  <2> QED
    BY <2>1, <1>1, <1>3, <1>8 DEF A
<1>10. FrameOK(J, n + 2, slots, f, Own(f) \cup Around(stack, 1))
  <2>1. \A c \in n + 1 .. n + 2 : c \in 2 .. n + 2
    BY <1>3
  <2>2. Own(f) \cup Around(stack, 1) = W /\ Here \in slots
    BY <1>6 DEF slots
  <2> QED
    BY <2>1, <2>2, <1>6, <1>7 DEF FrameOK
<1>11. /\ FramesOK(J, n + 2, slots, Len(nodes'), <<f>> \o stack)
       /\ Around(<<f>> \o stack, 1) = W
  <2> DEFINE m == n + 2
  <2>1. m \in Nat /\ Len(blocks) <= m /\ FrameOK(J, m, slots, f, Own(f) \cup Around(stack, 1))
    BY <1>3, <1>10 DEF n
  <2>2. /\ Slots(blocks[1]) \subseteq slots /\ slots \subseteq Slots(blocks[1]) \cup {Here}
        /\ \A c \in 1..Len(blocks) : J[c] = In[c]
    BY <1>7 DEF n, slots
  <2>3. Len(nodes') = Len(nodes) + 1 /\ f \in Frames /\ f.node = Here
    BY <1>3, <1>6
  <2> HIDE DEF m, W
  <2>4. /\ FramesOK(J, m, slots, Len(nodes'), <<f>> \o stack)
        /\ Around(<<f>> \o stack, 1) = Own(f) \cup Around(stack, 1)
    BY <2>1, <2>2, <2>3, SPush
  <2> QED
    BY <2>4, <1>6 DEF m, W
<1>12. /\ slots \subseteq 1..Len(nodes') /\ W \subseteq Avail(In, blocks, insert) \cup {Here}
  BY <1>3 DEF SReady, slots
<1>13. QED
  BY <1>2, <1>9, <1>11, <1>12, SDone

LEMMA SWhile ==
  ASSUME PInv, NEW In, Static(In, blocks), SReady(In), While PROVE SInv'
<1> DEFINE W == Around(stack, 1)
           n == Len(blocks)
           bbs == <<n + 1, n + 2, n + 3>>
           f == Frame(Here, "cond", bbs)
           slots == Slots(blocks[1])
           C == Created(blocks, 3)
           x == Instr("br", 0, 0, <<n + 1>>)
<1>0. n \in Nat
  BY DEF PInv, Typed
<1>1. blocks' = Emitted(C, insert, <<x>>) /\ stack' = <<f>> \o stack /\ insert' = n + 1
  <2>1. n + 1 + 1 = n + 2 /\ n + 1 + 2 = n + 3
    BY <1>0
  <2>2. insert' = n + 1
    BY DEF While, Place
  <2> QED
    BY <2>1, <2>2 DEF While
<1>2. /\ phase' = "build" /\ UNCHANGED <<got, run>> /\ got = 0 /\ \E k : Add(k)
  BY DEF While, StatementWanted, InBlock
<1>3. /\ Len(nodes') = Len(nodes) + 1 /\ Here = Len(nodes) + 1 /\ Len(nodes) \in Nat
      /\ stack \in Seq(Frames) /\ insert \in 1..n /\ blocks \in Seq(Blocks)
  BY <1>2, InsertBlock DEF Add, PInv, Typed, Here
<1>4. PICK J : Extends(J, In, n, n + 3, W)
  <2>1. W \in SUBSET Nat /\ n \in Nat /\ In \in [1..n -> SUBSET Nat]
    BY <1>3, AroundNat DEF Static
  <2> DEFINE m == n + 3
  <2>2. m \in Nat /\ n <= m
    BY <1>0
  <2> HIDE DEF W, m, n
  <2>3. \E J : Extends(J, In, n, m, W)
    BY <2>1, <2>2, NewBlocks
  <2> QED
    BY <2>3 DEF m
<1>6. f \in Frames /\ f.node = Here /\ f.role = "cond" /\ f.bbs = bbs /\ Own(f) = {}
      /\ Len(bbs) = 3 /\ \A j \in 1..3 : bbs[j] \in n + 1 .. n + 3
  BY <1>0, <1>3 DEF Frame, Frames, Roles, Own
<1>7. /\ J \in [1 .. n + 3 -> SUBSET Nat] /\ \A c \in 1..n : J[c] = In[c]
      /\ \A c \in n + 1 .. n + 3 : J[c] = W
  BY <1>4 DEF Extends
<1>8. /\ C \in Seq(Blocks) /\ Len(C) = n + 3 /\ Static(J, C) /\ Slots(C[1]) = slots
      /\ Avail(J, C, insert) = Avail(In, blocks, insert)
  <2>1. J \in [1 .. Len(blocks) + 3 -> SUBSET Nat] /\ \A c \in 1..Len(blocks) : J[c] = In[c]
    BY <1>7
  <2> QED
    BY <2>1, <1>3, StaticCreated, SMTT(60)
<1> HIDE DEF bbs, f, slots, C
<1>9. x \in Instructions /\ x.op = "br" /\ x.slot = 0 /\ x.to = <<n + 1>>
  <2>1. "br" \in Ops /\ <<n + 1>> \in Seq(Nat)
    BY <1>0 DEF Ops, Terminators
  <2> QED
    BY <2>1 DEF Instr, Instructions
<1> HIDE DEF x
<1>10. n + 1 \in 2 .. n + 3 /\ n + 1 \in n + 1 .. n + 3 /\ insert \in 1 .. n + 3
  BY <1>0, <1>3
<1>11. W \subseteq Avail(In, blocks, insert) /\ slots \subseteq 1..Len(nodes')
  BY <1>3 DEF SReady, slots
<1>12. Fits(J, Len(C), Slots(C[1]), Avail(J, C, insert), x)
  <2>1. \A t \in 1..Len(x.to) : x.to[t] = n + 1
    BY <1>9
  <2>2. Len(x.to) = 1
    BY <1>9
  <2> QED
    BY <2>1, <2>2, <1>7, <1>8, <1>9, <1>10, <1>11 DEF Fits, Storing
<1>13. /\ blocks' \in Seq(Blocks) /\ Len(blocks') = n + 3 /\ Static(J, blocks') /\ Slots(blocks'[1]) = slots
  <2>1. insert \in 1..Len(C) /\ x.op # "alloca"
    BY <1>8, <1>9, <1>10
  <2>2. Became(J, Emitted(C, insert, <<x>>), Len(C), Slots(C[1]), insert, Avail(J, C, insert) \cup Gives(x))
    BY <2>1, <1>8, <1>9, <1>12, StaticEmits
  <2> QED
    BY <2>2, <1>1, <1>8 DEF Became
<1>14. FrameOK(J, n + 3, slots, f, Own(f) \cup Around(stack, 1))
  <2>1. \A c \in n + 1 .. n + 3 : c \in 2 .. n + 3
    BY <1>0, <1>10
  <2> QED
    BY <2>1, <1>6, <1>7 DEF FrameOK
<1>15. /\ FramesOK(J, n + 3, slots, Len(nodes'), <<f>> \o stack)
       /\ Around(<<f>> \o stack, 1) = W
  <2> DEFINE m == n + 3
  <2>1. m \in Nat /\ Len(blocks) <= m /\ FrameOK(J, m, slots, f, Own(f) \cup Around(stack, 1))
    BY <1>0, <1>14
  <2>2. /\ Slots(blocks[1]) \subseteq slots /\ slots \subseteq Slots(blocks[1]) \cup {Here}
        /\ \A c \in 1..Len(blocks) : J[c] = In[c]
    BY <1>7 DEF slots
  <2> HIDE DEF m, W, n
  <2>3. /\ FramesOK(J, m, slots, Len(nodes'), <<f>> \o stack)
        /\ Around(<<f>> \o stack, 1) = Own(f) \cup Around(stack, 1)
    BY <1>3, <1>6, <2>1, <2>2, SPush
  <2> QED
    BY <2>3, <1>6 DEF m, W
<1>16. W \subseteq Avail(J, blocks', insert')
  BY <1>1, <1>7, <1>10 DEF Avail
<1>17. QED
  BY <1>1, <1>2, <1>11, <1>13, <1>15, <1>16, SDone

\* The builder has ended its block and goes on in one of the innermost call's,
\* which goes on too or returns.
LEMMA SMove ==
  ASSUME PInv, NEW In, SReady(In), NEW have,
         Became(In, blocks', Len(blocks), Slots(blocks[1]), insert, have),
         NEW j \in 1..Len(Top.bbs), insert' = Top.bbs[j], nodes' = nodes, phase' = "build", UNCHANGED run,
         \/ stack' = Tail(stack) /\ got' \in {0} \cup Own(Top)
         \/ \E r \in Roles \ {"operand"} : /\ stack' = <<Frame(Top.node, r, Top.bbs)>> \o Tail(stack)
                                           /\ Own(Frame(Top.node, r, Top.bbs)) = Own(Top) /\ got' = 0
  PROVE  SInv'
<1>1. /\ Len(blocks') = Len(blocks) /\ Static(In, blocks') /\ Slots(blocks'[1]) = Slots(blocks[1])
  BY DEF Became
<1>2. In[insert'] = Around(stack, 1) /\ Around(stack, 1) = Own(Top) \cup Around(Tail(stack), 1)
      /\ Top \in Frames
  BY STop DEF FrameOK
<1>3. Around(stack, 1) \subseteq Avail(In, blocks', insert')
  BY <1>2 DEF Avail
<1>4. Slots(blocks[1]) \subseteq 1..Len(nodes)
  BY DEF SReady
<1>5. CASE stack' = Tail(stack) /\ got' \in {0} \cup Own(Top)
  <2>1. FramesOK(In, Len(blocks), Slots(blocks[1]), Len(nodes), Tail(stack))
    BY STop
  <2> QED
    BY <2>1, <1>1, <1>2, <1>3, <1>4, <1>5, SDone
<1>6. CASE \E r \in Roles \ {"operand"} : /\ stack' = <<Frame(Top.node, r, Top.bbs)>> \o Tail(stack)
                                          /\ Own(Frame(Top.node, r, Top.bbs)) = Own(Top) /\ got' = 0
  <2>1. PICK r \in Roles \ {"operand"} : /\ stack' = <<Frame(Top.node, r, Top.bbs)>> \o Tail(stack)
                                         /\ Own(Frame(Top.node, r, Top.bbs)) = Own(Top) /\ got' = 0
    BY <1>6
  <2> DEFINE g == Frame(Top.node, r, Top.bbs)
  <2>2. /\ g \in Frames /\ g.node = Top.node /\ g.bbs = Top.bbs /\ g.role # "operand" /\ Own(g) = Own(Top)
    BY <2>1, <1>2 DEF Frame, Frames
  <2>3. stack' = <<g>> \o Tail(stack) /\ got' = 0
    BY <2>1
  <2> HIDE DEF g
  <2>4. /\ FramesOK(In, Len(blocks), Slots(blocks[1]), Len(nodes), <<g>> \o Tail(stack))
        /\ Around(<<g>> \o Tail(stack), 1) = Around(stack, 1)
    BY <2>2, SSwap
  <2> QED
    BY <2>3, <2>4, <1>1, <1>3, <1>4, SDone
<1>7. QED
  BY <1>5, <1>6

\* A branch to blocks of the innermost call fits where the builder is.
BranchesHere(x) ==
  /\ x.op \in {"br", "condbr"} /\ x.slot \in {0, got}
  /\ Len(x.to) = IF x.op = "br" THEN 1 ELSE 2
  /\ \A t \in 1..Len(x.to) : \E j \in 1..Len(Top.bbs) : x.to[t] = Top.bbs[j]
LEMMA SBranchFits ==
  ASSUME PInv, NEW In, SReady(In), NEW have, Avail(In, blocks, insert) \subseteq have,
         NEW x, BranchesHere(x)
  PROVE  Fits(In, Len(blocks), Slots(blocks[1]), have, x)
<1>1. \A j \in 1..Len(Top.bbs) : Top.bbs[j] \in 2..Len(blocks) /\ In[Top.bbs[j]] = Around(stack, 1)
  BY STop DEF FrameOK
<1>2. Around(stack, 1) \subseteq have /\ (got # 0 => got \in have)
  BY DEF SReady
<1>3. \A t \in 1..Len(x.to) : x.to[t] \in 2..Len(blocks) /\ In[x.to[t]] \subseteq have
  BY <1>1, <1>2 DEF BranchesHere
<1>4. x.slot # 0 => x.slot \in have
  BY <1>2 DEF BranchesHere
<1>5. x.op \notin Storing
  BY DEF Storing, BranchesHere
<1>6. QED
  BY <1>3, <1>4, <1>5 DEF Fits, BranchesHere

LEMMA SConditionDone ==
  ASSUME PInv, NEW In, Static(In, blocks), SReady(In), ConditionDone \/ LeftDone PROVE SInv'
<1>1. /\ phase' = "build" /\ UNCHANGED run /\ nodes' = nodes /\ got' = 0 /\ got \in Nat
      /\ Top.role \in {"cond", "lhs"}
  BY DEF ConditionDone, LeftDone, Returned, PInv, Typed
<1>2. Shaped(nodes, Top) /\ Top.bbs \in Seq(Nat)
  BY TopOfStack DEF PInv, Frames
<1> DEFINE f == Top.bbs
<1>3. PICK i \in 1..Len(f), j \in 1..Len(f), k \in 1..Len(f), r \in Roles \ {"operand"} :
        /\ blocks' = Emitted(blocks, insert, CondBr(f[j], f[k])) /\ Place(<<f[i]>>)
        /\ stack' = <<Frame(Top.node, r, f)>> \o Tail(stack)
        /\ Own(Frame(Top.node, r, f)) = Own(Top)
  <2>1. CASE ConditionDone /\ nodes[Top.node].kind = "while"
    <3>1. /\ blocks' = Emitted(blocks, insert, CondBr(f[2], f[3])) /\ Place(<<f[2]>>)
          /\ stack' = <<Frame(Top.node, "body", f)>> \o Tail(stack) /\ Top.role = "cond"
      BY <2>1 DEF ConditionDone, Returned
    <3>2. 2 \in 1..Len(f) /\ 3 \in 1..Len(f) /\ "body" \in Roles \ {"operand"}
      BY <1>2, <3>1 DEF Shaped, Roles, BlockRoles
    <3>3. Own(Frame(Top.node, "body", f)) = Own(Top)
      BY <3>1 DEF Own, Frame
    <3> QED
      BY <3>1, <3>2, <3>3
  <2>2. CASE ConditionDone /\ nodes[Top.node].kind # "while"
    <3>1. /\ blocks' = Emitted(blocks, insert, CondBr(f[1], f[2])) /\ Place(<<f[1]>>)
          /\ stack' = <<Frame(Top.node, "then", f)>> \o Tail(stack) /\ Top.role = "cond"
      BY <2>2 DEF ConditionDone, Returned
    <3>2. 1 \in 1..Len(f) /\ 2 \in 1..Len(f) /\ "then" \in Roles \ {"operand"}
      BY <1>2, <3>1 DEF Shaped, Roles, BlockRoles
    <3>3. Own(Frame(Top.node, "then", f)) = Own(Top)
      BY <3>1 DEF Own, Frame
    <3> QED
      BY <3>1, <3>2, <3>3
  <2>3. CASE LeftDone
    <3>1. /\ \/ blocks' = Emitted(blocks, insert, CondBr(f[1], f[2]))
             \/ blocks' = Emitted(blocks, insert, CondBr(f[2], f[1]))
          /\ Place(<<f[1]>>) /\ stack' = <<Frame(Top.node, "rhs", f)>> \o Tail(stack)
          /\ Top.role = "lhs"
      BY <2>3 DEF LeftDone, Returned, ShortTargets
    <3>2. 1 \in 1..Len(f) /\ 2 \in 1..Len(f) /\ "rhs" \in Roles \ {"operand"}
      BY <1>2, <3>1 DEF Shaped, Roles
    <3>3. Own(Frame(Top.node, "rhs", f)) = Own(Top)
      BY <3>1 DEF Own, Frame
    <3> QED
      BY <3>1, <3>2, <3>3
  <2> QED
    BY <2>1, <2>2, <2>3
<1> DEFINE x == Instr("condbr", 0, got, <<f[j], f[k]>>)
<1>4. /\ x \in Instructions /\ x.op = "condbr" /\ x.slot = got /\ x.to = <<f[j], f[k]>>
      /\ blocks' = Emitted(blocks, insert, <<x>>)
  <2>1. "condbr" \in Ops /\ f[j] \in Nat /\ f[k] \in Nat
    BY <1>2 DEF Ops, Terminators
  <2> QED
    BY <2>1, <1>1, <1>3 DEF CondBr, Instr, Instructions
<1> HIDE DEF x
<1>5. Fits(In, Len(blocks), Slots(blocks[1]), Avail(In, blocks, insert), x)
  <2>1. BranchesHere(x)
    BY <1>4 DEF BranchesHere
  <2>2. Avail(In, blocks, insert) \subseteq Avail(In, blocks, insert)
    OBVIOUS
  <2> QED
    BY <2>1, <2>2, SBranchFits, Zenon
<1>6. Became(In, blocks', Len(blocks), Slots(blocks[1]), insert, Avail(In, blocks, insert) \cup Gives(x))
  BY <1>4, <1>5, SEmits
<1>7. insert' = Top.bbs[i]
  BY <1>3 DEF Place
<1>8. QED
  BY <1>1, <1>3, <1>6, <1>7, SMove

LEMMA TwoMore ==
  ASSUME NEW q \in Blocks, NEW x \in Instructions, NEW y \in Instructions
  PROVE  (q \o <<x>>) \o <<y>> = q \o <<x, y>>
<1> DEFINE l == (q \o <<x>>) \o <<y>>
           r == q \o <<x, y>>
<1>1. /\ q \o <<x>> \in Blocks /\ Len(q \o <<x>>) = Len(q) + 1 /\ (q \o <<x>>)[Len(q) + 1] = x
      /\ \A k \in 1..Len(q) : (q \o <<x>>)[k] = q[k]
  BY DEF Blocks
<1>2. /\ l \in Seq(Instructions) /\ Len(l) = Len(q) + 2 /\ l[Len(q) + 2] = y /\ l[Len(q) + 1] = x
      /\ \A k \in 1..Len(q) : l[k] = q[k]
  <2> DEFINE p == q \o <<x>>
  <2> HIDE DEF p
  <2>1. /\ p \in Blocks /\ Len(p) = Len(q) + 1 /\ p[Len(q) + 1] = x /\ Len(q) \in Nat
        /\ \A k \in 1..Len(q) : p[k] = q[k]
    BY <1>1 DEF p, Blocks
  <2>2. /\ p \o <<y>> \in Seq(Instructions) /\ Len(p \o <<y>>) = Len(p) + 1
        /\ (p \o <<y>>)[Len(p) + 1] = y /\ \A k \in 1..Len(p) : (p \o <<y>>)[k] = p[k]
    BY <2>1 DEF Blocks
  <2> QED
    BY <2>1, <2>2 DEF p
<1>3. /\ r \in Seq(Instructions) /\ Len(r) = Len(q) + 2 /\ r[Len(q) + 2] = y /\ r[Len(q) + 1] = x
      /\ \A k \in 1..Len(q) : r[k] = q[k]
  BY DEF Blocks
<1>4. Len(q) \in Nat
  BY DEF Blocks
<1> HIDE DEF l, r
<1>5. Len(l) = Len(r) /\ \A k \in 1..Len(l) : l[k] = r[k]
  BY <1>2, <1>3, <1>4
<1>6. l = r
  BY <1>2, <1>3, <1>5, SeqEqual
<1>7. QED
  BY <1>6 DEF l, r

LEMMA SRightDone ==
  ASSUME PInv, NEW In, Static(In, blocks), SReady(In), RightDone PROVE SInv'
<1> DEFINE b == Top.bbs[2]
           x == Instr("copy", Top.node, got, << >>)
           y == Instr("br", 0, 0, <<b>>)
           cs == Emitted(blocks, insert, <<x>>)
<1>1. /\ phase' = "build" /\ UNCHANGED run /\ Top.role = "rhs" /\ nodes' = nodes
      /\ blocks' = Emitted(blocks, insert, <<x, y>>) /\ insert' = b /\ got \in Nat /\ got # 0
      /\ stack' = Tail(stack) /\ got' = Top.node
  BY DEF RightDone, Returned, PInv, Typed, Place
<1>2. b \in Nat /\ Top.node \in Nat /\ 2 \in 1..Len(Top.bbs) /\ Own(Top) = {Top.node}
  BY <1>1, TopOfStack DEF PInv, Shaped, Frames, Own
<1>3. /\ x \in Instructions /\ x.op = "copy" /\ x.node = Top.node /\ x.slot = got /\ x.to = << >>
      /\ y \in Instructions /\ y.op = "br" /\ y.slot = 0 /\ y.to = <<b>>
  <2>1. x \in Instructions /\ x.op = "copy" /\ x.node = Top.node /\ x.slot = got /\ x.to = << >>
    BY <1>1, <1>2, OneInstr DEF Ops, Instr
  <2>2. y \in Instructions /\ y.op = "br" /\ y.slot = 0 /\ y.to = <<b>>
    BY <1>2 DEF Instr, Instructions, Ops, Terminators
  <2> QED
    BY <2>1, <2>2
<1>4. blocks \in Seq(Blocks) /\ insert \in 1..Len(blocks)
  BY InsertBlock DEF PInv, Typed
<1> HIDE DEF x, y
<1>5. blocks' = Emitted(cs, insert, <<y>>)
  <2>1. <<x>> \in Blocks /\ <<y>> \in Blocks /\ blocks[insert] \in Blocks
    BY <1>3, <1>4 DEF Blocks
  <2>2. (blocks[insert] \o <<x>>) \o <<y>> = blocks[insert] \o <<x, y>>
    BY <2>1, <1>3, TwoMore
  <2>3. insert \in DOMAIN blocks
    BY <1>4
  <2> QED
    BY <2>2, <2>3, <1>1 DEF Emitted
<1>6. Fits(In, Len(blocks), Slots(blocks[1]), Avail(In, blocks, insert), x)
  <2>1. got \in Avail(In, blocks, insert)
    BY <1>1 DEF SReady
  <2>2. Top.node \in Slots(blocks[1])
    BY <1>1, STop DEF FrameOK
  <2> QED
    BY <2>1, <2>2, <1>3 DEF Fits
<1>7. Became(In, cs, Len(blocks), Slots(blocks[1]), insert, Avail(In, blocks, insert) \cup Gives(x))
  BY <1>3, <1>6, SEmits
<1> HIDE DEF cs
<1>8. /\ cs \in Seq(Blocks) /\ Len(cs) = Len(blocks) /\ Static(In, cs) /\ Slots(cs[1]) = Slots(blocks[1])
      /\ Avail(In, blocks, insert) \subseteq Avail(In, cs, insert)
  BY <1>7 DEF Became
<1>9. Fits(In, Len(cs), Slots(cs[1]), Avail(In, cs, insert), y)
  <2>1. BranchesHere(y)
    <3>1. Len(y.to) = 1 /\ y.to[1] = Top.bbs[2]
      BY <1>3
    <3> QED
      BY <1>2, <1>3, <3>1 DEF BranchesHere
  <2>3. Fits(In, Len(blocks), Slots(blocks[1]), Avail(In, cs, insert), y)
    BY <2>1, <1>8, SBranchFits, Zenon
  <2> QED
    BY <2>3, <1>8
<1>10. Became(In, blocks', Len(cs), Slots(cs[1]), insert, Avail(In, cs, insert) \cup Gives(y))
  BY <1>3, <1>4, <1>5, <1>8, <1>9, StaticEmits
<1>11. QED
  BY <1>1, <1>2, <1>8, <1>10, SMove

LEMMA SNotDone ==
  ASSUME PInv, NEW In, Static(In, blocks), SReady(In), NotDone PROVE SInv'
<1>1. /\ phase' = "build" /\ UNCHANGED <<nodes, insert, run>> /\ got \in Nat /\ got # 0
      /\ blocks' = Allocated(blocks, insert, Top.node, Instr("not", Top.node, got, << >>))
      /\ stack' = Tail(stack) /\ got' = Top.node /\ Top.role = "operand"
  BY DEF NotDone, Returned, PInv, Typed
<1>2. /\ Top.node \in Nat /\ Top.node \in 1..Len(nodes)
  BY <1>1, TopOfStack DEF PInv, Frames
<1>3. /\ Top.node \notin Slots(blocks[1]) /\ "not" \in Storing /\ got \in Avail(In, blocks, insert)
      /\ Around(Tail(stack), 1) \subseteq Avail(In, blocks, insert)
  <2>1. Top.node \notin Slots(blocks[1]) /\ Around(Tail(stack), 1) \subseteq Around(stack, 1)
    BY <1>1, STop DEF FrameOK
  <2> QED
    BY <2>1, <1>1 DEF SReady, Storing
<1>4. Became(In, blocks', Len(blocks), Slots(blocks[1]) \cup {Top.node}, insert,
             Avail(In, blocks, insert) \cup {Top.node})
  BY <1>1, <1>2, <1>3, SAllocates
<1>5. FramesOK(In, Len(blocks), Slots(blocks[1]) \cup {Top.node}, Len(nodes), Tail(stack))
  BY SPop
<1>6. Slots(blocks[1]) \cup {Top.node} \subseteq 1..Len(nodes)
  BY <1>2 DEF SReady
<1>7. QED
  BY <1>1, <1>3, <1>4, <1>5, <1>6, SDone DEF Became

LEMMA SValueDone ==
  ASSUME PInv, NEW In, Static(In, blocks), SReady(In), ValueDone PROVE SInv'
<1>1. /\ phase' = "build" /\ UNCHANGED <<nodes, insert, run>> /\ got \in Nat /\ got # 0
      /\ stack' = Tail(stack) /\ got' = 0
  BY DEF ValueDone, Returned, PInv, Typed
<1>2. PICK op \in {"set", "ret"} :
        blocks' = Emitted(blocks, insert, <<Instr(op, Top.node, got, << >>)>>)
  BY DEF ValueDone
<1> DEFINE x == Instr(op, Top.node, got, << >>)
<1>3. x \in Instructions /\ x.op = op /\ x.slot = got /\ x.to = << >>
  <2>1. Top.node \in Nat /\ op \in Ops
    BY TopOfStack DEF PInv, Frames, Ops, Terminators
  <2> QED
    BY <2>1, <1>1, OneInstr DEF Instr
<1>4. blocks' = Emitted(blocks, insert, <<x>>)
  BY <1>2
<1> HIDE DEF x
<1>5. /\ Fits(In, Len(blocks), Slots(blocks[1]), Avail(In, blocks, insert), x)
      /\ x.op # "alloca" /\ Gives(x) = {}
  BY <1>1, <1>3 DEF Fits, Gives, Storing, SReady
<1>6. Became(In, blocks', Len(blocks), Slots(blocks[1]), insert, Avail(In, blocks, insert) \cup Gives(x))
  BY <1>3, <1>4, <1>5, SEmits
<1>7. FramesOK(In, Len(blocks), Slots(blocks[1]), Len(nodes), Tail(stack))
  BY STop
<1>8. /\ Around(Tail(stack), 1) \subseteq Avail(In, blocks, insert)
      /\ Slots(blocks[1]) \subseteq 1..Len(nodes)
  BY STop DEF SReady
<1>9. QED
  BY <1>1, <1>5, <1>6, <1>7, <1>8, SDone DEF Became

\* Behind a body: a branch unless there is one.
LEMMA SLeavesBody ==
  ASSUME PInv, NEW In, Static(In, blocks), SReady(In), NEW i \in 1..Len(Top.bbs),
         blocks' = BranchUnlessTerminated(blocks, insert, Top.bbs[i])
  PROVE  \E have : Became(In, blocks', Len(blocks), Slots(blocks[1]), insert, have)
<1>1. CASE Terminated(blocks, insert)
  <2>1. blocks' = blocks /\ blocks \in Seq(Blocks)
    BY <1>1 DEF BranchUnlessTerminated, PInv, Typed
  <2> QED
    BY <2>1 DEF Became
<1>2. CASE ~Terminated(blocks, insert)
  <2> DEFINE b == Top.bbs[i]
             x == Instr("br", 0, 0, <<b>>)
  <2>1. blocks' = Emitted(blocks, insert, <<x>>)
    BY <1>2 DEF BranchUnlessTerminated
  <2>2. b \in Nat
    BY STop, SMTT(60) DEF Frames
  <2>3. x \in Instructions /\ x.op = "br" /\ x.slot = 0 /\ x.to = <<b>>
    BY <2>2 DEF Instr, Instructions, Ops, Terminators
  <2> HIDE DEF x
  <2>4. BranchesHere(x)
    <3>1. Len(x.to) = 1 /\ x.to[1] = Top.bbs[i]
      BY <2>3
    <3> QED
      BY <2>3, <3>1 DEF BranchesHere
  <2>5. Avail(In, blocks, insert) \subseteq Avail(In, blocks, insert)
    OBVIOUS
  <2>6. Fits(In, Len(blocks), Slots(blocks[1]), Avail(In, blocks, insert), x)
    BY <2>4, <2>5, SBranchFits, Zenon
  <2> QED
    BY <2>1, <2>3, <2>6, SEmits
<1>3. QED
  BY <1>1, <1>2

LEMMA SBodyEnds ==
  ASSUME PInv, NEW In, Static(In, blocks), SReady(In), ThenEnds \/ ElseEnds \/ WhileEnds PROVE SInv'
<1>1. /\ phase' = "build" /\ UNCHANGED run /\ nodes' = nodes /\ got' = 0
      /\ Top.role \in {"then", "else", "body"}
  BY DEF ThenEnds, ElseEnds, WhileEnds, BodyEnds
<1>2. 1 \in 1..Len(Top.bbs) /\ 2 \in 1..Len(Top.bbs) /\ 3 \in 1..Len(Top.bbs) /\ Own(Top) = {}
  BY <1>1, TopOfStack DEF PInv, Shaped, Own
<1>3. PICK i \in {1, 3}, j \in {2, 3} :
        blocks' = BranchUnlessTerminated(blocks, insert, Top.bbs[i]) /\ insert' = Top.bbs[j]
  BY DEF ThenEnds, ElseEnds, WhileEnds, Place
<1>4. PICK have : Became(In, blocks', Len(blocks), Slots(blocks[1]), insert, have)
  BY <1>2, <1>3, SLeavesBody
<1>5. \/ stack' = Tail(stack) /\ got' \in {0} \cup Own(Top)
      \/ \E r \in Roles \ {"operand"} : /\ stack' = <<Frame(Top.node, r, Top.bbs)>> \o Tail(stack)
                                        /\ Own(Frame(Top.node, r, Top.bbs)) = Own(Top) /\ got' = 0
  <2>1. stack' = Tail(stack) \/ stack' = <<Frame(Top.node, "else", Top.bbs)>> \o Tail(stack)
    BY DEF ThenEnds, ElseEnds, WhileEnds
  <2>2. "else" \in Roles \ {"operand"} /\ Own(Frame(Top.node, "else", Top.bbs)) = Own(Top)
    BY <1>2 DEF Roles, BlockRoles, Own, Frame
  <2> QED
    BY <2>1, <2>2, <1>1
<1>6. QED
  BY <1>1, <1>2, <1>3, <1>4, <1>5, SMove

AllEnd == \A b \in 1..Len(blocks) : Terminated(blocks, b)

LEMMA SFunctionEnds ==
  ASSUME PInv, NEW In, Static(In, blocks), SReady(In), FunctionEnds, AllEnd' PROVE SInv'
<1>1. /\ phase' = "run" /\ UNCHANGED <<insert, run>>
  BY DEF FunctionEnds
<1>2. PICK have : Became(In, blocks', Len(blocks), Slots(blocks[1]), insert, have)
  <2>1. CASE blocks' = blocks
    BY <2>1 DEF Became, PInv, Typed
  <2>2. CASE blocks' = Emitted(blocks, insert, <<Instr("ret", 0, 0, << >>)>>)
    <3> DEFINE x == Instr("ret", 0, 0, << >>)
    <3>1. x \in Instructions /\ x.op = "ret" /\ x.slot = 0 /\ x.to = << >>
      BY OneInstr DEF Instr, Ops, Terminators
    <3>2. blocks' = Emitted(blocks, insert, <<x>>)
      BY <2>2
    <3> HIDE DEF x
    <3>3. Fits(In, Len(blocks), Slots(blocks[1]), Avail(In, blocks, insert), x)
      BY <3>1 DEF Fits, Storing
    <3> QED
      BY <3>1, <3>2, <3>3, SEmits
  <2> QED
    BY <2>1, <2>2 DEF FunctionEnds
<1>3. Static(In, blocks') /\ 1 \in 1..Len(blocks') /\ In[1] = {} /\ blocks' \in Seq(Blocks)
  BY <1>2 DEF Became, Static
<1>4. 1 \in 1..Len(blocks'[1])
  <2>1. blocks'[1] \in Blocks /\ blocks'[1] # << >>
    BY <1>3 DEF AllEnd, Terminated
  <2> QED
    BY <2>1 DEF Blocks
<1>5. at' = <<1, 1>> /\ DOMAIN mem' = {}
  BY <1>1 DEF SReady, run
<1>6. Stored(blocks'[1], 0) = {} /\ SlotsTo(blocks'[1], 0) = {} /\ 1 - 1 = 0
  BY DEF Stored, SlotsTo
<1>7. SRunning(In)'
  BY <1>3, <1>4, <1>5, <1>6 DEF SRunning
<1>8. QED
  BY <1>1, <1>3, <1>7 DEF SInv
-----------------------------------------------------------------------------
\* One instruction further.
LEMMA StoredNext ==
  ASSUME NEW q \in Blocks, NEW k \in 1..Len(q)
  PROVE  /\ Stored(q, k) = Stored(q, k - 1) \cup Gives(q[k])
         /\ SlotsTo(q, k) = SlotsTo(q, k - 1) \cup (IF q[k].op = "alloca" THEN {q[k].node} ELSE {})
         /\ Stored(q, 0) = {} /\ SlotsTo(q, 0) = {}
<1>1. \A j : j \in 1..k <=> j \in 1 .. k - 1 \/ j = k
  OBVIOUS
<1>2. Stored(q, k) = Stored(q, k - 1) \cup Gives(q[k])
  BY <1>1 DEF Stored, Gives
<1>3. SlotsTo(q, k) = SlotsTo(q, k - 1) \cup (IF q[k].op = "alloca" THEN {q[k].node} ELSE {})
  BY <1>1 DEF SlotsTo
<1>4. Stored(q, 0) = {} /\ SlotsTo(q, 0) = {}
  BY DEF Stored, SlotsTo
<1>5. QED
  BY <1>2, <1>3, <1>4

\* Where another instruction stands in the entry block, every slot is allocated.
LEMMA SlotsBefore ==
  ASSUME NEW bs \in Seq(Blocks), 1 \in 1..Len(bs), Front(bs), NEW k \in 1..Len(bs[1]),
         bs[1][k].op # "alloca"
  PROVE  SlotsTo(bs[1], k - 1) = Slots(bs[1])
<1> DEFINE q == bs[1]
<1>1. q \in Blocks /\ Len(q) \in Nat
  BY DEF Blocks
<1>2. \A j \in 1..Len(q) : q[j].op = "alloca" => j \in 1 .. k - 1
  <2> SUFFICES ASSUME NEW j \in 1..Len(q), q[j].op = "alloca", ~(j <= k - 1) PROVE FALSE
    OBVIOUS
  <2>1. j # k
    OBVIOUS
  <2>2. k \in 1 .. j - 1
    BY <2>1
  <2> QED
    BY <2>2 DEF Front
<1>3. \A j \in 1 .. k - 1 : j \in 1..Len(q)
  BY <1>1
<1> HIDE DEF q
<1>4. SlotsTo(q, k - 1) = SlotsTo(q, Len(q))
  BY <1>2, <1>3 DEF SlotsTo
<1>5. QED
  BY <1>4 DEF Slots, q

\* In front of an allocation nothing is stored.
LEMMA NothingBefore ==
  ASSUME NEW bs \in Seq(Blocks), Front(bs), NEW b \in 1..Len(bs), NEW k \in 1..Len(bs[b]),
         bs[b][k].op = "alloca"
  PROVE  b = 1 /\ Stored(bs[b], k - 1) = {} /\ bs[b][k].node \notin SlotsTo(bs[b], k - 1)
<1>1. b = 1
  BY DEF Front
<1>2. \A j \in 1 .. k - 1 : bs[b][j].op = "alloca" /\ bs[b][j].node # bs[b][k].node
  BY <1>1 DEF Front
<1>3. QED
  BY <1>1, <1>2 DEF Stored, SlotsTo, Storing

\* What the machine knows of the instruction it is at.
LEMMA SHere ==
  ASSUME PInv, NEW In, Static(In, blocks), SRunning(In)
  PROVE  /\ at[1] \in 1..Len(blocks) /\ at[2] \in 1..Len(blocks[at[1]]) /\ blocks[at[1]] \in Blocks
         /\ Current \in Instructions /\ blocks \in Seq(Blocks) /\ 1 \in 1..Len(blocks) /\ Front(blocks)
         /\ Fits(In, Len(blocks), Slots(blocks[1]), In[at[1]] \cup Stored(blocks[at[1]], at[2] - 1), Current)
         /\ \A s \in In[at[1]] \cup Stored(blocks[at[1]], at[2] - 1) : s \in DOMAIN mem /\ mem[s] # {}
         /\ Current.op # "alloca" => DOMAIN mem = Slots(blocks[1])
         /\ Current.op = "alloca" =>
              /\ at[1] = 1 /\ In[at[1]] = {} /\ Stored(blocks[at[1]], at[2] - 1) = {}
              /\ Current.node \notin DOMAIN mem /\ DOMAIN mem = SlotsTo(blocks[1], at[2] - 1)
<1> DEFINE b == at[1]
           k == at[2]
           q == blocks[b]
<1>1. /\ b \in 1..Len(blocks) /\ k \in 1..Len(q)
      /\ \A s \in In[b] \cup Stored(q, k - 1) : s \in DOMAIN mem /\ mem[s] # {}
      /\ DOMAIN mem = IF b = 1 THEN SlotsTo(blocks[1], k - 1) ELSE Slots(blocks[1])
  BY DEF SRunning
<1>2. blocks \in Seq(Blocks) /\ q \in Blocks /\ q[k] \in Instructions /\ Current = q[k]
  BY <1>1, SMTT(60) DEF PInv, Typed, Blocks, Current
<1>3. /\ 1 \in 1..Len(blocks) /\ Front(blocks) /\ In[1] = {}
      /\ Sound(In, Len(blocks), Slots(blocks[1]), In[b], q)
  BY <1>1 DEF Static
<1>4. Fits(In, Len(blocks), Slots(blocks[1]), In[b] \cup Stored(q, k - 1), q[k])
  BY <1>1, <1>3 DEF Sound
<1>5. ASSUME q[k].op # "alloca" PROVE DOMAIN mem = Slots(blocks[1])
  <2>1. CASE b = 1
    <3>1. k \in 1..Len(blocks[1]) /\ blocks[1][k].op # "alloca"
      BY <2>1, <1>1, <1>5
    <3>2. SlotsTo(blocks[1], k - 1) = Slots(blocks[1])
      BY <3>1, <1>2, <1>3, SlotsBefore
    <3> QED
      BY <2>1, <3>2, <1>1
  <2>2. CASE b # 1
    BY <2>2, <1>1
  <2> QED
    BY <2>1, <2>2
<1>6. ASSUME q[k].op = "alloca"
      PROVE  /\ b = 1 /\ In[b] = {} /\ Stored(q, k - 1) = {}
             /\ q[k].node \notin DOMAIN mem /\ DOMAIN mem = SlotsTo(blocks[1], k - 1)
  <2>1. b = 1 /\ Stored(blocks[b], k - 1) = {} /\ blocks[b][k].node \notin SlotsTo(blocks[b], k - 1)
    BY <1>1, <1>2, <1>3, <1>6, NothingBefore
  <2> QED
    BY <2>1, <1>1, <1>3
<1>7. QED
  BY <1>1, <1>2, <1>3, <1>4, <1>5, <1>6

\* What an instruction that is no terminator does to the slots.
Wrote == /\ DOMAIN mem' = DOMAIN mem \cup
              (IF Current.op \in Storing \cup {"alloca"} THEN {Current.node} ELSE {})
         /\ \A s \in DOMAIN mem : s # Current.node => mem'[s] = mem[s]
         /\ Current.op \in Storing => mem'[Current.node] # {}
         /\ Current.op \notin Storing \cup {"alloca"} => mem' = mem

LEMMA SSteps ==
  ASSUME PInv, NEW In, Static(In, blocks), SRunning(In), AllEnd, UNCHANGED build,
         Current.op \notin Terminators, at' = <<at[1], at[2] + 1>>, Wrote
  PROVE  SRunning(In)'
<1> DEFINE b == at[1]
           k == at[2]
           q == blocks[b]
           x == Current
           kept == In[b] \cup Stored(q, k - 1)
<1>1. /\ b \in 1..Len(blocks) /\ k \in 1..Len(q) /\ q \in Blocks /\ x = q[k]
      /\ Fits(In, Len(blocks), Slots(blocks[1]), kept, x)
      /\ \A s \in kept : s \in DOMAIN mem /\ mem[s] # {}
      /\ x.op # "alloca" => DOMAIN mem = Slots(blocks[1])
      /\ x.op = "alloca" => b = 1 /\ kept = {} /\ DOMAIN mem = SlotsTo(blocks[1], k - 1)
  <2>1. x.op = "alloca" => In[b] = {} /\ Stored(q, k - 1) = {}
    BY SHere
  <2> QED
    BY <2>1, SHere DEF Current
<1>2. /\ Stored(q, k) = Stored(q, k - 1) \cup Gives(x)
      /\ SlotsTo(q, k) = SlotsTo(q, k - 1) \cup (IF x.op = "alloca" THEN {x.node} ELSE {})
  BY <1>1, StoredNext
<1>3. k # Len(q) /\ k \in Nat /\ Len(q) \in Nat
  <2>1. q[Len(q)].op \in Terminators
    BY <1>1 DEF AllEnd, Terminated
  <2> QED
    BY <2>1, <1>1 DEF Blocks
<1>4. k + 1 \in 1..Len(q) /\ (k + 1) - 1 = k
  BY <1>1, <1>3
<1>5. ASSUME NEW s \in In[b] \cup Stored(q, k) PROVE s \in DOMAIN mem' /\ mem'[s] # {}
  <2>1. s \in kept \/ (x.op \in Storing /\ s = x.node)
    BY <1>2 DEF Gives
  <2>2. CASE x.op \in Storing /\ s = x.node
    BY <2>2 DEF Wrote
  <2>3. CASE s \in kept /\ ~(x.op \in Storing /\ s = x.node)
    <3>1. s \in DOMAIN mem /\ mem[s] # {} /\ x.op # "alloca"
      BY <2>3, <1>1, SMTT(60)
    <3>2. x.op \in Storing => s # x.node
      BY <2>3
    <3> QED
      BY <3>1, <3>2 DEF Wrote
  <2> QED
    BY <2>1, <2>2, <2>3
<1>6. DOMAIN mem' = IF b = 1 THEN SlotsTo(blocks[1], k) ELSE Slots(blocks[1])
  <2>1. CASE x.op = "alloca"
    BY <2>1, <1>1, <1>2 DEF Wrote
  <2>2. CASE x.op # "alloca"
    <3>1. DOMAIN mem' = DOMAIN mem
      <4>1. x.op \in Storing => x.node \in DOMAIN mem
        BY <2>2, <1>1 DEF Fits
      <4> QED
        BY <4>1, <2>2, SMTT(60) DEF Wrote
    <3>2. b = 1 => SlotsTo(blocks[1], k) = Slots(blocks[1])
      <4> SUFFICES ASSUME b = 1 PROVE SlotsTo(blocks[1], k) = Slots(blocks[1])
        OBVIOUS
      <4>1. k \in 1..Len(blocks[1]) /\ blocks[1][k].op # "alloca"
        BY <2>2, <1>1
      <4>2. SlotsTo(blocks[1], k - 1) = Slots(blocks[1])
        BY <4>1, SlotsBefore, SHere
      <4> QED
        BY <4>2, <2>2, <1>2
    <3> QED
      BY <3>1, <3>2, <2>2, <1>1
  <2> QED
    BY <2>1, <2>2
<1>7. at'[1] = b /\ at'[2] = k + 1 /\ blocks' = blocks
  BY DEF build
<1>8. QED
  BY <1>1, <1>4, <1>5, <1>6, <1>7 DEF SRunning

\* A branch to a block keeps what has a value there.
LEMMA SGoes ==
  ASSUME PInv, NEW In, Static(In, blocks), SRunning(In), AllEnd, UNCHANGED <<build, mem>>,
         Current.op \in {"br", "condbr"}, NEW t \in 1..Len(Current.to), at' = <<Current.to[t], 1>>
  PROVE  SRunning(In)'
<1> DEFINE c == Current.to[t]
           kept == In[at[1]] \cup Stored(blocks[at[1]], at[2] - 1)
<1>1. /\ c \in 2..Len(blocks) /\ In[c] \subseteq kept
      /\ \A s \in kept : s \in DOMAIN mem /\ mem[s] # {}
      /\ DOMAIN mem = Slots(blocks[1]) /\ blocks \in Seq(Blocks)
  BY SHere DEF Fits
<1>2. c \in 1..Len(blocks) /\ c # 1
  BY <1>1
<1>3. 1 \in 1..Len(blocks[c]) /\ Stored(blocks[c], 0) = {} /\ 1 - 1 = 0
  <2>1. blocks[c] \in Blocks /\ blocks[c] # << >>
    BY <1>1, <1>2 DEF AllEnd, Terminated
  <2> QED
    BY <2>1 DEF Blocks, Stored
<1>4. at'[1] = c /\ at'[2] = 1 /\ blocks' = blocks /\ mem' = mem
  BY DEF build
<1> HIDE DEF c, kept
<1>5. QED
  BY <1>1, <1>2, <1>3, <1>4 DEF SRunning

LEMMA SExecute ==
  ASSUME PInv, NEW In, Static(In, blocks), phase = "run" => SRunning(In), AllEnd, Execute PROVE SInv'
<1>1. phase = "run" /\ SRunning(In) /\ UNCHANGED build
  BY DEF Execute, Step, Go
<1>2. Static(In, blocks')
  BY <1>1 DEF build
<1>3. CASE phase' = "returned"
  BY <1>2, <1>3 DEF SInv
<1>4. CASE phase' = "run" /\ Current.op \in {"br", "condbr"}
  <2>1. UNCHANGED mem
    BY <1>4 DEF Execute
  <2>2. at' = <<Current.to[1], 1>> \/ (Current.op = "condbr" /\ at' = <<Current.to[2], 1>>)
    BY <1>4 DEF Execute, Go
  <2>3. 1 \in 1..Len(Current.to) /\ (Current.op = "condbr" => 2 \in 1..Len(Current.to))
    <3>1. Current.op = "br" => Len(Current.to) = 1
      BY <1>1, SHere DEF Fits
    <3>2. Current.op = "condbr" => Len(Current.to) = 2
      BY <1>1, SHere DEF Fits
    <3> QED
      BY <3>1, <3>2, <1>4, SMTT(60)
  <2>4. SRunning(In)'
    BY <2>1, <2>2, <2>3, <1>1, <1>4, SGoes
  <2> QED
    BY <2>4, <1>2, <1>4 DEF SInv
<1>5. CASE phase' = "run" /\ Current.op \notin Terminators
  <2>1. at' = <<at[1], at[2] + 1>>
    BY <1>5 DEF Execute, Step, Go, Terminators
  <2>2. Wrote
    <3>1. CASE Current.op \in {"call", "set"}
      BY <3>1, <1>5 DEF Execute, Wrote, Storing, Terminators
    <3>2. CASE Current.op = "atom"
      <4>1. PICK v \in BOOLEAN : Write(Current.node, {v})
        BY <3>2 DEF Execute
      <4> QED
        BY <3>2, <4>1 DEF Write, Wrote, Storing
    <3>3. CASE Current.op = "alloca"
      <4>1. Write(Current.node, {})
        BY <3>3 DEF Execute
      <4> QED
        BY <3>3, <4>1 DEF Write, Wrote, Storing
    <3>4. CASE Current.op \in {"false", "true", "copy", "not"}
      <4>1. PICK v : Write(Current.node, {v})
        BY <3>4 DEF Execute
      <4> QED
        BY <3>4, <4>1 DEF Write, Wrote, Storing
    <3>5. Current.op \in {"call", "set", "atom", "alloca", "false", "true", "copy", "not"}
      BY <1>5 DEF Execute, Terminators
    <3> QED
      BY <3>1, <3>2, <3>3, <3>4, <3>5
  <2>3. SRunning(In)'
    BY <2>1, <2>2, <1>1, <1>5, SSteps
  <2> QED
    BY <2>3, <1>2, <1>5 DEF SInv
<1>6. \/ phase' = "returned"
      \/ phase' = "run" /\ Current.op \in {"br", "condbr"}
      \/ phase' = "run" /\ Current.op \notin Terminators
  BY <1>1 DEF Execute, Step, Go, Terminators
<1>7. QED
  BY <1>3, <1>4, <1>5, <1>6

LEMMA SRest ==
  ASSUME SInv, Break \/ Exit \/ UNCHANGED vars PROVE SInv'
<1>1. UNCHANGED <<build, run>> /\ (phase' = phase \/ phase' = "error")
  BY DEF Break, Exit, vars
<1>2. PICK In : /\ Static(In, blocks) /\ (phase = "build" => SReady(In)) /\ (phase = "run" => SRunning(In))
  BY DEF SInv
<1>3. Static(In, blocks') /\ (phase' = "build" => SReady(In)') /\ (phase' = "run" => SRunning(In)')
  BY <1>1, <1>2 DEF build, run, SReady, SRunning
<1>4. QED
  BY <1>3 DEF SInv

LEMMA SInit ==
  ASSUME Init PROVE SInv
<1> DEFINE In == [b \in 1..1 |-> {}]
<1>1. /\ phase = "build" /\ blocks = << << >> >> /\ insert = 1 /\ nodes = << >> /\ got = 0
      /\ stack = <<Frame(0, "top", << >>)>> /\ at = <<1, 1>> /\ mem = [s \in {} |-> {}]
  BY DEF Init
<1>2. Len(blocks) = 1 /\ blocks[1] = << >> /\ Len(blocks[1]) = 0 /\ Len(nodes) = 0
  BY <1>1
<1>3. In \in [1..Len(blocks) -> SUBSET Nat] /\ In[1] = {}
  BY <1>2
<1>4. Slots(blocks[1]) = {}
  BY <1>2 DEF Slots, SlotsTo
<1>5. Static(In, blocks)
  BY <1>2, <1>3 DEF Static, Front, Sound
<1>6. Len(stack) = 1 /\ stack[1].node = 0 /\ stack[1].role = "top" /\ Len(stack[1].bbs) = 0
  BY <1>1 DEF Frame
<1>7. Around(stack, 1) = {}
  BY <1>6 DEF Around, Own
<1> HIDE DEF In
<1>8. FramesOK(In, Len(blocks), Slots(blocks[1]), Len(nodes), stack)
  BY <1>2, <1>6 DEF FramesOK, FrameOK
<1>9. SReady(In)
  BY <1>1, <1>2, <1>4, <1>7, <1>8 DEF SReady
<1>10. QED
  BY <1>1, <1>5, <1>9 DEF SInv

Runnable == phase = "run" => AllEnd
LEMMA RunEnds ==
  PInv /\ TInv => Runnable
<1> SUFFICES ASSUME PInv, TInv, phase = "run", NEW b \in 1..Len(blocks) PROVE Terminated(blocks, b)
  BY DEF AllEnd, Runnable
<1>1. \E k \in 1..Len(layout) : layout[k] = b
  BY PlacedAtEnd DEF AllPlaced
<1>2. QED
  BY <1>1 DEF TInv, Settled, Ends, Terminated

LEMMA SNext ==
  ASSUME PInv, TInv, SInv, PInv', TInv', [Next]_vars PROVE SInv'
<1>1. Runnable /\ Runnable'
  BY RunEnds, PTL
<1>2. PICK In : /\ Static(In, blocks) /\ (phase = "build" => SReady(In)) /\ (phase = "run" => SRunning(In))
  BY DEF SInv
<1>3. CASE CallStatement \/ ReturnVoid
  BY <1>2, <1>3, SCallStatement DEF CallStatement, ReturnVoid, StatementWanted, InBlock
<1>4. CASE ValueStatement \/ BooleanNot
  BY <1>2, <1>4, SPushPlain DEF ValueStatement, BooleanNot, StatementWanted, InBlock, OperandWanted
<1>5. CASE Conditional
  BY <1>2, <1>5, SConditional DEF Conditional, StatementWanted, InBlock
<1>6. CASE While
  BY <1>2, <1>6, SWhile DEF While, StatementWanted, InBlock
<1>7. CASE Operand
  BY <1>2, <1>7, SOperand DEF Operand, OperandWanted
<1>8. CASE ShortCircuit
  BY <1>2, <1>8, SShortCircuit DEF ShortCircuit, OperandWanted
<1>9. CASE ConditionDone \/ LeftDone
  BY <1>2, <1>9, SConditionDone DEF ConditionDone, LeftDone, Returned
<1>10. CASE RightDone
  BY <1>2, <1>10, SRightDone DEF RightDone, Returned
<1>11. CASE NotDone
  BY <1>2, <1>11, SNotDone DEF NotDone, Returned
<1>12. CASE ValueDone
  BY <1>2, <1>12, SValueDone DEF ValueDone, Returned
<1>13. CASE ThenEnds \/ ElseEnds \/ WhileEnds
  BY <1>2, <1>13, SBodyEnds DEF ThenEnds, ElseEnds, WhileEnds, BodyEnds
<1>14. CASE FunctionEnds
  <2>1. phase = "build" /\ phase' = "run"
    BY <1>14 DEF FunctionEnds, BodyEnds
  <2> QED
    BY <2>1, <1>1, <1>2, <1>14, SFunctionEnds DEF Runnable
<1>15. CASE Execute
  <2>1. phase = "run"
    BY <1>15 DEF Execute, Step
  <2> QED
    BY <2>1, <1>1, <1>2, <1>15, SExecute DEF Runnable
<1>16. CASE Break \/ Exit \/ UNCHANGED vars
  BY <1>16, SRest
<1>17. QED
  BY <1>3, <1>4, <1>5, <1>6, <1>7, <1>8, <1>9, <1>10, <1>11, <1>12, <1>13, <1>14, <1>15, <1>16 DEF Next

\* A slot is allocated once per call of the function, in loops too, and no slot
\* is read before a value was stored in it (cg-helpers.c:378-410): the entry
\* block runs once and allocates, and a block is only entered where the slots
\* of the operators being generated around it have a value.
THEOREM SlotsFilled == Spec => []SlotsReady
<1>1. PInv /\ SInv => SlotsReady
  <2> SUFFICES ASSUME PInv, SInv, phase = "run" PROVE SlotsReady
    BY DEF SlotsReady
  <2>1. PICK In : Static(In, blocks) /\ SRunning(In)
    BY DEF SInv
  <2> DEFINE kept == In[at[1]] \cup Stored(blocks[at[1]], at[2] - 1)
  <2>2. /\ Fits(In, Len(blocks), Slots(blocks[1]), kept, Current)
        /\ \A s \in kept : s \in DOMAIN mem /\ mem[s] # {}
        /\ Current.op # "alloca" => DOMAIN mem = Slots(blocks[1])
        /\ Current.op = "alloca" => Current.node \notin DOMAIN mem
    BY <2>1, SHere
  <2> HIDE DEF kept
  <2>3. Current.op \in Storing => Current.node \in DOMAIN mem
    BY <2>2 DEF Fits, Storing
  <2>4. Current.slot # 0 => Current.slot \in DOMAIN mem /\ mem[Current.slot] # {}
    BY <2>2 DEF Fits
  <2> QED
    BY <2>2, <2>3, <2>4 DEF SlotsReady, Storing
<1>2. Init => PInv /\ TInv /\ SInv
  BY PInit, TInit, SInit
<1>3. PInv /\ TInv /\ SInv /\ [Next]_vars => (PInv /\ TInv /\ SInv)'
  BY PNext, TNext, SNext
<1>4. QED
  BY <1>1, <1>2, <1>3, PTL DEF Spec
=============================================================================
