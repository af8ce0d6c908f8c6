------------------------------ MODULE FlowProofs ------------------------------
(***************************************************************************)
(* The blocks of a function execute the leaves of its syntax tree in the   *)
(* order of the structured program (CfgBuilder!RunsAsWritten).             *)
(*                                                                         *)
(* At every point of the blocks a note says what is executed next, in the  *)
(* tree the function will have when it is complete: NInv says how the tree *)
(* grows, FlowInv that there are notes the instructions agree with, for    *)
(* every tree that may become of the present one.  The machine that runs   *)
(* the blocks keeps the promise of the note it stands at.                  *)
(***************************************************************************)
EXTENDS CfgProofs, WellFoundedInduction

(* The tree a call of the generator is at.                                 *)

StatementKinds == {"call", "ret", "set", "retval", "if", "while"}
Childless == {"call", "ret", "atom"}
\* A node has an earlier parent, or none at the top; statements stand in blocks.
NodeFits(n, i) == /\ n.parent < i /\ (n.parent = 0 <=> n.role = "top")
                  /\ n.kind \in StatementKinds <=> n.role \in BlockRoles

\* The parts of a role that the tree ns has of the node p.
PartsIn(ns, p, r) == {i \in 1..Len(ns) : ns[i].parent = p /\ ns[i].role = r}

\* A call still generates the parts of these roles, after those of its own.
Following(f) ==
  CASE f.role = "cond" -> {"then", "body"} \cup (IF HasElse(f) THEN {"else"} ELSE {})
    [] f.role = "then" -> IF HasElse(f) THEN {"else"} ELSE {}
    [] f.role = "lhs"  -> {"rhs"}
    [] OTHER           -> {}

\* The kinds of node at which a call generates a part of a role.
KindsWith(r) == CASE r = "cond" -> {"if", "while"}
                  [] r \in {"then", "else"} -> {"if"}
                  [] r = "body" -> {"while"}
                  [] r \in {"lhs", "rhs"} -> {"and", "or"}
                  [] r = "value" -> {"set", "retval"}
                  [] r = "operand" -> {"not"}
CallFits(ns, f) ==
  /\ f.role = "top" <=> f.node = 0
  /\ f.role # "top" => ns[f.node].kind \in KindsWith(f.role)
  /\ \A r \in Following(f) : PartsIn(ns, f.node, r) = {}
\* The node i is the last part of its role there is.
IsLast(ns, f, i) == \A j \in PartsIn(ns, f.node, f.role) : j <= i
CallsFit(ns, st) ==
  \A k \in 1..Len(st) : CallFits(ns, st[k]) /\ (k > 1 => IsLast(ns, st[k], st[k - 1].node))

\* Inner calls are at later nodes.
Ordered(ns, st) ==
  \A k \in 1..Len(st) : /\ st[k].node \in 0..Len(ns) /\ (st[k].node = 0 => st[k].role = "top")
                        /\ \A j \in 1 .. k - 1 : st[k].node < st[j].node

NodesFit(ns) == \A i \in 1..Len(ns) : NodeFits(ns[i], i)
Wanting(st, g) == g = 0 /\ st[1].role \notin BlockRoles
\* Only the node added last may lack its first part, which is wanted next.
Filled(ns, st, g) == \A i \in 1..Len(ns) : ns[i].kind \in Childless \/ i < Len(ns) \/ Wanting(st, g)
\* The slot just computed is that of a part of the innermost call's node.
GotPart(ns, st, g) == g # 0 => st[1].role \notin BlockRoles /\ g \in PartsIn(ns, st[1].node, st[1].role)

\* How the tree grows along with the calls, and that nothing runs before it is complete.
NInv == /\ NodesFit(nodes) /\ Filled(nodes, stack, got) /\ CallsFit(nodes, stack)
        /\ GotPart(nodes, stack, got)
        /\ phase = "build" => event = Source!Start
-----------------------------------------------------------------------------
(* The tree grows by one node at a time, behind the others.                *)

LEMMA Appended ==
  ASSUME NEW ns \in Seq(Nodes), NEW n \in Nodes
  PROVE  /\ Append(ns, n) \in Seq(Nodes) /\ Len(Append(ns, n)) = Len(ns) + 1 /\ Len(ns) \in Nat
         /\ Append(ns, n)[Len(ns) + 1] = n /\ \A i \in 1..Len(ns) : Append(ns, n)[i] = ns[i]
         /\ \A i : i \in 1 .. Len(ns) + 1 <=> i \in 1..Len(ns) \/ i = Len(ns) + 1
OBVIOUS

LEMMA PartsAppended ==
  ASSUME NEW ns \in Seq(Nodes), NEW n \in Nodes, NEW p, NEW r
  PROVE  PartsIn(Append(ns, n), p, r) =
           PartsIn(ns, p, r) \cup (IF n.parent = p /\ n.role = r THEN {Len(ns) + 1} ELSE {})
<1> DEFINE t == Append(ns, n)
<1>1. /\ Len(t) = Len(ns) + 1 /\ t[Len(ns) + 1] = n /\ \A i \in 1..Len(ns) : t[i] = ns[i]
      /\ \A i : i \in 1 .. Len(ns) + 1 <=> i \in 1..Len(ns) \/ i = Len(ns) + 1
  BY Appended
<1> HIDE DEF t
<1>2. ASSUME NEW i
      PROVE  i \in PartsIn(t, p, r) <=> i \in PartsIn(ns, p, r) \/ (n.parent = p /\ n.role = r /\ i = Len(ns) + 1)
  BY <1>1 DEF PartsIn
<1>3. QED
  BY <1>2 DEF t

\* A part of the innermost call's node is added.
LEMMA FitsAdded ==
  ASSUME NEW ns \in Seq(Nodes), NEW n \in Nodes, NEW st \in Seq(Frames), st # << >>, Ordered(ns, st),
         n.parent = st[1].node, n.role = st[1].role, CallsFit(ns, st)
  PROVE  CallsFit(Append(ns, n), st) /\ Ordered(Append(ns, n), st)
<1> DEFINE t == Append(ns, n)
<1>1. /\ Len(t) = Len(ns) + 1 /\ Len(ns) \in Nat /\ \A i \in 1..Len(ns) : t[i] = ns[i]
  BY Appended
<1>2. \A p, r : p # n.parent \/ r # n.role => PartsIn(t, p, r) = PartsIn(ns, p, r)
  <2> SUFFICES ASSUME NEW p, NEW r, p # n.parent \/ r # n.role PROVE PartsIn(t, p, r) = PartsIn(ns, p, r)
    OBVIOUS
  <2>1. PartsIn(t, p, r) = PartsIn(ns, p, r) \cup (IF n.parent = p /\ n.role = r THEN {Len(ns) + 1} ELSE {})
    BY PartsAppended
  <2> QED
    BY <2>1
<1>3. Len(st) \in Nat /\ 1 \in 1..Len(st) /\ \A k \in 1..Len(st) : st[k].node \in Nat
  <2>1. Len(st) \in Nat /\ 1 \in 1..Len(st) /\ \A k \in 1..Len(st) : st[k] \in Frames
    OBVIOUS
  <2> QED
    BY <2>1 DEF Frames
<1> HIDE DEF t
<1>4. \A k \in 1..Len(st) : k > 1 => st[k].node # n.parent
  <2> SUFFICES ASSUME NEW k \in 1..Len(st), k > 1 PROVE st[k].node < st[1].node
    BY <1>3
  <2> QED
    BY <1>3 DEF Ordered
<1>5. \A r \in Following(st[1]) : r # n.role
  BY <1>3 DEF Following
<1>6. ASSUME NEW k \in 1..Len(st) PROVE CallFits(t, st[k])
  <2>1. CallFits(ns, st[k])
    BY DEF CallsFit
  <2>2. st[k].role # "top" => t[st[k].node] = ns[st[k].node]
    BY <1>1 DEF Ordered
  <2>3. \A r \in Following(st[k]) : PartsIn(t, st[k].node, r) = PartsIn(ns, st[k].node, r)
    <3>1. CASE k = 1
      BY <3>1, <1>2, <1>5
    <3>2. CASE k # 1
      BY <3>2, <1>2, <1>4
    <3> QED
      BY <3>1, <3>2
  <2> QED
    BY <2>1, <2>2, <2>3 DEF CallFits
<1>7. ASSUME NEW k \in 1..Len(st), k > 1 PROVE IsLast(t, st[k], st[k - 1].node)
  <2>1. IsLast(ns, st[k], st[k - 1].node)
    BY <1>7 DEF CallsFit
  <2>2. PartsIn(t, st[k].node, st[k].role) = PartsIn(ns, st[k].node, st[k].role)
    BY <1>2, <1>4, <1>7
  <2> QED
    BY <2>1, <2>2 DEF IsLast
<1>8. CallsFit(t, st)
  BY <1>6, <1>7 DEF CallsFit
<1>9. Ordered(t, st)
  BY <1>1 DEF Ordered
<1>10. QED
  BY <1>8, <1>9 DEF t

LEMMA NodesFitAdded ==
  ASSUME NEW ns \in Seq(Nodes), NEW n \in Nodes, NodesFit(ns), NodeFits(n, Len(ns) + 1)
  PROVE  NodesFit(Append(ns, n))
BY Appended DEF NodesFit

\* What is known of a stack whose innermost call is new, returns or goes on.
LEMMA CallOnTop ==
  ASSUME NEW st \in Seq(Frames), NEW f \in Frames
  PROVE  /\ <<f>> \o st \in Seq(Frames) /\ Len(<<f>> \o st) = Len(st) + 1 /\ (<<f>> \o st)[1] = f
         /\ \A k \in 1 .. Len(st) + 1 : k # 1 => (<<f>> \o st)[k] = st[k - 1] /\ k - 1 \in 1..Len(st)
OBVIOUS

LEMMA FitsPushed ==
  ASSUME NEW ns \in Seq(Nodes), NEW st \in Seq(Frames), st # << >>, NEW f \in Frames,
         CallsFit(ns, st), Ordered(ns, st), CallFits(ns, f), IsLast(ns, st[1], f.node),
         f.node \in 1..Len(ns), \A k \in 1..Len(st) : st[k].node < f.node
  PROVE  CallsFit(ns, <<f>> \o st) /\ Ordered(ns, <<f>> \o st)
<1> DEFINE r == <<f>> \o st
<1>1. /\ Len(r) = Len(st) + 1 /\ r[1] = f /\ Len(st) \in Nat
      /\ \A k \in 1 .. Len(st) + 1 : k # 1 => r[k] = st[k - 1] /\ k - 1 \in 1..Len(st)
  BY CallOnTop
<1>2. ASSUME NEW k \in 1..Len(r), k # 1
      PROVE  CallFits(ns, r[k]) /\ IsLast(ns, r[k], r[k - 1].node)
  <2>1. r[k] = st[k - 1] /\ k - 1 \in 1..Len(st) /\ k \in Nat /\ k - 1 # 1 => r[k - 1] = st[k - 1 - 1]
    BY <1>1, <1>2
  <2> QED
    BY <2>1, <1>1, <1>2 DEF CallsFit
<1>3. ASSUME NEW k \in 1..Len(r), k # 1
      PROVE  /\ r[k].node \in 0..Len(ns) /\ (r[k].node = 0 => r[k].role = "top")
             /\ \A j \in 1 .. k - 1 : r[k].node < r[j].node
  <2>1. r[k] = st[k - 1] /\ k - 1 \in 1..Len(st) /\ k \in Nat
    BY <1>1, <1>3
  <2>2. ASSUME NEW j \in 1 .. k - 1 PROVE r[k].node < r[j].node
    <3>1. CASE j = 1
      BY <2>1, <3>1, <1>1
    <3>2. CASE j # 1
      <4>1. r[j] = st[j - 1] /\ j - 1 \in 1 .. k - 1 - 1
        BY <3>2, <1>1
      <4> QED
        BY <4>1, <2>1 DEF Ordered
    <3> QED
      BY <3>1, <3>2
  <2> QED
    BY <2>1, <2>2 DEF Ordered
<1> HIDE DEF r
<1>4. CallsFit(ns, r)
  BY <1>1, <1>2 DEF CallsFit
<1>5. Ordered(ns, r)
  <2>1. f.node \in 0..Len(ns) /\ f.node # 0
    OBVIOUS
  <2> QED
    BY <2>1, <1>1, <1>3 DEF Ordered
<1>6. QED
  BY <1>4, <1>5 DEF r

LEMMA FitsPopped ==
  ASSUME NEW ns, NEW st \in Seq(Frames), Len(st) >= 2, CallsFit(ns, st), Ordered(ns, st)
  PROVE  /\ Tail(st) \in Seq(Frames) /\ Tail(st) # << >> /\ Tail(st)[1] = st[2]
         /\ CallsFit(ns, Tail(st)) /\ Ordered(ns, Tail(st)) /\ IsLast(ns, st[2], st[1].node)
<1> DEFINE t == Tail(st)
<1>1. /\ t \in Seq(Frames) /\ Len(t) = Len(st) - 1 /\ Len(st) \in Nat /\ Len(t) \in Nat /\ Len(t) >= 1
      /\ t # << >> /\ t[1] = st[2]
      /\ \A k \in 1..Len(t) : t[k] = st[k + 1] /\ k + 1 \in 1..Len(st)
  <2>1. st # << >> /\ Len(st) \in Nat /\ Len(st) >= 1
    OBVIOUS
  <2>2. t \in Seq(Frames) /\ Len(t) = Len(st) - 1 /\ \A k \in 1 .. Len(st) - 1 : t[k] = st[k + 1]
    BY <2>1, HeadTailProperties
  <2>3. 1 \in 1 .. Len(st) - 1 /\ 1 + 1 = 2
    BY <2>1
  <2> HIDE DEF t
  <2>4. t[1] = st[2] /\ t # << >>
    BY <2>2, <2>3
  <2> QED
    BY <2>1, <2>2, <2>4
<1> HIDE DEF t
<1>2. CallsFit(ns, t)
  <2> SUFFICES ASSUME NEW k \in 1..Len(t)
               PROVE  CallFits(ns, t[k]) /\ (k > 1 => IsLast(ns, t[k], t[k - 1].node))
    BY DEF CallsFit
  <2>1. t[k] = st[k + 1] /\ k + 1 \in 1..Len(st) /\ k + 1 > 1 /\ (k + 1) - 1 = k
    BY <1>1
  <2>2. k > 1 => t[k - 1] = st[(k - 1) + 1] /\ (k - 1) + 1 = k
    BY <1>1
  <2> QED
    BY <2>1, <2>2 DEF CallsFit
<1>3. Ordered(ns, t)
  <2> SUFFICES ASSUME NEW k \in 1..Len(t)
               PROVE  /\ t[k].node \in 0..Len(ns) /\ (t[k].node = 0 => t[k].role = "top")
                      /\ \A j \in 1 .. k - 1 : t[k].node < t[j].node
    BY DEF Ordered
  <2>1. t[k] = st[k + 1] /\ k + 1 \in 1..Len(st)
    BY <1>1
  <2>2. \A j \in 1 .. k - 1 : t[j] = st[j + 1] /\ j + 1 \in 1 .. (k + 1) - 1
    BY <1>1
  <2> QED
    BY <2>1, <2>2 DEF Ordered
<1>4. IsLast(ns, st[2], st[1].node)
  <2>1. 2 \in 1..Len(st) /\ 2 > 1 /\ 2 - 1 = 1
    BY <1>1
  <2> QED
    BY <2>1 DEF CallsFit
<1>5. QED
  BY <1>1, <1>2, <1>3, <1>4 DEF t

\* The stack of a function being built.
LEMMA StackOrdered ==
  ASSUME PInv, SInv, phase = "build"
  PROVE  /\ Ordered(nodes, stack) /\ stack \in Seq(Frames) /\ stack # << >> /\ nodes \in Seq(Nodes)
         /\ Top = stack[1] /\ Here = Len(nodes) + 1 /\ Len(nodes) \in Nat
<1>1. /\ stack \in Seq(Frames) /\ stack # << >> /\ nodes \in Seq(Nodes) /\ Len(nodes) \in Nat
      /\ Top = stack[1] /\ Here = Len(nodes) + 1
  BY TopOfStack DEF PInv, Typed, Stacked, Here
<1>2. PICK In : SReady(In)
  BY DEF SInv
<1>3. \A k \in 1..Len(stack) : stack[k].node <= Len(nodes) /\ \A j \in 1 .. k - 1 : stack[k].node < stack[j].node
  BY <1>2 DEF SReady, FramesOK
<1>4. \A k \in 1..Len(stack) : stack[k].node \in Nat
  <2>1. \A k \in 1..Len(stack) : stack[k] \in Frames
    BY <1>1
  <2> QED
    BY <2>1 DEF Frames
<1>5. \A k \in 1..Len(stack) : stack[k].node = 0 => stack[k].role = "top"
  <2>1. \A k \in 1..Len(stack) : stack[k].role # "top" => k \in 1 .. Len(stack) - 1
    BY <1>1 DEF PInv, Stacked
  <2> QED
    BY <2>1 DEF PInv, Stacked
<1>6. Ordered(nodes, stack)
  BY <1>1, <1>3, <1>4, <1>5 DEF Ordered
<1>7. QED
  BY <1>1, <1>6

\* The node a statement or an operand adds.
LEMMA Adds ==
  ASSUME PInv, SInv, NInv, phase = "build", NEW k \in Kinds, Add(k),
         k \in StatementKinds <=> Top.role \in BlockRoles
  PROVE  /\ \E n \in Nodes : /\ nodes' = Append(nodes, n) /\ n.kind = k /\ n.parent = stack[1].node
                             /\ n.role = stack[1].role
         /\ NodesFit(nodes') /\ CallsFit(nodes', stack) /\ Ordered(nodes', stack)
         /\ nodes' \in Seq(Nodes) /\ Len(nodes') = Here /\ nodes'[Here].kind = k
         /\ nodes'[Here].parent = stack[1].node /\ nodes'[Here].role = stack[1].role
         /\ \A i \in 1..Len(nodes) : nodes'[i] = nodes[i]
<1>1. PICK n \in Nodes : /\ nodes' = Append(nodes, n) /\ n.kind = k /\ n.parent = Top.node /\ n.role = Top.role
  BY NewNode
<1>2. /\ Ordered(nodes, stack) /\ stack \in Seq(Frames) /\ stack # << >> /\ nodes \in Seq(Nodes)
      /\ Top = stack[1] /\ Here = Len(nodes) + 1 /\ Len(nodes) \in Nat
  BY StackOrdered
<1>3. /\ nodes' \in Seq(Nodes) /\ Len(nodes') = Here /\ nodes'[Here] = n
      /\ \A i \in 1..Len(nodes) : nodes'[i] = nodes[i]
  BY <1>1, <1>2, Appended
<1>4. CallsFit(nodes', stack) /\ Ordered(nodes', stack)
  BY <1>1, <1>2, FitsAdded DEF NInv
<1>5. NodeFits(n, Len(nodes) + 1)
  <2>1. 1 \in 1..Len(stack)
    BY <1>2
  <2>2. Top.node \in 0..Len(nodes) /\ (Top.role = "top" <=> Top.node = 0)
    BY <1>2, <2>1 DEF Ordered, NInv, CallsFit, CallFits
  <2> QED
    BY <2>2, <1>1, <1>2 DEF NodeFits
<1>6. NodesFit(nodes')
  BY <1>1, <1>2, <1>5, NodesFitAdded DEF NInv
<1>7. QED
  BY <1>1, <1>2, <1>3, <1>4, <1>6

LEMMA NLeaf ==
  ASSUME PInv, SInv, NInv, CallStatement \/ ReturnVoid \/ Operand PROVE NInv'
<1>1. PICK k \in Childless : Add(k) /\ (k \in StatementKinds <=> Top.role \in BlockRoles)
  BY DEF CallStatement, ReturnVoid, Operand, InBlock, StatementWanted, OperandWanted, Childless, StatementKinds
<1>2. /\ phase = "build" /\ event' = event /\ stack' = stack
      /\ got' = 0 \/ (got' = Here /\ Top.role \notin BlockRoles)
  BY DEF CallStatement, ReturnVoid, Operand, InBlock, StatementWanted, OperandWanted, run
<1>3. /\ NodesFit(nodes') /\ CallsFit(nodes', stack) /\ nodes' \in Seq(Nodes) /\ Len(nodes') = Here
      /\ nodes'[Here].kind = k /\ nodes'[Here].parent = stack[1].node /\ nodes'[Here].role = stack[1].role
      /\ \A i \in 1..Len(nodes) : nodes'[i] = nodes[i]
  <2>1. k \in Kinds
    BY DEF Childless, Kinds
  <2> QED
    BY <2>1, <1>1, <1>2, Adds
<1>4. Top = stack[1] /\ Here = Len(nodes) + 1 /\ Len(nodes) \in Nat
  BY <1>2, StackOrdered
<1>5. Filled(nodes', stack', got')
  <2> SUFFICES ASSUME NEW i \in 1..Len(nodes') PROVE nodes'[i].kind \in Childless \/ i < Len(nodes')
    BY DEF Filled
  <2> QED
    BY <1>1, <1>3, <1>4
<1>6. GotPart(nodes', stack', got')
  BY <1>2, <1>3, <1>4 DEF GotPart, PartsIn
<1>7. QED
  BY <1>2, <1>3, <1>5, <1>6 DEF NInv

\* A statement or operator that calls the generator for its first part.
LEMMA NPush ==
  ASSUME PInv, SInv, NInv, phase = "build", event' = event, NEW k \in Kinds, Add(k),
         k \in StatementKinds <=> Top.role \in BlockRoles,
         NEW f \in Frames, f.node = Here, k \in KindsWith(f.role), f.role \notin BlockRoles,
         stack' = <<f>> \o stack, got' = 0
  PROVE  /\ NInv' /\ CallsFit(nodes', stack') /\ Ordered(nodes', stack')
<1>1. /\ NodesFit(nodes') /\ CallsFit(nodes', stack) /\ nodes' \in Seq(Nodes) /\ Len(nodes') = Here
      /\ nodes'[Here].kind = k /\ nodes'[Here].parent = stack[1].node /\ nodes'[Here].role = stack[1].role
      /\ Ordered(nodes', stack)
      /\ \A i \in 1..Len(nodes) : nodes'[i] = nodes[i]
  BY Adds
<1>2. Top = stack[1] /\ Here = Len(nodes) + 1 /\ Len(nodes) \in Nat /\ stack \in Seq(Frames) /\ stack # << >>
      /\ Ordered(nodes, stack)
  BY StackOrdered
<1>3. \A i \in 1..Len(nodes') : nodes'[i].parent # Here
  <2> SUFFICES ASSUME NEW i \in 1..Len(nodes') PROVE nodes'[i].parent # Here
    OBVIOUS
  <2>1. nodes'[i].parent < i /\ nodes'[i] \in Nodes
    BY <1>1 DEF NodesFit, NodeFits
  <2>2. nodes'[i].parent \in Nat
    BY <2>1 DEF Nodes
  <2> QED
    BY <2>1, <2>2, <1>1, <1>2
<1>4. CallFits(nodes', f)
  <2>1. \A r : PartsIn(nodes', f.node, r) = {}
    BY <1>3 DEF PartsIn
  <2>2. f.role # "top" /\ f.node # 0
    BY <1>2 DEF BlockRoles
  <2> QED
    BY <2>1, <2>2, <1>1 DEF CallFits
<1>5. IsLast(nodes', stack[1], f.node)
  BY <1>1, <1>2 DEF IsLast, PartsIn
<1>6. \A j \in 1..Len(stack) : stack[j].node < f.node
  <2>1. \A j \in 1..Len(stack) : stack[j].node \in 0..Len(nodes)
    BY <1>2 DEF Ordered
  <2> QED
    BY <2>1, <1>2
<1>7. CallsFit(nodes', stack') /\ Ordered(nodes', stack')
  <2>1. f.node \in 1..Len(nodes')
    BY <1>1, <1>2
  <2> QED
    BY <2>1, <1>1, <1>2, <1>4, <1>5, <1>6, FitsPushed
<1>8. stack'[1] = f
  BY <1>2
<1>9. Filled(nodes', stack', got') /\ GotPart(nodes', stack', got')
  BY <1>8 DEF Filled, Wanting, GotPart
<1>10. QED
  BY <1>1, <1>7, <1>9 DEF NInv

LEMMA NPushes ==
  ASSUME PInv, SInv, NInv, ValueStatement \/ Conditional \/ While \/ ShortCircuit \/ BooleanNot
  PROVE  NInv' 
<1>1. /\ phase = "build" /\ event' = event /\ got' = 0
      /\ Top = stack[1] /\ Here = Len(nodes) + 1 /\ Len(nodes) \in Nat /\ Len(blocks) \in Nat
  <2>1. phase = "build" /\ event' = event /\ got' = 0
    BY DEF ValueStatement, Conditional, While, ShortCircuit, BooleanNot, InBlock, StatementWanted, OperandWanted, run
  <2> QED
    BY <2>1, StackOrdered, InsertBlock
<1>2. CASE ValueStatement \/ BooleanNot
  <2>1. PICK k \in {"set", "retval", "not"} :
          /\ Add(k) /\ (k \in StatementKinds <=> Top.role \in BlockRoles)
          /\ stack' = <<Frame(Here, IF k = "not" THEN "operand" ELSE "value", << >>)>> \o stack
    BY <1>2 DEF ValueStatement, BooleanNot, InBlock, StatementWanted, OperandWanted, StatementKinds
  <2> DEFINE f == Frame(Here, IF k = "not" THEN "operand" ELSE "value", << >>)
  <2>2. /\ f \in Frames /\ f.node = Here /\ k \in KindsWith(f.role) /\ f.role \notin BlockRoles
        /\ k \in Kinds
    BY <1>1 DEF Frame, Frames, Roles, KindsWith, BlockRoles, Kinds
  <2>3. stack' = <<f>> \o stack
    BY <2>1
  <2> HIDE DEF f
  <2> QED
    BY <1>1, <2>1, <2>2, <2>3, NPush
<1>3. CASE Conditional \/ While
  <2>1. PICK k \in {"if", "while"} : Add(k) /\ (k \in StatementKinds <=> Top.role \in BlockRoles)
    BY <1>3 DEF Conditional, While, InBlock, StatementWanted, StatementKinds
  <2>2. PICK bbs \in Seq(Nat) : stack' = <<Frame(Here, "cond", bbs)>> \o stack
    <3>1. CASE While
      <4>1. <<Len(blocks) + 1, Len(blocks) + 1 + 1, Len(blocks) + 1 + 2>> \in Seq(Nat)
        BY <1>1
      <4> QED
        BY <4>1, <3>1 DEF While
    <3>2. CASE Conditional
      <4>1. PICK e \in BOOLEAN :
               LET body == Len(blocks) + 1
                   end  == IF e THEN body + 2 ELSE body + 1
               IN stack' = <<Frame(Here, "cond", <<body, body + 1, end>>)>> \o stack
        BY <3>2 DEF Conditional
      <4>2. <<Len(blocks) + 1, Len(blocks) + 1 + 1, IF e THEN Len(blocks) + 1 + 2 ELSE Len(blocks) + 1 + 1>> \in Seq(Nat)
        BY <1>1
      <4> QED
        BY <4>1, <4>2
    <3> QED
      BY <3>1, <3>2, <1>3
  <2> DEFINE f == Frame(Here, "cond", bbs)
  <2>3. /\ f \in Frames /\ f.node = Here /\ k \in KindsWith(f.role) /\ f.role \notin BlockRoles
        /\ k \in Kinds
    BY <1>1 DEF Frame, Frames, Roles, KindsWith, BlockRoles, Kinds
  <2>4. stack' = <<f>> \o stack
    BY <2>2
  <2> HIDE DEF f
  <2> QED
    BY <1>1, <2>1, <2>3, <2>4, NPush
<1>4. CASE ShortCircuit
  <2>1. PICK k \in {"and", "or"} : Add(k) /\ (k \in StatementKinds <=> Top.role \in BlockRoles)
    BY <1>4 DEF ShortCircuit, OperandWanted, StatementKinds
  <2> DEFINE f == Frame(Here, "lhs", <<Len(blocks) + 1, Len(blocks) + 2>>)
  <2>2. /\ f \in Frames /\ f.node = Here /\ k \in KindsWith(f.role) /\ f.role \notin BlockRoles
        /\ k \in Kinds
    BY <1>1 DEF Frame, Frames, Roles, KindsWith, BlockRoles, Kinds
  <2>3. stack' = <<f>> \o stack
    BY <1>4 DEF ShortCircuit
  <2> HIDE DEF f
  <2> QED
    BY <1>1, <2>1, <2>2, <2>3, NPush
<1>5. QED
  BY <1>2, <1>3, <1>4

\* The innermost call returns.
LEMMA NPop ==
  ASSUME PInv, SInv, NInv, phase = "build", event' = event, nodes' = nodes, Top.role # "top",
         stack' = Tail(stack), got' \in {0, Top.node},
         got' = 0 <=> nodes[Top.node].kind \in StatementKinds, got # 0 \/ Top.role \in BlockRoles
  PROVE  /\ NInv' /\ stack'[1] = stack[2] /\ IsLast(nodes, stack[2], Top.node) /\ Ordered(nodes, stack')
         /\ nodes[Top.node].parent = stack[2].node /\ nodes[Top.node].role = stack[2].role
         /\ stack[2].role \in BlockRoles <=> got' = 0
<1>1. /\ Top = stack[1] /\ Len(nodes) \in Nat /\ stack \in Seq(Frames) /\ stack # << >>
      /\ Ordered(nodes, stack)
  BY StackOrdered
<1>2. /\ Len(stack) >= 2 /\ Top.node \in 1..Len(nodes) /\ nodes[Top.node].parent = stack[2].node
      /\ nodes[Top.node].role = stack[2].role
  BY TopOfStack DEF PInv
<1>3. /\ Tail(stack)[1] = stack[2] /\ CallsFit(nodes, Tail(stack)) /\ Ordered(nodes, Tail(stack))
      /\ IsLast(nodes, stack[2], Top.node)
  BY <1>1, <1>2, FitsPopped DEF NInv
<1>4. stack[2].role \in BlockRoles <=> got' = 0
  BY <1>2 DEF NInv, NodesFit, NodeFits
<1>5. GotPart(nodes', stack', got')
  BY <1>2, <1>3, <1>4 DEF GotPart, PartsIn
<1>6. Filled(nodes', stack', got')
  BY <1>1 DEF NInv, Filled, Wanting
<1>7. QED
  BY <1>1, <1>2, <1>3, <1>4, <1>5, <1>6 DEF NInv

\* The innermost call goes on with the parts of another role.
LEMMA NSwap ==
  ASSUME PInv, SInv, NInv, phase = "build", event' = event, nodes' = nodes, Top.role # "top",
         NEW g \in Frames, g.node = Top.node, stack' = <<g>> \o Tail(stack), got' = 0,
         g.role # "top", nodes[g.node].kind \in KindsWith(g.role), Following(g) \subseteq Following(Top),
         got # 0 \/ Top.role \in BlockRoles
  PROVE  NInv' /\ stack'[1] = g /\ Ordered(nodes, stack')
<1>1. /\ Top = stack[1] /\ Len(nodes) \in Nat /\ stack \in Seq(Frames) /\ stack # << >>
      /\ Ordered(nodes, stack)
  BY StackOrdered
<1>2. Len(stack) >= 2 /\ Top.node \in 1..Len(nodes)
  BY TopOfStack DEF PInv
<1>3. /\ Tail(stack)[1] = stack[2] /\ CallsFit(nodes, Tail(stack)) /\ Ordered(nodes, Tail(stack))
      /\ IsLast(nodes, stack[2], Top.node) /\ Tail(stack) \in Seq(Frames) /\ Tail(stack) # << >>
  BY <1>1, <1>2, FitsPopped DEF NInv
<1>4. CallFits(nodes, g)
  <2>1. 1 \in 1..Len(stack)
    BY <1>1
  <2> QED
    BY <2>1, <1>1, <1>2 DEF NInv, CallsFit, CallFits
<1>5. \A k \in 1..Len(Tail(stack)) : Tail(stack)[k].node < g.node
  <2> SUFFICES ASSUME NEW k \in 1..Len(Tail(stack)) PROVE Tail(stack)[k].node < g.node
    OBVIOUS
  <2>1. k + 1 \in 1..Len(stack) /\ Tail(stack)[k] = stack[k + 1] /\ 1 \in 1 .. (k + 1) - 1
    BY <1>1
  <2> QED
    BY <2>1, <1>1 DEF Ordered
<1>6. CallsFit(nodes, stack') /\ Ordered(nodes, stack')
  <2> DEFINE t == Tail(stack)
  <2>1. /\ t \in Seq(Frames) /\ t # << >> /\ CallsFit(nodes, t) /\ Ordered(nodes, t)
        /\ IsLast(nodes, t[1], g.node) /\ \A k \in 1..Len(t) : t[k].node < g.node
        /\ g.node \in 1..Len(nodes) /\ nodes \in Seq(Nodes) /\ stack' = <<g>> \o t
    BY <1>2, <1>3, <1>5 DEF PInv, Typed
  <2> HIDE DEF t
  <2> QED
    BY <2>1, <1>4, FitsPushed
<1>7. stack'[1] = g
  BY <1>3
<1>8. Filled(nodes', stack', got') /\ GotPart(nodes', stack', got')
  BY <1>1 DEF NInv, Filled, Wanting, GotPart
<1>9. QED
  BY <1>6, <1>7, <1>8 DEF NInv

\* The kind of the node the innermost call is at.
LEMMA TopKind ==
  ASSUME PInv, SInv, NInv, phase = "build"
  PROVE  /\ Top.role # "top" => nodes[Top.node].kind \in KindsWith(Top.role)
         /\ \A r \in Following(Top) : PartsIn(nodes, Top.node, r) = {}
         /\ Top.role = "top" <=> Top.node = 0
<1>1. Top = stack[1] /\ 1 \in 1..Len(stack)
  BY TopOfStack DEF PInv
<1>2. CallFits(nodes, Top)
  BY <1>1 DEF NInv, CallsFit
<1>3. QED
  BY <1>2 DEF CallFits

LEMMA NMoves ==
  ASSUME PInv, SInv, NInv,
         ConditionDone \/ LeftDone \/ RightDone \/ NotDone \/ ValueDone \/ ThenEnds \/ ElseEnds \/ WhileEnds
  PROVE  NInv'
<1>1. /\ phase = "build" /\ event' = event /\ nodes' = nodes /\ Top.role # "top"
      /\ got # 0 \/ Top.role \in BlockRoles
  BY DEF ConditionDone, LeftDone, RightDone, NotDone, ValueDone, ThenEnds, ElseEnds, WhileEnds,
         Returned, BodyEnds, run, BlockRoles
<1>2. nodes[Top.node].kind \in KindsWith(Top.role) /\ Top \in Frames
  BY <1>1, TopKind, TopOfStack DEF PInv
<1>3. ASSUME stack' = Tail(stack), got' \in {0, Top.node}, got' = 0 <=> nodes[Top.node].kind \in StatementKinds
      PROVE  NInv'
  BY <1>1, <1>3, NPop
<1>4. Top.node # 0
  BY <1>1, TopKind
<1>5. CASE RightDone \/ NotDone
  <2>1. nodes[Top.node].kind \notin StatementKinds
    BY <1>2, <1>5 DEF RightDone, NotDone, Returned, KindsWith, StatementKinds
  <2> QED
    BY <2>1, <1>3, <1>4, <1>5 DEF RightDone, NotDone
<1>6. CASE ValueDone
  <2>1. nodes[Top.node].kind \in StatementKinds
    BY <1>2, <1>6 DEF ValueDone, Returned, KindsWith, StatementKinds
  <2> QED
    BY <2>1, <1>3, <1>6 DEF ValueDone
<1>7. CASE ElseEnds \/ WhileEnds \/ (ThenEnds /\ ~HasElse(Top))
  <2>1. nodes[Top.node].kind \in StatementKinds
    BY <1>2, <1>7 DEF ElseEnds, WhileEnds, ThenEnds, BodyEnds, KindsWith, StatementKinds
  <2>2. stack' = Tail(stack) /\ got' = 0
    BY <1>7 DEF ElseEnds, WhileEnds, ThenEnds, BodyEnds
  <2> QED
    BY <2>1, <2>2, <1>3
<1>8. CASE ConditionDone \/ LeftDone \/ (ThenEnds /\ HasElse(Top))
  <2>1. PICK r \in {"body", "then", "rhs", "else"} :
          /\ stack' = <<Frame(Top.node, r, Top.bbs)>> \o Tail(stack) /\ got' = 0
          /\ nodes[Top.node].kind \in KindsWith(r)
          /\ r \in Following(Top) /\ (r = "then" => Top.role = "cond") /\ (r = "rhs" => Top.role = "lhs")
    BY <1>2, <1>8 DEF ConditionDone, LeftDone, ThenEnds, Returned, BodyEnds, KindsWith, Following
  <2> DEFINE g == Frame(Top.node, r, Top.bbs)
  <2>2. /\ g \in Frames /\ g.node = Top.node /\ g.role = r /\ g.bbs = Top.bbs
    BY <1>2 DEF Frame, Frames, Roles, BlockRoles
  <2>3. stack' = <<g>> \o Tail(stack)
    BY <2>1
  <2> HIDE DEF g
  <2>4. Following(g) \subseteq Following(Top)
    BY <2>1, <2>2 DEF Following, HasElse
  <2>5. g.role # "top" /\ nodes[g.node].kind \in KindsWith(g.role)
    BY <2>1, <2>2
  <2> QED
    BY <1>1, <2>1, <2>2, <2>3, <2>4, <2>5, NSwap
<1>9. QED
  BY <1>5, <1>6, <1>7, <1>8

LEMMA NInit ==
  ASSUME Init PROVE NInv
<1>1. /\ nodes = << >> /\ got = 0 /\ event = [node |-> 0, value |-> FALSE]
      /\ stack = <<Frame(0, "top", << >>)>>
  BY DEF Init
<1>2. Len(nodes) = 0 /\ Len(stack) = 1 /\ stack[1].node = 0 /\ stack[1].role = "top"
  BY <1>1 DEF Frame
<1>3. CallsFit(nodes, stack)
  BY <1>2 DEF CallsFit, CallFits, Following
<1>4. QED
  BY <1>1, <1>2, <1>3 DEF NInv, NodesFit, Filled, GotPart, Source!Start, Source!Event

LEMMA NNext ==
  ASSUME PInv, SInv, NInv, [Next]_vars PROVE NInv'
<1>1. CASE UNCHANGED <<nodes, stack, got>> /\ (phase' = "build" => phase = "build" /\ event' = event)
  BY <1>1 DEF NInv
<1>2. CASE FunctionEnds \/ Break \/ Execute \/ Exit \/ UNCHANGED vars
  <2>1. UNCHANGED <<nodes, stack, got>> /\ (phase' = "build" => phase = "build" /\ event' = event)
    BY <1>2 DEF FunctionEnds, Break, Execute, Exit, vars, build, run, Step, Go
  <2> QED
    BY <2>1, <1>1
<1>3. QED
  BY <1>2, NLeaf, NPushes, NMoves DEF Next

-----------------------------------------------------------------------------
(* What the nodes of a tree mean: `first', `after', `yes' and `no' are what *)
(* the structured program calls First, After and Yield of each node.        *)

\* What follows the first m nodes in the parts r of the node p.
Rest(M, m, p, r) ==
  LET next == {j \in PartsIn(M.tree, p, r) : j > m}
  IN CASE next # {}    -> M.first[Source!Least(next)]
       [] next = {} /\ r = "top"  -> Source!End
       [] next = {} /\ r = "body" -> M.first[p]
       [] next = {} /\ r \notin {"top", "body"} -> M.after[p]
FirstPart(M, p, r) == M.first[Source!Least(PartsIn(M.tree, p, r))]

ReadsStatement(M, i) ==
  /\ M.first[i] = IF M.tree[i].kind \in Childless THEN Source!Event(i, FALSE) ELSE M.first[i + 1]
  /\ M.after[i] = Rest(M, i, M.tree[i].parent, M.tree[i].role)
ReadsExpression(M, i, p, r, kind) ==
  /\ r = "operand" => M.yes[i] = M.no[p] /\ M.no[i] = M.yes[p]
  /\ r = "rhs" => M.yes[i] = M.yes[p] /\ M.no[i] = M.no[p]
  /\ r = "lhs" /\ kind = "and" => M.yes[i] = FirstPart(M, p, "rhs") /\ M.no[i] = M.no[p]
  /\ r = "lhs" /\ kind # "and" => M.yes[i] = M.yes[p] /\ M.no[i] = FirstPart(M, p, "rhs")
  /\ r = "value" => M.yes[i] = Source!Event(p, TRUE) /\ M.no[i] = Source!Event(p, FALSE)
  /\ r = "cond" /\ kind = "if" => M.yes[i] = Rest(M, 0, p, "then") /\ M.no[i] = Rest(M, 0, p, "else")
  /\ r = "cond" /\ kind = "while" => M.yes[i] = Rest(M, 0, p, "body") /\ M.no[i] = M.after[p]
Reads(M) ==
  \A i \in 1..Len(M.tree) :
    /\ ReadsStatement(M, i)
    /\ ReadsExpression(M, i, M.tree[i].parent, M.tree[i].role, M.tree[M.tree[i].parent].kind)

\* The tree t may become of ns when the calls on the stack st go on.
Continues(t, ns) == /\ t \in Seq(Nodes) /\ Len(ns) <= Len(t)
                    /\ \A i \in 1..Len(ns) : t[i] = ns[i]
MayGenerate(f, n) == n.parent = f.node /\ n.role \in {f.role} \cup Following(f)
Future(t, m, st) ==
  \A i \in m + 1 .. Len(t) : t[i].parent > m \/ \E k \in 1..Len(st) : MayGenerate(st[k], t[i])
Completes(t, ns, st, g) ==
  /\ Continues(t, ns) /\ Future(t, Len(ns), st)
  /\ Wanting(st, g) => Len(ns) + 1 \in PartsIn(t, st[1].node, st[1].role)
-----------------------------------------------------------------------------
(* What is executed next, in a tree that may become of the present one.    *)

LEMMA LeastIs ==
  ASSUME NEW S, S \subseteq Nat, NEW x \in S, \A y \in S : x <= y
  PROVE  Source!Least(S) = x
<1>1. \A y \in S : (\A z \in S : y <= z) => y = x
  <2> SUFFICES ASSUME NEW y \in S, \A z \in S : y <= z PROVE y = x
    OBVIOUS
  <2>1. y <= x /\ x <= y /\ x \in Nat /\ y \in Nat
    OBVIOUS
  <2> QED
    BY <2>1
<1>2. Source!Least(S) \in S /\ \A z \in S : Source!Least(S) <= z
  BY DEF Source!Least
<1>3. QED
  BY <1>1, <1>2

LEMMA RestHere ==
  ASSUME NEW M, NEW m \in Nat, NEW p, NEW r, m + 1 \in PartsIn(M.tree, p, r)
  PROVE  Rest(M, m, p, r) = M.first[m + 1]
<1> DEFINE next == {j \in PartsIn(M.tree, p, r) : j > m}
<1>1. next \subseteq Nat /\ m + 1 \in next /\ \A y \in next : m + 1 <= y
  BY DEF PartsIn
<1>2. next # {}
  BY <1>1
<1>3. Source!Least(next) = m + 1
  <2> HIDE DEF next
  <2> QED
    BY <1>1, LeastIs
<1>4. QED
  BY <1>2, <1>3 DEF Rest

LEMMA RestSame ==
  ASSUME NEW M, NEW k \in Nat, NEW m \in Nat, k <= m, NEW p, NEW r,
         \A j \in k + 1 .. m : j \notin PartsIn(M.tree, p, r)
  PROVE  Rest(M, k, p, r) = Rest(M, m, p, r)
<1>1. {j \in PartsIn(M.tree, p, r) : j > k} = {j \in PartsIn(M.tree, p, r) : j > m}
  BY DEF PartsIn
<1>2. QED
  BY <1>1 DEF Rest

LEMMA RestNone ==
  ASSUME NEW M, NEW m \in Nat, NEW p, NEW r, \A j \in PartsIn(M.tree, p, r) : j <= m
  PROVE  /\ r = "top" => Rest(M, m, p, r) = Source!End
         /\ r = "body" => Rest(M, m, p, r) = M.first[p]
         /\ r \notin {"top", "body"} => Rest(M, m, p, r) = M.after[p]
<1>1. {j \in PartsIn(M.tree, p, r) : j > m} = {}
  BY DEF PartsIn
<1>2. QED
  BY <1>1 DEF Rest

\* A statement that is the last so far is followed by the rest of its block.
LEMMA RestAfter ==
  ASSUME NEW M, NEW ns, Continues(M.tree, ns), Reads(M), NEW f, NEW i \in 1..Len(ns),
         ns[i].parent = f.node, ns[i].role = f.role, IsLast(ns, f, i)
  PROVE  M.after[i] = Rest(M, Len(ns), f.node, f.role)
<1>1. i \in 1..Len(M.tree) /\ M.tree[i] = ns[i] /\ Len(ns) \in Nat /\ i \in Nat /\ i <= Len(ns)
  BY DEF Continues
<1>2. \A j \in i + 1 .. Len(ns) : j \notin PartsIn(M.tree, f.node, f.role)
  <2> SUFFICES ASSUME NEW j \in i + 1 .. Len(ns), j \in PartsIn(M.tree, f.node, f.role) PROVE FALSE
    OBVIOUS
  <2>1. j \in 1..Len(ns) /\ ~(j <= i)
    BY <1>1
  <2>2. j \in PartsIn(ns, f.node, f.role)
    BY <2>1 DEF PartsIn, Continues
  <2> QED
    BY <2>1, <2>2 DEF IsLast
<1>3. Rest(M, i, f.node, f.role) = Rest(M, Len(ns), f.node, f.role)
  BY <1>1, <1>2, RestSame
<1>4. QED
  BY <1>1, <1>3 DEF Reads, ReadsStatement

\* The same of a block without a part so far.
LEMMA RestStart ==
  ASSUME NEW M, NEW ns, Continues(M.tree, ns), Len(ns) \in Nat, NEW p, NEW r, PartsIn(ns, p, r) = {}
  PROVE  Rest(M, 0, p, r) = Rest(M, Len(ns), p, r)
<1>1. \A j \in 0 + 1 .. Len(ns) : j \notin PartsIn(M.tree, p, r)
  BY DEF PartsIn, Continues
<1>2. QED
  BY <1>1, RestSame

LEMMA FirstPartHere ==
  ASSUME NEW M, NEW ns, Continues(M.tree, ns), Len(ns) \in Nat, NEW p, NEW r, PartsIn(ns, p, r) = {},
         Len(ns) + 1 \in PartsIn(M.tree, p, r)
  PROVE  FirstPart(M, p, r) = M.first[Len(ns) + 1]
<1>1. \A j \in PartsIn(M.tree, p, r) : Len(ns) + 1 <= j
  BY DEF PartsIn, Continues
<1>2. PartsIn(M.tree, p, r) \subseteq Nat
  BY DEF PartsIn
<1>3. QED
  BY <1>1, <1>2, LeastIs DEF FirstPart

\* No call on the stack generates parts r of p any more.
LEMMA NoMoreParts ==
  ASSUME NEW t, NEW ns, NEW st, NEW g, Completes(t, ns, st, g), Len(ns) \in Nat,
         NEW p, p <= Len(ns), NEW r,
         \A k \in 1..Len(st) : st[k].node = p => r \notin {st[k].role} \cup Following(st[k])
  PROVE  \A j \in PartsIn(t, p, r) : j <= Len(ns)
<1> SUFFICES ASSUME NEW j \in PartsIn(t, p, r), ~(j <= Len(ns)) PROVE FALSE
  OBVIOUS
<1>1. j \in Len(ns) + 1 .. Len(t) /\ t[j].parent = p /\ t[j].role = r /\ t[j] \in Nodes
  BY DEF PartsIn, Completes, Continues
<1>2. ~(t[j].parent > Len(ns))
  <2>1. t[j].parent \in Nat
    BY <1>1 DEF Nodes
  <2> QED
    BY <1>1, <2>1
<1>3. PICK k \in 1..Len(st) : MayGenerate(st[k], t[j])
  BY <1>1, <1>2 DEF Completes, Future
<1>4. QED
  BY <1>1, <1>3 DEF MayGenerate
-----------------------------------------------------------------------------
(* A tree that may become of the next state may become of this one.        *)

LEMMA ContinuesLess ==
  ASSUME NEW t, NEW ns \in Seq(Nodes), NEW n \in Nodes, Continues(t, Append(ns, n))
  PROVE  Continues(t, ns) /\ t[Len(ns) + 1] = n /\ Len(ns) + 1 \in 1..Len(t) /\ t \in Seq(Nodes)
<1> DEFINE a == Append(ns, n)
<1>1. Len(a) = Len(ns) + 1 /\ Len(ns) \in Nat /\ a[Len(ns) + 1] = n /\ \A i \in 1..Len(ns) : a[i] = ns[i]
  BY Appended
<1>2. t \in Seq(Nodes) /\ Len(a) <= Len(t) /\ \A i \in 1..Len(a) : t[i] = a[i]
  BY DEF Continues
<1> HIDE DEF a
<1>3. Len(t) \in Nat
  BY <1>2
<1>4. \A i \in 1..Len(ns) : i \in 1..Len(a)
  BY <1>1
<1>5. QED
  BY <1>1, <1>2, <1>3, <1>4 DEF Continues

LEMMA BeforeAdding ==
  ASSUME NEW t, NEW ns \in Seq(Nodes), NEW n \in Nodes, NEW st, NEW g, NEW h, st # << >>, st \in Seq(Frames),
         n.parent = st[1].node, n.role = st[1].role, Completes(t, Append(ns, n), st, h)
  PROVE  Completes(t, ns, st, g)
<1>1. Continues(t, ns) /\ t[Len(ns) + 1] = n /\ Len(ns) + 1 \in 1..Len(t) /\ t \in Seq(Nodes)
  BY ContinuesLess DEF Completes
<1>2. Len(Append(ns, n)) = Len(ns) + 1 /\ Len(ns) \in Nat
  BY Appended
<1>3. Future(t, Len(ns) + 1, st)
  BY <1>2 DEF Completes
<1>4. Future(t, Len(ns), st)
  <2> SUFFICES ASSUME NEW i \in Len(ns) + 1 .. Len(t)
               PROVE  t[i].parent > Len(ns) \/ \E k \in 1..Len(st) : MayGenerate(st[k], t[i])
    BY DEF Future
  <2>1. CASE i = Len(ns) + 1
    <3>1. 1 \in 1..Len(st) /\ MayGenerate(st[1], t[i])
      BY <2>1, <1>1 DEF MayGenerate
    <3> QED
      BY <3>1
  <2>2. CASE i # Len(ns) + 1
    <3>1. i \in (Len(ns) + 1) + 1 .. Len(t) /\ t[i] \in Nodes
      BY <2>2, <1>1, <1>2
    <3>2. t[i].parent \in Nat
      BY <3>1 DEF Nodes
    <3>3. t[i].parent > Len(ns) + 1 \/ \E k \in 1..Len(st) : MayGenerate(st[k], t[i])
      BY <3>1, <1>3 DEF Future
    <3> QED
      BY <3>2, <3>3, <1>2
  <2> QED
    BY <2>1, <2>2
<1>5. Len(ns) + 1 \in PartsIn(t, st[1].node, st[1].role)
  BY <1>1 DEF PartsIn
<1>6. QED
  BY <1>1, <1>4, <1>5 DEF Completes

LEMMA BeforePushing ==
  ASSUME NEW t, NEW ns \in Seq(Nodes), NEW n \in Nodes, NEW st \in Seq(Frames), NEW g, NEW h, st # << >>,
         n.parent = st[1].node, n.role = st[1].role,
         NEW f \in Frames, f.node = Len(ns) + 1, Completes(t, Append(ns, n), <<f>> \o st, h)
  PROVE  Completes(t, ns, st, g)
<1> DEFINE u == <<f>> \o st
<1>1. Continues(t, ns) /\ t[Len(ns) + 1] = n /\ Len(ns) + 1 \in 1..Len(t) /\ t \in Seq(Nodes)
  BY ContinuesLess DEF Completes
<1>2. Len(Append(ns, n)) = Len(ns) + 1 /\ Len(ns) \in Nat
  BY Appended
<1>3. Future(t, Len(ns) + 1, u)
  BY <1>2 DEF Completes
<1>4. /\ Len(u) = Len(st) + 1 /\ u[1] = f
      /\ \A k \in 1 .. Len(st) + 1 : k # 1 => u[k] = st[k - 1] /\ k - 1 \in 1..Len(st)
  BY CallOnTop
<1> HIDE DEF u
<1>5. Future(t, Len(ns), st)
  <2> SUFFICES ASSUME NEW i \in Len(ns) + 1 .. Len(t)
               PROVE  t[i].parent > Len(ns) \/ \E k \in 1..Len(st) : MayGenerate(st[k], t[i])
    BY DEF Future
  <2>1. CASE i = Len(ns) + 1
    <3>1. 1 \in 1..Len(st) /\ MayGenerate(st[1], t[i])
      BY <2>1, <1>1 DEF MayGenerate
    <3> QED
      BY <3>1
  <2>2. CASE i # Len(ns) + 1
    <3>1. i \in (Len(ns) + 1) + 1 .. Len(t) /\ t[i] \in Nodes
      BY <2>2, <1>1, <1>2
    <3>2. t[i].parent \in Nat
      BY <3>1 DEF Nodes
    <3>3. t[i].parent > Len(ns) + 1 \/ \E k \in 1..Len(u) : MayGenerate(u[k], t[i])
      BY <3>1, <1>3 DEF Future
    <3>4. CASE t[i].parent > Len(ns) + 1
      BY <3>2, <3>4, <1>2
    <3>5. CASE \E k \in 1..Len(u) : MayGenerate(u[k], t[i])
      <4>1. PICK k \in 1..Len(u) : MayGenerate(u[k], t[i])
        BY <3>5
      <4>2. CASE k = 1
        <5>1. t[i].parent = Len(ns) + 1
          BY <4>1, <4>2, <1>4 DEF MayGenerate
        <5> QED
          BY <5>1, <1>2
      <4>3. CASE k # 1
        BY <4>1, <4>3, <1>4
      <4> QED
        BY <4>2, <4>3
    <3> QED
      BY <3>3, <3>4, <3>5
  <2> QED
    BY <2>1, <2>2
<1>6. Len(ns) + 1 \in PartsIn(t, st[1].node, st[1].role)
  BY <1>1 DEF PartsIn
<1>7. QED
  BY <1>1, <1>5, <1>6 DEF Completes

LEMMA BeforeReturning ==
  ASSUME NEW t, NEW ns, NEW st \in Seq(Frames), NEW g, NEW h, st # << >>, ~Wanting(st, g),
         Completes(t, ns, Tail(st), h)
  PROVE  Completes(t, ns, st, g)
<1>1. \A k \in 1..Len(Tail(st)) : Tail(st)[k] = st[k + 1] /\ k + 1 \in 1..Len(st)
  OBVIOUS
<1>2. Future(t, Len(ns), st)
  BY <1>1 DEF Completes, Future
<1>3. QED
  BY <1>2 DEF Completes

LEMMA BeforeGoingOn ==
  ASSUME NEW t, NEW ns, NEW st \in Seq(Frames), NEW g, NEW h, st # << >>, ~Wanting(st, g),
         NEW f \in Frames, f.node = st[1].node, f.role \in Following(st[1]),
         Following(f) \subseteq Following(st[1]), Completes(t, ns, <<f>> \o Tail(st), h)
  PROVE  Completes(t, ns, st, g)
<1> DEFINE u == <<f>> \o Tail(st)
<1>1. /\ Len(u) = Len(st) /\ u[1] = f /\ 1 \in 1..Len(st)
      /\ \A k \in 1..Len(u) : k # 1 => u[k] = st[k]
  OBVIOUS
<1>2. Future(t, Len(ns), u) /\ Continues(t, ns)
  BY DEF Completes
<1> HIDE DEF u
<1>3. \A n : MayGenerate(f, n) => MayGenerate(st[1], n)
  BY DEF MayGenerate
<1>4. Future(t, Len(ns), st)
  <2> SUFFICES ASSUME NEW i \in Len(ns) + 1 .. Len(t), ~(t[i].parent > Len(ns))
               PROVE  \E k \in 1..Len(st) : MayGenerate(st[k], t[i])
    BY DEF Future
  <2>1. PICK k \in 1..Len(u) : MayGenerate(u[k], t[i])
    BY <1>2 DEF Future
  <2>2. MayGenerate(st[k], t[i]) /\ k \in 1..Len(st)
    BY <2>1, <1>1, <1>3
  <2> QED
    BY <2>2
<1>5. QED
  BY <1>2, <1>4 DEF Completes

-----------------------------------------------------------------------------
(* A note says of a point of the blocks what will be executed next: yes or *)
(* no, depending on the value in a slot; and in which slots of && and ||   *)
(* the initial value still is.                                             *)

Note(s, y, n, known) == [slot |-> s, yes |-> y, no |-> n, known |-> known]
Always(e, known) == Note(0, e, e, known)

\* Where e comes next, after a point with the note z, the block with the note t may go on.
Carries(M, t, z, e) ==
  /\ t.known \subseteq z.known
  /\ \/ t.slot = 0 /\ t.yes = e
     \/ t.slot # 0 /\ t.slot \in z.known /\ e = IF M.tree[t.slot].kind = "or" THEN t.yes ELSE t.no

\* The notes z and y before and after an instruction; E are those of n blocks.
RuleLeaf(M, x, z, y) ==
  /\ x.op \in {"call", "atom", "set"} => /\ x.node \in 1..Len(M.tree) /\ M.tree[x.node].kind = x.op
  /\ x.op \in {"call", "atom"} => z.slot = 0 /\ z.yes = Source!Event(x.node, FALSE)
  /\ x.op = "set" \/ (x.op = "ret" /\ x.slot # 0) =>
       /\ z.slot # 0 /\ z.slot = x.slot
       /\ z.yes = Source!Event(x.node, TRUE) /\ z.no = Source!Event(x.node, FALSE)
  /\ x.op = "ret" /\ x.slot = 0 =>
       z.slot = 0 /\ z.yes = IF x.node = 0 THEN Source!End ELSE Source!Event(x.node, FALSE)
  /\ x.op \in {"call", "set"} => y = Always(M.after[x.node], z.known)
  /\ x.op = "atom" => y = Note(x.node, M.yes[x.node], M.no[x.node], z.known \ {x.node})
RuleSlot(M, x, z, y) ==
  /\ x.op = "alloca" => z.slot = 0 /\ z.known = {} /\ y = z
  /\ x.op \in {"false", "true"} => /\ z.slot # x.node /\ (x.op = "true" <=> M.tree[x.node].kind = "or")
                                   /\ y = Note(z.slot, z.yes, z.no, z.known \cup {x.node})
  /\ x.op \in {"copy", "not"} => z.slot # 0 /\ z.slot = x.slot /\ x.node # 0
  /\ x.op = "copy" => y = Note(x.node, z.yes, z.no, z.known \ {x.node})
  /\ x.op = "not" => y = Note(x.node, z.no, z.yes, z.known \ {x.node})
RuleBranch(M, E, n, x, z) ==
  /\ x.op \in {"br", "condbr"} => \A t \in 1..Len(x.to) : x.to[t] \in 1..n
  /\ x.op = "br" => LET e == E[x.to[1]]
                    IN /\ e.slot = z.slot /\ e.yes = z.yes /\ e.no = z.no /\ e.known \subseteq z.known
                       /\ Len(x.to) = 1
  /\ x.op = "condbr" => /\ z.slot # 0 /\ z.slot = x.slot /\ Len(x.to) = 2
                        /\ Carries(M, E[x.to[1]], z, z.yes) /\ Carries(M, E[x.to[2]], z, z.no)
Rule(M, E, n, x, z, y) == RuleLeaf(M, x, z, y) /\ RuleSlot(M, x, z, y) /\ RuleBranch(M, E, n, x, z)

\* The notes a along the instructions q.
Along(M, E, n, q, a) == \A i \in 1..Len(q) : Rule(M, E, n, q[i], a[i], a[i + 1])
Leads(M, E, n, q, s, z) == \E a : Along(M, E, n, q, a) /\ a[1] = s /\ a[Len(q) + 1] = z
\* Each block leads on from its note; at the end of block b0 the note is z.
Wired(M, E, bs, b0, z) ==
  \A b \in 1..Len(bs) : \E y : Leads(M, E, Len(bs), bs[b], E[b], y) /\ (b = b0 => y = z)
-----------------------------------------------------------------------------
(* Notes of blocks that are created, get instructions, branches and slots. *)

LEMMA LeadsOn ==
  ASSUME NEW M, NEW E, NEW n, NEW q \in Blocks, NEW x \in Instructions, NEW s, NEW z, NEW y,
         Leads(M, E, n, q, s, z), Rule(M, E, n, x, z, y)
  PROVE  Leads(M, E, n, q \o <<x>>, s, y)
<1>1. PICK a : Along(M, E, n, q, a) /\ a[1] = s /\ a[Len(q) + 1] = z
  BY DEF Leads
<1>2. /\ Len(q) \in Nat /\ Len(q \o <<x>>) = Len(q) + 1 /\ (q \o <<x>>)[Len(q) + 1] = x
      /\ \A k \in 1..Len(q) : (q \o <<x>>)[k] = q[k]
  BY OneMore DEF Blocks
<1> DEFINE r == q \o <<x>>
           c == [i \in 1 .. Len(q) + 2 |-> IF i = Len(q) + 2 THEN y ELSE a[i]]
<1>3. /\ \A i \in 1 .. Len(q) + 1 : c[i] = a[i]
      /\ c[Len(q) + 2] = y
  BY <1>2
<1> HIDE DEF r, c
<1>4. Along(M, E, n, r, c)
  <2> SUFFICES ASSUME NEW i \in 1..Len(r) PROVE Rule(M, E, n, r[i], c[i], c[i + 1])
    BY DEF Along
  <2>1. CASE i \in 1..Len(q)
    <3>1. Rule(M, E, n, q[i], a[i], a[i + 1])
      BY <2>1, <1>1 DEF Along
    <3>2. r[i] = q[i] /\ c[i] = a[i] /\ c[i + 1] = a[i + 1]
      BY <2>1, <1>2, <1>3 DEF r
    <3> QED
      BY <3>1, <3>2
  <2>2. CASE i = Len(q) + 1
    <3>1. r[i] = x /\ c[i] = z /\ i + 1 = Len(q) + 2
      BY <2>2, <1>1, <1>2, <1>3 DEF r
    <3> QED
      BY <3>1, <1>3
  <2> QED
    BY <2>1, <2>2, <1>2 DEF r
<1>5. c[1] = s /\ c[Len(r) + 1] = y
  <2>1. Len(r) + 1 = Len(q) + 2 /\ 1 \in 1 .. Len(q) + 1
    BY <1>2 DEF r
  <2> QED
    BY <2>1, <1>1, <1>3
<1>6. QED
  BY <1>4, <1>5 DEF Leads, r

\* Behind an allocation.
LEMMA LeadsBehind ==
  ASSUME NEW M, NEW E, NEW n, NEW q \in Blocks, NEW x \in Instructions, NEW s, NEW z,
         Leads(M, E, n, q, s, z), Rule(M, E, n, x, s, s)
  PROVE  Leads(M, E, n, <<x>> \o q, s, z)
<1>1. PICK a : Along(M, E, n, q, a) /\ a[1] = s /\ a[Len(q) + 1] = z
  BY DEF Leads
<1> DEFINE r == <<x>> \o q
           c == [i \in 1 .. Len(q) + 2 |-> IF i = 1 THEN s ELSE a[i - 1]]
<1>2. /\ Len(q) \in Nat /\ Len(r) = Len(q) + 1 /\ r[1] = x
      /\ \A k \in 1..Len(q) : r[k + 1] = q[k]
  BY DEF Blocks
<1>3. /\ \A i \in 1 .. Len(q) + 1 : c[i + 1] = a[i]
      /\ c[1] = s
  BY <1>2
<1> HIDE DEF r, c
<1>4. Along(M, E, n, r, c)
  <2> SUFFICES ASSUME NEW i \in 1..Len(r) PROVE Rule(M, E, n, r[i], c[i], c[i + 1])
    BY DEF Along
  <2>1. CASE i # 1
    <3>1. i - 1 \in 1..Len(q) /\ (i - 1) + 1 = i /\ i \in 1 .. Len(q) + 1
      BY <2>1, <1>2
    <3>2. Rule(M, E, n, q[i - 1], a[i - 1], a[(i - 1) + 1])
      BY <3>1, <1>1 DEF Along
    <3>3. r[i] = q[i - 1] /\ c[(i - 1) + 1] = a[i - 1] /\ c[i + 1] = a[i]
      BY <3>1, <1>2, <1>3
    <3> QED
      BY <3>1, <3>2, <3>3
  <2>2. CASE i = 1
    <3>1. c[1 + 1] = a[1]
      BY <1>2, <1>3
    <3> QED
      BY <3>1, <2>2, <1>1, <1>2, <1>3
  <2> QED
    BY <2>1, <2>2
<1>5. c[Len(r) + 1] = z
  <2>1. Len(r) + 1 = (Len(q) + 1) + 1 /\ Len(q) + 1 \in 1 .. Len(q) + 1
    BY <1>2
  <2> QED
    BY <2>1, <1>1, <1>3
<1>6. QED
  BY <1>3, <1>4, <1>5 DEF Leads, r

\* The instructions of n blocks have the same notes when there are more.
LEMMA LeadsMore ==
  ASSUME NEW M, NEW E, NEW F, NEW n \in Nat, NEW m \in Nat, n <= m, \A b \in 1..n : F[b] = E[b],
         NEW q, NEW s, NEW z, Leads(M, E, n, q, s, z)
  PROVE  Leads(M, F, m, q, s, z)
<1>1. PICK a : Along(M, E, n, q, a) /\ a[1] = s /\ a[Len(q) + 1] = z
  BY DEF Leads
<1>2. ASSUME NEW x, NEW u, NEW v, Rule(M, E, n, x, u, v) PROVE Rule(M, F, m, x, u, v)
  <2>1. RuleBranch(M, E, n, x, u)
    BY <1>2 DEF Rule
  <2>2. x.op \in {"br", "condbr"} => \A t \in 1..Len(x.to) : x.to[t] \in 1..n /\ x.to[t] \in 1..m /\ F[x.to[t]] = E[x.to[t]]
    BY <2>1 DEF RuleBranch
  <2>3. x.op = "br" => 1 \in 1..Len(x.to)
    BY <2>1 DEF RuleBranch
  <2>4. x.op = "condbr" => 1 \in 1..Len(x.to) /\ 2 \in 1..Len(x.to)
    BY <2>1 DEF RuleBranch
  <2>5. RuleBranch(M, F, m, x, u)
    BY <2>1, <2>2, <2>3, <2>4 DEF RuleBranch
  <2> QED
    BY <2>5, <1>2 DEF Rule
<1>3. Along(M, F, m, q, a)
  BY <1>1, <1>2 DEF Along
<1>4. QED
  BY <1>1, <1>3 DEF Leads

LEMMA WiredEmits ==
  ASSUME NEW M, NEW E, NEW bs \in Seq(Blocks), NEW b0 \in 1..Len(bs), NEW x \in Instructions,
         NEW z, NEW y, Wired(M, E, bs, b0, z), Rule(M, E, Len(bs), x, z, y)
  PROVE  Wired(M, E, Emitted(bs, b0, <<x>>), b0, y)
<1> DEFINE cs == Emitted(bs, b0, <<x>>)
<1>1. /\ Len(cs) = Len(bs) /\ cs[b0] = bs[b0] \o <<x>>
      /\ \A c \in 1..Len(bs) : c # b0 => cs[c] = bs[c]
  <2>1. <<x>> \in Blocks
    BY DEF Blocks
  <2> QED
    BY <2>1, EmittedBlocks
<1> HIDE DEF cs
<1>2. Leads(M, E, Len(bs), bs[b0], E[b0], z) /\ bs[b0] \in Blocks
  BY DEF Wired
<1>3. Leads(M, E, Len(bs), cs[b0], E[b0], y)
  BY <1>1, <1>2, LeadsOn
<1>4. ASSUME NEW b \in 1..Len(cs)
      PROVE  \E w : Leads(M, E, Len(cs), cs[b], E[b], w) /\ (b = b0 => w = y)
  <2>1. CASE b = b0
    BY <2>1, <1>1, <1>3
  <2>2. CASE b # b0
    BY <2>2, <1>1 DEF Wired
  <2> QED
    BY <2>1, <2>2
<1>5. QED
  BY <1>4 DEF Wired, cs

LEMMA WiredAllocated ==
  ASSUME NEW M, NEW E, NEW bs \in Seq(Blocks), NEW b0 \in 1..Len(bs), NEW x \in Instructions,
         NEW z, NEW y, Wired(M, E, bs, b0, z), Rule(M, E, Len(bs), x, z, y),
         NEW slot \in Nat, E[1].slot = 0, E[1].known = {}
  PROVE  Wired(M, E, Allocated(bs, b0, slot, x), b0, y)
<1> DEFINE a == Instr("alloca", slot, 0, << >>)
           cs == [bs EXCEPT ![1] = <<a>> \o @]
<1>1. a \in Instructions /\ a.op = "alloca"
  <2>1. "alloca" \in Ops /\ 0 \in Nat
    BY DEF Ops
  <2> QED
    BY <2>1, OneInstr DEF Instr
<1>2. 1 \in 1..Len(bs) /\ bs[1] \in Blocks /\ Len(bs) \in Nat
  OBVIOUS
<1>3. <<a>> \o bs[1] \in Blocks
  BY <1>1, <1>2 DEF Blocks
<1>4. cs \in Seq(Blocks) /\ Len(cs) = Len(bs) /\ cs[1] = <<a>> \o bs[1] /\ \A b \in 1..Len(bs) : b # 1 => cs[b] = bs[b]
  BY <1>2, <1>3
<1> HIDE DEF a, cs
<1>5. Rule(M, E, Len(bs), a, E[1], E[1])
  BY <1>1 DEF Rule, RuleLeaf, RuleSlot, RuleBranch
<1>6. PICK w : Leads(M, E, Len(bs), bs[1], E[1], w) /\ (1 = b0 => w = z)
  BY <1>2 DEF Wired
<1>7. Leads(M, E, Len(bs), <<a>> \o bs[1], E[1], w)
  BY <1>1, <1>2, <1>5, <1>6, LeadsBehind
<1>8. Wired(M, E, cs, b0, z)
  <2> SUFFICES ASSUME NEW b \in 1..Len(cs)
               PROVE  \E v : Leads(M, E, Len(cs), cs[b], E[b], v) /\ (b = b0 => v = z)
    BY DEF Wired
  <2>1. CASE b = 1
    BY <2>1, <1>4, <1>6, <1>7
  <2>2. CASE b # 1
    BY <2>2, <1>4 DEF Wired
  <2> QED
    BY <2>1, <2>2
<1>9. Wired(M, E, Emitted(cs, b0, <<x>>), b0, y)
  BY <1>4, <1>8, WiredEmits
<1>10. QED
  BY <1>9 DEF Allocated, cs, a

LEMMA WiredCreated ==
  ASSUME NEW M, NEW E, NEW F, NEW bs \in Seq(Blocks), NEW b0 \in 1..Len(bs), NEW z, NEW k \in Nat,
         Wired(M, E, bs, b0, z), \A b \in 1..Len(bs) : F[b] = E[b]
  PROVE  Wired(M, F, Created(bs, k), b0, z)
<1> DEFINE cs == Created(bs, k)
           n == Len(bs)
           m == Len(cs)
<1>1. /\ cs \in Seq(Blocks) /\ Len(cs) = Len(bs) + k
      /\ \A c \in 1..Len(bs) : cs[c] = bs[c]
      /\ \A c \in Len(bs) + 1 .. Len(bs) + k : cs[c] = << >>
  BY CreatedBlocks
<1>2. n \in Nat /\ m \in Nat /\ n <= m
  BY <1>1
<1> HIDE DEF cs
<1> SUFFICES ASSUME NEW b \in 1..m
             PROVE  \E v : Leads(M, F, m, cs[b], F[b], v) /\ (b = b0 => v = z)
  BY DEF Wired, cs
<1>3. CASE b \in 1..n
  <2>1. PICK v : Leads(M, E, n, bs[b], E[b], v) /\ (b = b0 => v = z)
    BY <1>3 DEF Wired
  <2>2. cs[b] = bs[b] /\ F[b] = E[b] /\ \A c \in 1..n : F[c] = E[c]
    BY <1>1, <1>3
  <2> HIDE DEF n, m
  <2>3. Leads(M, F, m, bs[b], E[b], v)
    BY <2>1, <2>2, <1>2, LeadsMore
  <2> QED
    BY <2>1, <2>2, <2>3
<1>4. CASE b \notin 1..n
  <2>1. cs[b] = << >> /\ b # b0
    BY <1>1, <1>4
  <2>2. Leads(M, F, m, << >>, F[b], F[b])
    <3> DEFINE a == [i \in 1..1 |-> F[b]]
    <3>1. a[1] = F[b] /\ Len(<< >>) = 0 /\ 0 + 1 = 1
      OBVIOUS
    <3>2. Along(M, F, m, << >>, a)
      BY <3>1 DEF Along
    <3> QED
      BY <3>1, <3>2 DEF Leads
  <2> QED
    BY <2>1, <2>2
<1>5. QED
  BY <1>3, <1>4

\* The builder goes to a block that is still empty.
LEMMA WiredMoves ==
  ASSUME NEW M, NEW E, NEW bs, NEW b0, NEW z, Wired(M, E, bs, b0, z),
         NEW b \in 1..Len(bs), bs[b] = << >>
  PROVE  Wired(M, E, bs, b, E[b])
<1>1. PICK a : Along(M, E, Len(bs), bs[b], a) /\ a[1] = E[b]
  BY DEF Wired, Leads
<1>2. Len(bs[b]) + 1 = 1
  OBVIOUS
<1>3. Leads(M, E, Len(bs), bs[b], E[b], E[b])
  BY <1>1, <1>2 DEF Leads
<1>4. QED
  BY <1>3 DEF Wired

-----------------------------------------------------------------------------
(* The notes of the blocks of a call, and where the builder stands.        *)

\* The blocks a call has created mean what it created them for: a conditional's
\* body, else block and end; a loop's condition, body and end; the right hand
\* side of a short circuit and its end, where its slot decides.
FrameNoted(M, E, f, W) ==
  /\ f.role \in {"cond", "then", "else"} /\ M.tree[f.node].kind = "if" =>
       /\ E[f.bbs[1]] = Always(Rest(M, 0, f.node, "then"), W)
       /\ E[f.bbs[2]] = Always(Rest(M, 0, f.node, "else"), W)
       /\ E[f.bbs[3]] = Always(M.after[f.node], W)
  /\ f.role \in {"cond", "body"} /\ M.tree[f.node].kind = "while" =>
       /\ E[f.bbs[1]] = Always(M.first[f.node], W)
       /\ E[f.bbs[2]] = Always(Rest(M, 0, f.node, "body"), W)
       /\ E[f.bbs[3]] = Always(M.after[f.node], W)
  /\ f.role \in {"lhs", "rhs"} =>
       /\ E[f.bbs[1]] = Always(FirstPart(M, f.node, "rhs"), W)
       /\ E[f.bbs[2]] = Note(f.node, M.yes[f.node], M.no[f.node], W \ {f.node})
FramesNoted(M, E, st) == \A k \in 1..Len(st) : FrameNoted(M, E, st[k], Around(st, k))

\* What comes next when m nodes are there, no expression's value is, and f is generated.
NextOf(M, m, f) == IF f.role \in BlockRoles THEN Rest(M, m, f.node, f.role) ELSE M.first[m + 1]
\* The builder stands where the innermost call goes on, or has its value in slot g.
Stands(M, z, m, st, g) ==
  /\ Around(st, 1) \subseteq z.known
  /\ IF g # 0 THEN z = Note(g, M.yes[g], M.no[g], z.known)
              ELSE z = Always(NextOf(M, m, st[1]), z.known)

Flow(M, E, z, ns, bs, b0, st, g) ==
  /\ E[1] = Always(Rest(M, 0, 0, "top"), {}) /\ Wired(M, E, bs, b0, z)
  /\ Stands(M, z, Len(ns), st, g) /\ FramesNoted(M, E, st)
\* The blocks mean what any tree does that may become of the one there is.
Flows(M) == \E E, z : Flow(M, E, z, nodes, blocks, insert, stack, got)
Builds(M) == Reads(M) /\ Completes(M.tree, nodes, stack, got) => Flows(M)
-----------------------------------------------------------------------------
(* Notes when the generator calls itself, goes on and returns.             *)

LEMMA NotedPush ==
  ASSUME NEW M, NEW E, NEW st \in Seq(Frames), NEW f \in Frames, FramesNoted(M, E, st),
         FrameNoted(M, E, f, Own(f) \cup Around(st, 1))
  PROVE  FramesNoted(M, E, <<f>> \o st) /\ Around(<<f>> \o st, 1) = Own(f) \cup Around(st, 1)
<1> DEFINE r == <<f>> \o st
<1>1. /\ Len(r) = Len(st) + 1 /\ r[1] = f /\ Around(r, 1) = Own(f) \cup Around(st, 1)
      /\ \A k \in 1..Len(st) : r[k + 1] = st[k] /\ Around(r, k + 1) = Around(st, k)
  BY AroundPush
<1>2. Len(st) \in Nat
  OBVIOUS
<1> HIDE DEF r
<1>3. FramesNoted(M, E, r)
  <2> SUFFICES ASSUME NEW k \in 1..Len(r) PROVE FrameNoted(M, E, r[k], Around(r, k))
    BY DEF FramesNoted
  <2>1. CASE k = 1
    BY <2>1, <1>1
  <2>2. CASE k # 1
    <3>1. k - 1 \in 1..Len(st) /\ (k - 1) + 1 = k
      BY <2>2, <1>1, <1>2
    <3> QED
      BY <3>1, <1>1 DEF FramesNoted
  <2> QED
    BY <2>1, <2>2
<1>4. QED
  BY <1>1, <1>3 DEF r

LEMMA NotedPop ==
  ASSUME NEW M, NEW E, NEW st \in Seq(Frames), NEW f \in Frames, FramesNoted(M, E, <<f>> \o st)
  PROVE  FramesNoted(M, E, st) /\ FrameNoted(M, E, f, Own(f) \cup Around(st, 1))
         /\ Around(<<f>> \o st, 1) = Own(f) \cup Around(st, 1)
<1> DEFINE r == <<f>> \o st
<1>1. /\ Len(r) = Len(st) + 1 /\ r[1] = f /\ Around(r, 1) = Own(f) \cup Around(st, 1)
      /\ \A k \in 1..Len(st) : r[k + 1] = st[k] /\ Around(r, k + 1) = Around(st, k)
  BY AroundPush
<1>2. Len(st) \in Nat /\ \A k \in 1..Len(st) : k + 1 \in 1 .. Len(st) + 1
  OBVIOUS
<1> HIDE DEF r
<1>3. FrameNoted(M, E, r[1], Around(r, 1))
  BY <1>1, <1>2 DEF FramesNoted, r
<1>4. \A k \in 1..Len(st) : FrameNoted(M, E, st[k], Around(st, k))
  BY <1>1, <1>2 DEF FramesNoted, r
<1>5. QED
  BY <1>1, <1>3, <1>4 DEF FramesNoted, r

\* The notes of n blocks are those of the calls' blocks.
LEMMA NotedMore ==
  ASSUME NEW M, NEW E, NEW F, NEW n, \A b \in 1..n : F[b] = E[b], NEW st, FramesNoted(M, E, st),
         \A k \in 1..Len(st) : /\ Shaped(M.tree, st[k])
                               /\ \A j \in 1..Len(st[k].bbs) : st[k].bbs[j] \in 1..n
  PROVE  FramesNoted(M, F, st)
<1> SUFFICES ASSUME NEW k \in 1..Len(st) PROVE FrameNoted(M, F, st[k], Around(st, k))
  BY DEF FramesNoted
<1> DEFINE f == st[k]
           W == Around(st, k)
<1>1. FrameNoted(M, E, f, W) /\ Shaped(M.tree, f)
  BY DEF FramesNoted
<1>2. \A j \in 1..Len(f.bbs) : F[f.bbs[j]] = E[f.bbs[j]]
  OBVIOUS
<1> HIDE DEF f, W
<1>3. f.role \in {"cond", "then", "else", "body"} =>
        F[f.bbs[1]] = E[f.bbs[1]] /\ F[f.bbs[2]] = E[f.bbs[2]] /\ F[f.bbs[3]] = E[f.bbs[3]]
  BY <1>1, <1>2 DEF Shaped
<1>4. f.role \in {"lhs", "rhs"} => F[f.bbs[1]] = E[f.bbs[1]] /\ F[f.bbs[2]] = E[f.bbs[2]]
  BY <1>1, <1>2 DEF Shaped
<1>5. FrameNoted(M, F, f, W)
  BY <1>1, <1>3, <1>4 DEF FrameNoted
<1>6. QED
  BY <1>5 DEF f, W

\* What is known of the innermost call, its blocks and its slots.
LEMMA TopNoted ==
  ASSUME PInv, SInv, phase = "build", NEW M, NEW E, NEW z, Flow(M, E, z, nodes, blocks, insert, stack, got),
         Continues(M.tree, nodes)
  PROVE  /\ Top \in Frames /\ Tail(stack) \in Seq(Frames) /\ stack = <<Top>> \o Tail(stack)
         /\ FrameNoted(M, E, Top, Around(stack, 1)) /\ FramesNoted(M, E, Tail(stack))
         /\ Around(stack, 1) = Own(Top) \cup Around(Tail(stack), 1)
         /\ Top.node \notin Around(Tail(stack), 1)
         /\ Top.role # "top" => M.tree[Top.node] = nodes[Top.node]
         /\ Around(stack, 1) \subseteq z.known
         /\ Wired(M, E, blocks, insert, z) /\ E[1] = Always(Rest(M, 0, 0, "top"), {})
         /\ IF got # 0 THEN z = Note(got, M.yes[got], M.no[got], z.known)
                       ELSE z = Always(NextOf(M, Len(nodes), Top), z.known)
<1>1. PICK In : SReady(In)
  BY DEF SInv
<1>2. /\ stack = <<Top>> \o Tail(stack) /\ Tail(stack) \in Seq(Frames) /\ Top \in Frames
      /\ Around(stack, 1) = Own(Top) \cup Around(Tail(stack), 1)
      /\ \A k \in 1..Len(Tail(stack)) : Tail(stack)[k].node < Top.node
  BY <1>1, STop
<1>3. FrameNoted(M, E, Top, Around(stack, 1)) /\ FramesNoted(M, E, Tail(stack))
  <2> DEFINE t == Tail(stack)
             f == Top
  <2>1. stack = <<f>> \o t /\ t \in Seq(Frames) /\ f \in Frames /\ FramesNoted(M, E, stack)
    BY <1>2 DEF Flow
  <2> HIDE DEF t, f
  <2>2. FramesNoted(M, E, <<f>> \o t)
    BY <2>1
  <2>3. FramesNoted(M, E, t) /\ FrameNoted(M, E, f, Own(f) \cup Around(t, 1))
    BY <2>1, <2>2, NotedPop
  <2> QED
    BY <2>3, <1>2 DEF t, f
<1>4. Top.node \notin Around(Tail(stack), 1)
  <2>1. \A k \in 1..Len(Tail(stack)) : Tail(stack)[k] \in Frames
    BY <1>2
  <2>2. \A k \in 1..Len(Tail(stack)) : Tail(stack)[k].node # Top.node
    BY <2>1, <1>2 DEF Frames
  <2> QED
    BY <2>2 DEF Around, Own
<1>5. Top.role # "top" => M.tree[Top.node] = nodes[Top.node]
  BY TopOfStack DEF PInv, Continues
<1>6. Top = stack[1]
  BY TopOfStack DEF PInv
<1>7. QED
  BY <1>2, <1>3, <1>4, <1>5, <1>6 DEF Flow, Stands

\* The calls' blocks are among those there are.
LEMMA BlocksNoted ==
  ASSUME PInv, SInv, phase = "build", NEW M, Continues(M.tree, nodes)
  PROVE  \A k \in 1..Len(stack) : /\ Shaped(M.tree, stack[k])
                                  /\ \A j \in 1..Len(stack[k].bbs) : stack[k].bbs[j] \in 1..Len(blocks)
<1>1. PICK In : SReady(In)
  BY DEF SInv
<1> SUFFICES ASSUME NEW k \in 1..Len(stack)
             PROVE  /\ Shaped(M.tree, stack[k])
                    /\ \A j \in 1..Len(stack[k].bbs) : stack[k].bbs[j] \in 1..Len(blocks)
  OBVIOUS
<1>2. \A j \in 1..Len(stack[k].bbs) : stack[k].bbs[j] \in 2..Len(blocks)
  BY <1>1 DEF SReady, FramesOK, FrameOK
<1>3. Shaped(nodes, stack[k])
  BY DEF PInv, Stacked
<1>4. stack[k].role # "top" => M.tree[stack[k].node] = nodes[stack[k].node]
  BY NodesOfStack DEF PInv, Continues
<1>5. Shaped(M.tree, stack[k])
  BY <1>3, <1>4 DEF Shaped
<1>6. QED
  BY <1>2, <1>5

\* The notes N of k new blocks are added to those of n blocks.
NotesOf(E, n, k, N) == [b \in 1 .. n + k |-> IF b <= n THEN E[b] ELSE N[b - n]]
LEMMA NewNotes ==
  ASSUME NEW E, NEW n \in Nat, NEW k \in Nat, NEW N
  PROVE  /\ \A b \in 1..n : NotesOf(E, n, k, N)[b] = E[b]
         /\ \A i \in 1..k : NotesOf(E, n, k, N)[n + i] = N[i]
<1>1. \A b \in 1..n : NotesOf(E, n, k, N)[b] = E[b]
  BY DEF NotesOf
<1>2. \A i \in 1..k : n + i \in 1 .. n + k /\ ~(n + i <= n) /\ (n + i) - n = i
  OBVIOUS
<1>3. \A i \in 1..k : NotesOf(E, n, k, N)[n + i] = N[i]
  BY <1>2 DEF NotesOf
<1>4. QED
  BY <1>1, <1>3

-----------------------------------------------------------------------------
(* The steps of the builder.                                               *)

\* Whatever may become of the next state may become of this one: the promise made of the
\* complete tree is kept backwards along the steps of the builder.
LEMMA BeforeStep ==
  ASSUME PInv, SInv, NInv, NEW t, Completes(t, nodes', stack', got'),
         \/ CallStatement \/ ReturnVoid \/ Operand
         \/ ValueStatement \/ Conditional \/ While \/ ShortCircuit \/ BooleanNot
         \/ ConditionDone \/ LeftDone \/ RightDone \/ NotDone \/ ValueDone
         \/ ThenEnds \/ ElseEnds \/ WhileEnds
  PROVE  Completes(t, nodes, stack, got)
<1>1. phase = "build"
  BY DEF CallStatement, ReturnVoid, Operand, ValueStatement, Conditional, While, ShortCircuit, BooleanNot,
         ConditionDone, LeftDone, RightDone, NotDone, ValueDone, ThenEnds, ElseEnds, WhileEnds,
         InBlock, StatementWanted, OperandWanted, Returned, BodyEnds
<1>2. /\ stack \in Seq(Frames) /\ stack # << >> /\ nodes \in Seq(Nodes)
      /\ Top = stack[1] /\ Here = Len(nodes) + 1 /\ Len(nodes) \in Nat /\ Top \in Frames
  BY <1>1, StackOrdered, TopOfStack DEF PInv
<1>3. ASSUME NEW k, Add(k), k \in Kinds
      PROVE  \E n \in Nodes : /\ nodes' = Append(nodes, n) /\ n.parent = stack[1].node /\ n.role = stack[1].role
  BY <1>2, <1>3, NewNode
<1>4. CASE CallStatement \/ ReturnVoid \/ Operand
  <2>1. PICK k \in {"call", "ret", "atom"} : Add(k) /\ stack' = stack
    BY <1>4 DEF CallStatement, ReturnVoid, Operand
  <2>2. k \in Kinds
    BY DEF Kinds
  <2>3. PICK n \in Nodes : /\ nodes' = Append(nodes, n) /\ n.parent = stack[1].node /\ n.role = stack[1].role
    BY <2>1, <2>2, <1>3
  <2> QED
    BY <2>1, <2>3, <1>2, BeforeAdding
<1>5. CASE ValueStatement \/ Conditional \/ While \/ ShortCircuit \/ BooleanNot
  <2>1. PICK k \in Kinds : Add(k)
    BY <1>5 DEF ValueStatement, Conditional, While, ShortCircuit, BooleanNot, Kinds
  <2>2. PICK r, b : stack' = <<Frame(Here, r, b)>> \o stack
    BY <1>5 DEF ValueStatement, Conditional, While, ShortCircuit, BooleanNot
  <2>3. PICK n \in Nodes : /\ nodes' = Append(nodes, n) /\ n.parent = stack[1].node /\ n.role = stack[1].role
    BY <2>1, <1>3
  <2>4. PInv'
    BY PNext, <1>5 DEF Next
  <2>5. Frame(Here, r, b) \in Frames /\ Frame(Here, r, b).node = Here
    <3>1. stack' \in Seq(Frames)
      BY <2>4 DEF PInv, Typed
    <3>2. Len(stack') = Len(stack) + 1 /\ stack'[1] = Frame(Here, r, b)
      BY <2>2, <1>2
    <3>3. 1 \in 1..Len(stack')
      BY <3>2, <1>2
    <3> QED
      BY <3>1, <3>2, <3>3 DEF Frame
  <2> DEFINE f == Frame(Here, r, b)
  <2>6. f \in Frames /\ f.node = Len(nodes) + 1 /\ Completes(t, Append(nodes, n), <<f>> \o stack, got')
    BY <2>2, <2>3, <2>5, <1>2
  <2> HIDE DEF f
  <2> QED
    BY <2>3, <2>6, <1>2, BeforePushing
<1>6. CASE ConditionDone \/ LeftDone \/ RightDone \/ NotDone \/ ValueDone
             \/ ThenEnds \/ ElseEnds \/ WhileEnds
  <2>1. nodes' = nodes /\ ~Wanting(stack, got)
    BY <1>2, <1>6 DEF ConditionDone, LeftDone, RightDone, NotDone, ValueDone, ThenEnds, ElseEnds, WhileEnds,
         Returned, BodyEnds, Wanting, BlockRoles
  <2>2. CASE stack' = Tail(stack)
    BY <2>1, <2>2, <1>2, BeforeReturning
  <2>3. CASE stack' # Tail(stack)
    <3>1. PICK r \in {"body", "then", "rhs", "else"} :
            /\ stack' = <<Frame(Top.node, r, Top.bbs)>> \o Tail(stack)
            /\ r \in Following(Top) /\ (r = "then" => Top.role = "cond") /\ (r = "rhs" => Top.role = "lhs")
      BY <1>6, <2>3 DEF ConditionDone, LeftDone, RightDone, NotDone, ValueDone, ThenEnds, ElseEnds, WhileEnds,
              Returned, BodyEnds, Following
    <3> DEFINE g == Frame(Top.node, r, Top.bbs)
    <3>2. /\ g \in Frames /\ g.node = Top.node /\ g.role = r /\ g.bbs = Top.bbs
      BY <1>2 DEF Frame, Frames, Roles, BlockRoles
    <3>3. Completes(t, nodes, <<g>> \o Tail(stack), got')
      BY <3>1, <2>1
    <3> HIDE DEF g
    <3>4. Following(g) \subseteq Following(Top)
      BY <3>1, <3>2 DEF Following, HasElse
    <3> QED
      BY <3>1, <3>2, <3>3, <3>4, <2>1, <1>2, BeforeGoingOn, SMTT(60)
  <2> QED
    BY <2>2, <2>3, SMTT(60)
<1>7. QED
  BY <1>4, <1>5, <1>6

\* What comes next is the node that is added.
LEMMA NextHere ==
  ASSUME PInv, SInv, NInv, phase = "build", NEW k \in Kinds, Add(k), k \in StatementKinds <=> Top.role \in BlockRoles,
         NEW M, Reads(M), Continues(M.tree, nodes')
  PROVE  /\ NextOf(M, Len(nodes), Top) = M.first[Here]
         /\ Here \in 1..Len(M.tree) /\ M.tree[Here].kind = k /\ Continues(M.tree, nodes)
         /\ M.first[Here] = IF k \in Childless THEN Source!Event(Here, FALSE) ELSE M.first[Here + 1]
         /\ M.after[Here] = Rest(M, Here, Top.node, Top.role)
         /\ Len(nodes') = Here /\ Here = Len(nodes) + 1 /\ Len(nodes) \in Nat /\ Top = stack[1]
         /\ Here \notin Around(stack, 1)
<1>1. PICK n \in Nodes : /\ nodes' = Append(nodes, n) /\ n.kind = k /\ n.parent = stack[1].node
                         /\ n.role = stack[1].role
  BY Adds
<1>2. /\ stack \in Seq(Frames) /\ stack # << >> /\ nodes \in Seq(Nodes) /\ Ordered(nodes, stack)
      /\ Top = stack[1] /\ Here = Len(nodes) + 1 /\ Len(nodes) \in Nat
  BY StackOrdered
<1>3. Continues(M.tree, nodes) /\ M.tree[Here] = n /\ Here \in 1..Len(M.tree)
  BY <1>1, <1>2, ContinuesLess
<1>4. Len(nodes') = Here
  BY <1>1, <1>2, Appended
<1>5. ReadsStatement(M, Here)
  BY <1>3 DEF Reads
<1>6. NextOf(M, Len(nodes), Top) = M.first[Here]
  <2>1. Here \in PartsIn(M.tree, Top.node, Top.role)
    BY <1>1, <1>2, <1>3 DEF PartsIn
  <2>2. Rest(M, Len(nodes), Top.node, Top.role) = M.first[Len(nodes) + 1]
    BY <2>1, <1>2, RestHere
  <2> QED
    BY <2>2, <1>2 DEF NextOf
<1>7. Here \notin Around(stack, 1)
  <2>1. \A l \in 1..Len(stack) : stack[l].node \in 0..Len(nodes)
    BY <1>2 DEF Ordered
  <2>2. \A l \in 1..Len(stack) : stack[l].node # Here
    BY <2>1, <1>2
  <2> QED
    BY <2>2 DEF Around, Own
<1>8. QED
  BY <1>1, <1>2, <1>3, <1>4, <1>5, <1>6, <1>7 DEF ReadsStatement

LEMMA IsAlways ==
  ASSUME NEW z, NEW e, NEW W, z = Always(e, W)
  PROVE  z.slot = 0 /\ z.yes = e /\ z.no = e /\ z.known = W
BY DEF Always, Note

LEMMA IsNote ==
  ASSUME NEW z, NEW s, NEW y, NEW n, NEW W, z = Note(s, y, n, W)
  PROVE  z.slot = s /\ z.yes = y /\ z.no = n /\ z.known = W
BY DEF Note

LEMMA FCallStatement ==
  ASSUME PInv, SInv, NInv, CallStatement \/ ReturnVoid, NEW M, Reads(M), Completes(M.tree, nodes', stack', got'),
         Flows(M)
  PROVE  Flows(M)'
<1>1. PICK k \in {"call", "ret"} :
        Add(k) /\ blocks' = Emitted(blocks, insert, <<Instr(k, Here, 0, << >>)>>)
  BY DEF CallStatement, ReturnVoid
<1>2. /\ phase = "build" /\ UNCHANGED <<insert, stack, got>> /\ got = 0 /\ Top.role \in BlockRoles
  BY DEF CallStatement, ReturnVoid, InBlock, StatementWanted
<1>3. k \in Kinds /\ k \in StatementKinds /\ k \in Childless /\ k \in Ops
  BY DEF Kinds, StatementKinds, Childless, Ops, Terminators
<1>4. /\ NextOf(M, Len(nodes), Top) = M.first[Here]
      /\ Here \in 1..Len(M.tree) /\ M.tree[Here].kind = k /\ Continues(M.tree, nodes)
      /\ M.first[Here] = Source!Event(Here, FALSE)
      /\ M.after[Here] = Rest(M, Here, Top.node, Top.role)
      /\ Len(nodes') = Here /\ Here = Len(nodes) + 1 /\ Len(nodes) \in Nat /\ Top = stack[1]
  BY <1>1, <1>2, <1>3, NextHere DEF Completes
<1>5. PICK E, z : Flow(M, E, z, nodes, blocks, insert, stack, got)
  BY DEF Flows
<1>6. /\ Wired(M, E, blocks, insert, z) /\ z = Always(NextOf(M, Len(nodes), Top), z.known)
      /\ Around(stack, 1) \subseteq z.known
  BY <1>2, <1>4, <1>5, TopNoted
<1> DEFINE x == Instr(k, Here, 0, << >>)
           y == Always(M.after[Here], z.known)
<1>7. x \in Instructions /\ x.op = k /\ x.slot = 0 /\ x.to = << >> /\ x.node = Here
  <2>1. Here \in Nat /\ k \in Ops /\ 0 \in Nat
    BY <1>3, <1>4
  <2> QED
    BY <2>1, OneInstr DEF Instr
<1>8. z.slot = 0 /\ z.yes = Source!Event(Here, FALSE) /\ y.known = z.known /\ y = Always(M.after[Here], y.known)
  <2>1. z = Always(Source!Event(Here, FALSE), z.known)
    BY <1>4, <1>6
  <2>2. z.slot = 0 /\ z.yes = Source!Event(Here, FALSE)
    BY <2>1, IsAlways
  <2>3. y.known = z.known
    BY IsAlways
  <2> QED
    BY <2>2, <2>3
<1>9. blocks \in Seq(Blocks) /\ insert \in 1..Len(blocks)
  BY InsertBlock DEF PInv, Typed
<1>10. y = Always(M.after[Here], z.known)
  OBVIOUS
<1> HIDE DEF x, y
<1>11. Rule(M, E, Len(blocks), x, z, y)
  <2>1. RuleSlot(M, x, z, y) /\ RuleBranch(M, E, Len(blocks), x, z)
    BY <1>7 DEF RuleSlot, RuleBranch
  <2>2. CASE k = "call"
    BY <2>1, <2>2, <1>4, <1>7, <1>8, <1>10 DEF Rule, RuleLeaf
  <2>3. CASE k = "ret"
    <3>1. Here # 0
      BY <1>4
    <3> QED
      BY <3>1, <2>1, <2>3, <1>4, <1>7, <1>8, <1>10 DEF Rule, RuleLeaf
  <2> QED
    BY <2>2, <2>3
<1>12. Wired(M, E, blocks', insert, y)
  BY <1>1, <1>6, <1>7, <1>9, <1>11, WiredEmits DEF x
<1>13. Stands(M, y, Len(nodes'), stack', got')
  BY <1>2, <1>4, <1>6, <1>8 DEF Stands, NextOf
<1>14. Flow(M, E, y, nodes', blocks', insert', stack', got')
  BY <1>2, <1>5, <1>12, <1>13 DEF Flow
<1>15. QED
  BY <1>14 DEF Flows

LEMMA FOperand ==
  ASSUME PInv, SInv, NInv, Operand, NEW M, Reads(M), Completes(M.tree, nodes', stack', got'), Flows(M)
  PROVE  Flows(M)'
<1>1. /\ Add("atom") /\ blocks' = Allocated(blocks, insert, Here, Instr("atom", Here, 0, << >>))
      /\ phase = "build" /\ UNCHANGED <<insert, stack>> /\ got = 0 /\ got' = Here /\ Top.role \notin BlockRoles
  BY DEF Operand, OperandWanted
<1>2. "atom" \in Kinds /\ "atom" \notin StatementKinds /\ "atom" \in Childless /\ "atom" \in Ops
  BY DEF Kinds, StatementKinds, Childless, Ops
<1>3. /\ NextOf(M, Len(nodes), Top) = M.first[Here]
      /\ Here \in 1..Len(M.tree) /\ M.tree[Here].kind = "atom" /\ Continues(M.tree, nodes)
      /\ M.first[Here] = Source!Event(Here, FALSE)
      /\ Here = Len(nodes) + 1 /\ Len(nodes) \in Nat /\ Here \notin Around(stack, 1)
  BY <1>1, <1>2, NextHere DEF Completes
<1>4. PICK E, z : Flow(M, E, z, nodes, blocks, insert, stack, got)
  BY DEF Flows
<1>5. /\ Wired(M, E, blocks, insert, z) /\ z = Always(NextOf(M, Len(nodes), Top), z.known)
      /\ Around(stack, 1) \subseteq z.known /\ E[1] = Always(Rest(M, 0, 0, "top"), {})
  BY <1>1, <1>3, <1>4, TopNoted
<1> DEFINE x == Instr("atom", Here, 0, << >>)
           y == Note(Here, M.yes[Here], M.no[Here], z.known \ {Here})
<1>6. x \in Instructions /\ x.op = "atom" /\ x.slot = 0 /\ x.to = << >> /\ x.node = Here
  <2>1. Here \in Nat /\ "atom" \in Ops /\ 0 \in Nat
    BY <1>2, <1>3
  <2> QED
    BY <2>1, OneInstr DEF Instr
<1>7. z.slot = 0 /\ z.yes = Source!Event(Here, FALSE)
  <2>1. z = Always(Source!Event(Here, FALSE), z.known)
    BY <1>3, <1>5
  <2> QED
    BY <2>1, IsAlways
<1>8. y.known = z.known \ {Here} /\ y = Note(Here, M.yes[Here], M.no[Here], y.known)
  BY DEF Note
<1>9. blocks \in Seq(Blocks) /\ insert \in 1..Len(blocks)
  BY InsertBlock DEF PInv, Typed
<1>10. y = Note(Here, M.yes[Here], M.no[Here], z.known \ {Here})
  OBVIOUS
<1>11. E[1].slot = 0 /\ E[1].known = {}
  BY <1>5, IsAlways
<1> HIDE DEF x, y
<1>12. Rule(M, E, Len(blocks), x, z, y)
  BY <1>3, <1>6, <1>7, <1>10 DEF Rule, RuleLeaf, RuleSlot, RuleBranch
<1>13. Wired(M, E, Allocated(blocks, insert, Here, x), insert, y)
  <2>1. Here \in Nat
    BY <1>3
  <2> QED
    BY <2>1, <1>5, <1>6, <1>9, <1>11, <1>12, WiredAllocated
<1>14. Stands(M, y, Len(nodes'), stack', got')
  BY <1>1, <1>3, <1>5, <1>8 DEF Stands
<1>15. Flow(M, E, y, nodes', blocks', insert', stack', got')
  BY <1>1, <1>4, <1>13, <1>14 DEF Flow, x
<1>16. QED
  BY <1>15 DEF Flows

\* What an action that calls the generator for a first part has to show.
LEMMA FPushed ==
  ASSUME PInv, NEW M, NEW F, NEW z, F[1] = Always(Rest(M, 0, 0, "top"), {}),
         Wired(M, F, blocks', insert', z), FramesNoted(M, F, stack),
         NEW f \in Frames, stack' = <<f>> \o stack, got' = 0, f.role \notin BlockRoles, Len(nodes') = Here,
         FrameNoted(M, F, f, Own(f) \cup Around(stack, 1)),
         z = Always(M.first[Here + 1], z.known), Own(f) \cup Around(stack, 1) \subseteq z.known
  PROVE  Flows(M)'
<1>1. stack \in Seq(Frames)
  BY DEF PInv, Typed
<1>2. FramesNoted(M, F, <<f>> \o stack) /\ Around(<<f>> \o stack, 1) = Own(f) \cup Around(stack, 1)
  BY <1>1, NotedPush
<1>3. stack'[1] = f
  BY <1>1
<1>4. Stands(M, z, Len(nodes'), stack', got')
  BY <1>2, <1>3 DEF Stands, NextOf
<1>5. Flow(M, F, z, nodes', blocks', insert', stack', got')
  BY <1>2, <1>4 DEF Flow
<1>6. QED
  BY <1>5 DEF Flows

\* What it starts from.
LEMMA FPushing ==
  ASSUME PInv, SInv, NInv, phase = "build", got = 0, NEW k \in Kinds \ Childless, Add(k),
         k \in StatementKinds <=> Top.role \in BlockRoles,
         NEW M, Reads(M), Completes(M.tree, nodes', stack', got'),
         NEW E, NEW z, Flow(M, E, z, nodes, blocks, insert, stack, got)
  PROVE  /\ Here \in 1..Len(M.tree) /\ M.tree[Here].kind = k /\ M.first[Here] = M.first[Here + 1]
         /\ Here \in Nat /\ Here # 0 /\ Here \notin Around(stack, 1) /\ Len(nodes') = Here
         /\ Here = Len(nodes) + 1 /\ Len(nodes) \in Nat
         /\ Wired(M, E, blocks, insert, z) /\ z = Always(M.first[Here], z.known)
         /\ z.slot = 0 /\ z.yes = M.first[Here] /\ z.no = M.first[Here]
         /\ Around(stack, 1) \subseteq z.known /\ E[1] = Always(Rest(M, 0, 0, "top"), {})
         /\ FramesNoted(M, E, stack) /\ Continues(M.tree, nodes)
         /\ blocks \in Seq(Blocks) /\ insert \in 1..Len(blocks) /\ stack \in Seq(Frames)
<1>1. k \in Kinds /\ k \notin Childless /\ Continues(M.tree, nodes')
  BY DEF Completes
<1>2. /\ NextOf(M, Len(nodes), Top) = M.first[Here]
      /\ Here \in 1..Len(M.tree) /\ M.tree[Here].kind = k /\ Continues(M.tree, nodes)
      /\ M.first[Here] = IF k \in Childless THEN Source!Event(Here, FALSE) ELSE M.first[Here + 1]
      /\ Here = Len(nodes) + 1 /\ Len(nodes) \in Nat /\ Here \notin Around(stack, 1)
      /\ Len(nodes') = Here
  BY <1>1, NextHere
<1>3. /\ Wired(M, E, blocks, insert, z) /\ z = Always(NextOf(M, Len(nodes), Top), z.known)
      /\ Around(stack, 1) \subseteq z.known /\ E[1] = Always(Rest(M, 0, 0, "top"), {})
  BY <1>2, TopNoted
<1>4. blocks \in Seq(Blocks) /\ insert \in 1..Len(blocks) /\ stack \in Seq(Frames)
  BY InsertBlock DEF PInv, Typed
<1>5. z = Always(M.first[Here], z.known)
  BY <1>2, <1>3
<1>6. z.slot = 0 /\ z.yes = M.first[Here] /\ z.no = M.first[Here]
  BY <1>5, IsAlways
<1>7. FramesNoted(M, E, stack)
  BY DEF Flow
<1>8. Here \in Nat /\ Here # 0
  BY <1>2
<1>9. M.first[Here] = M.first[Here + 1]
  BY <1>1, <1>2
<1>10. QED
  BY <1>2, <1>3, <1>4, <1>5, <1>6, <1>7, <1>8, <1>9

LEMMA FPushPlain ==
  ASSUME PInv, SInv, NInv, ValueStatement \/ BooleanNot, NEW M, Reads(M),
         Completes(M.tree, nodes', stack', got'), Flows(M)
  PROVE  Flows(M)'
<1>1. PICK k \in {"set", "retval", "not"}, r \in {"value", "operand"} :
        /\ Add(k) /\ stack' = <<Frame(Here, r, << >>)>> \o stack
        /\ k \in StatementKinds <=> Top.role \in BlockRoles
  BY DEF ValueStatement, BooleanNot, InBlock, StatementWanted, OperandWanted, StatementKinds
<1>2. /\ phase = "build" /\ UNCHANGED <<blocks, insert, got>> /\ got = 0 /\ k \in Kinds \ Childless
  BY DEF ValueStatement, BooleanNot, InBlock, StatementWanted, OperandWanted, Kinds, Childless
<1>3. PICK E, z : Flow(M, E, z, nodes, blocks, insert, stack, got)
  BY DEF Flows
<1>4. /\ M.first[Here] = M.first[Here + 1] /\ Here \in Nat /\ Len(nodes') = Here
      /\ Wired(M, E, blocks, insert, z) /\ z = Always(M.first[Here], z.known)
      /\ Around(stack, 1) \subseteq z.known /\ E[1] = Always(Rest(M, 0, 0, "top"), {})
      /\ FramesNoted(M, E, stack)
  BY <1>1, <1>2, <1>3, FPushing
<1> DEFINE f == Frame(Here, r, << >>)
<1>5. f \in Frames /\ f.role = r
  BY <1>4 DEF Frame, Frames, Roles
<1>6. stack' = <<f>> \o stack
  BY <1>1
<1> HIDE DEF f
<1>7. Own(f) = {} /\ f.role \notin BlockRoles
  BY <1>5 DEF Own, BlockRoles
<1>8. FrameNoted(M, E, f, Own(f) \cup Around(stack, 1))
  BY <1>5 DEF FrameNoted
<1>9. z = Always(M.first[Here + 1], z.known) /\ Own(f) \cup Around(stack, 1) \subseteq z.known
  BY <1>4, <1>7
<1>10. Wired(M, E, blocks', insert', z) /\ got' = 0
  BY <1>2, <1>4
<1>11. QED
  BY <1>4, <1>5, <1>6, <1>7, <1>8, <1>9, <1>10, FPushed

LEMMA FConditional ==
  ASSUME PInv, SInv, NInv, Conditional, NEW M, Reads(M), Completes(M.tree, nodes', stack', got'), Flows(M)
  PROVE  Flows(M)'
<1>1. PICK e \in {1, 2} :
        /\ blocks' = Created(blocks, e + 1)
        /\ stack' = <<Frame(Here, "cond", <<Len(blocks) + 1, Len(blocks) + 2, Len(blocks) + 1 + e>>)>>
                      \o stack
  BY ConditionalBlocks
<1>2. /\ phase = "build" /\ UNCHANGED <<insert, got>> /\ got = 0 /\ Add("if")
      /\ "if" \in Kinds \ Childless /\ ("if" \in StatementKinds <=> Top.role \in BlockRoles)
  BY DEF Conditional, InBlock, StatementWanted, Kinds, Childless, StatementKinds
<1>3. PICK E, z : Flow(M, E, z, nodes, blocks, insert, stack, got)
  BY DEF Flows
<1>4. /\ Here \in 1..Len(M.tree) /\ M.tree[Here].kind = "if"
      /\ M.first[Here] = M.first[Here + 1] /\ Here \in Nat /\ Len(nodes') = Here
      /\ Wired(M, E, blocks, insert, z) /\ z = Always(M.first[Here], z.known)
      /\ Around(stack, 1) \subseteq z.known /\ E[1] = Always(Rest(M, 0, 0, "top"), {})
      /\ FramesNoted(M, E, stack) /\ Continues(M.tree, nodes)
      /\ blocks \in Seq(Blocks) /\ insert \in 1..Len(blocks) /\ stack \in Seq(Frames)
      /\ Here = Len(nodes) + 1 /\ Len(nodes) \in Nat
  BY <1>2, <1>3, FPushing
<1> DEFINE W == Around(stack, 1)
           n == Len(blocks)
           bbs == <<n + 1, n + 2, n + 1 + e>>
           f == Frame(Here, "cond", bbs)
<1>5. /\ f \in Frames /\ f.node = Here /\ f.role = "cond" /\ f.bbs = bbs /\ stack' = <<f>> \o stack
      /\ n \in Nat /\ bbs[1] = n + 1 /\ bbs[2] = n + 2 /\ bbs[3] = n + 1 + e
  BY <1>1, <1>4, SMTT(30) DEF Frame, Frames, Roles
<1>6. Own(f) = {} /\ f.role \notin BlockRoles
  BY <1>5 DEF Own, BlockRoles
<1> DEFINE N == <<Always(Rest(M, 0, Here, "then"), W),
                  Always(IF e = 1 THEN M.after[Here] ELSE Rest(M, 0, Here, "else"), W),
                  Always(M.after[Here], W)>>
           F == NotesOf(E, n, e + 1, N)
<1>7. /\ \A b \in 1..n : F[b] = E[b]
      /\ \A i \in 1..e + 1 : F[n + i] = N[i]
  <2>1. e + 1 \in Nat
    OBVIOUS
  <2>2. n \in Nat
    BY <1>5
  <2> HIDE DEF N, n
  <2> QED
    BY <2>1, <2>2, NewNotes
<1> HIDE DEF F
<1>8. e = 1 => Rest(M, 0, Here, "else") = M.after[Here]
  <2> SUFFICES ASSUME e = 1 PROVE Rest(M, 0, Here, "else") = M.after[Here]
    OBVIOUS
  <2>1. ~HasElse(f)
    <3>1. n + 2 = n + 1 + e
      BY <1>5
    <3> QED
      BY <3>1, <1>5 DEF HasElse
  <2>2. ASSUME NEW j \in 1..Len(stack'), stack'[j].node = Here
        PROVE  "else" \notin {stack'[j].role} \cup Following(stack'[j])
    <3>1. CASE j = 1
      <4>1. stack'[j] = f
        BY <3>1, <1>4, <1>5
      <4> QED
        BY <4>1, <2>1, <1>5 DEF Following
    <3>2. CASE j # 1
      <4>1. stack'[j] = stack[j - 1] /\ j - 1 \in 1..Len(stack)
        BY <3>2, <1>4, <1>5, CallOnTop
      <4>2. stack[j - 1].node \in 0..Len(nodes)
        BY <4>1, <1>2, StackOrdered DEF Ordered
      <4> QED
        BY <4>1, <4>2, <2>2, <1>4
    <3> QED
      BY <3>1, <3>2
  <2>3. \A j \in PartsIn(M.tree, Here, "else") : j <= Here
    <3>1. \A j \in 1..Len(stack') : stack'[j].node = Here => "else" \notin {stack'[j].role} \cup Following(stack'[j])
      BY <2>2
    <3>2. Len(nodes') \in Nat /\ Here <= Len(nodes')
      BY <1>4
    <3>3. \A j \in PartsIn(M.tree, Here, "else") : j <= Len(nodes')
      BY <3>1, <3>2, NoMoreParts, Zenon
    <3> QED
      BY <3>3, <1>4
  <2>4. Rest(M, Here, Here, "else") = M.after[Here]
    BY <2>3, <1>4, RestNone
  <2>5. \A j \in 0 + 1 .. Here : j \notin PartsIn(M.tree, Here, "else")
    <3> SUFFICES ASSUME NEW j \in 0 + 1 .. Here, j \in PartsIn(M.tree, Here, "else") PROVE FALSE
      OBVIOUS
    <3>1. NodesFit(nodes') /\ j \in 1..Len(nodes') /\ Continues(M.tree, nodes')
      BY <1>2, <1>4, Adds DEF Completes
    <3>2. M.tree[j] = nodes'[j] /\ M.tree[j].parent = Here /\ M.tree[j] \in Nodes
      BY <3>1 DEF Continues, PartsIn
    <3>3. Here < j
      BY <3>1, <3>2 DEF NodesFit, NodeFits
    <3> QED
      BY <3>3, <1>4
  <2> QED
    BY <2>4, <2>5, <1>4, RestSame
<1>9. F[n + 1] = Always(Rest(M, 0, Here, "then"), W) /\ F[n + 2] = Always(Rest(M, 0, Here, "else"), W)
      /\ F[n + 1 + e] = Always(M.after[Here], W)
  <2>1. 1 \in 1 .. e + 1 /\ 2 \in 1 .. e + 1
    OBVIOUS
  <2>2. CASE e = 1
    <3>1. n + 1 + e = n + 2
      BY <2>2, <1>5
    <3> QED
      BY <2>1, <2>2, <3>1, <1>7, <1>8
  <2>3. CASE e = 2
    <3>1. n + 1 + e = n + 3 /\ 3 \in 1 .. e + 1
      BY <2>3, <1>5
    <3> QED
      BY <2>1, <2>3, <3>1, <1>7
  <2> QED
    BY <2>2, <2>3
<1>10. F[1] = E[1] /\ FramesNoted(M, F, stack)
  <2>1. 1 \in 1..n
    BY <1>4
  <2>2. \A k \in 1..Len(stack) : /\ Shaped(M.tree, stack[k])
                                 /\ \A j \in 1..Len(stack[k].bbs) : stack[k].bbs[j] \in 1..n
    BY <1>2, <1>4, BlocksNoted
  <2> HIDE DEF n, N
  <2> QED
    BY <2>1, <2>2, <1>4, <1>7, NotedMore
<1>11. Wired(M, F, blocks', insert', z)
  <2>1. e + 1 \in Nat
    OBVIOUS
  <2> QED
    BY <2>1, <1>1, <1>2, <1>4, <1>7, WiredCreated
<1> HIDE DEF f, bbs, n, N
<1>12. FrameNoted(M, F, f, Own(f) \cup W)
  <2>1. Own(f) \cup W = W
    BY <1>6
  <2> QED
    BY <2>1, <1>4, <1>5, <1>9 DEF FrameNoted
<1>13. z = Always(M.first[Here + 1], z.known) /\ Own(f) \cup W \subseteq z.known /\ got' = 0
  BY <1>2, <1>4, <1>6
<1>14. QED
  BY <1>4, <1>5, <1>6, <1>10, <1>11, <1>12, <1>13, FPushed

\* A branch, and how it goes on at a block with the same note.
LEMMA BranchInstr ==
  ASSUME NEW t \in Nat
  PROVE  LET x == Instr("br", 0, 0, <<t>>)
         IN x \in Instructions /\ x.op = "br" /\ x.node = 0 /\ x.slot = 0 /\ x.to = <<t>>
            /\ Len(x.to) = 1 /\ x.to[1] = t
<1>1. <<t>> \in Seq(Nat) /\ 0 \in Nat /\ "br" \in Ops /\ Len(<<t>>) = 1 /\ <<t>>[1] = t
  BY DEF Ops, Terminators
<1>2. QED
  BY <1>1 DEF Instr, Instructions

LEMMA WiredBranches ==
  ASSUME NEW M, NEW E, NEW bs \in Seq(Blocks), NEW b0 \in 1..Len(bs), NEW z, Wired(M, E, bs, b0, z),
         NEW t \in 1..Len(bs), E[t].slot = z.slot, E[t].yes = z.yes, E[t].no = z.no,
         E[t].known \subseteq z.known
  PROVE  Wired(M, E, Emitted(bs, b0, <<Instr("br", 0, 0, <<t>>)>>), b0, z)
<1> DEFINE x == Instr("br", 0, 0, <<t>>)
<1>1. x \in Instructions /\ x.op = "br" /\ Len(x.to) = 1 /\ x.to[1] = t
  BY BranchInstr
<1> HIDE DEF x
<1>2. Rule(M, E, Len(bs), x, z, z)
  BY <1>1 DEF Rule, RuleLeaf, RuleSlot, RuleBranch
<1>3. Wired(M, E, Emitted(bs, b0, <<x>>), b0, z)
  BY <1>1, <1>2, WiredEmits
<1>4. QED
  BY <1>3 DEF x

LEMMA FWhile ==
  ASSUME PInv, SInv, NInv, While, NEW M, Reads(M), Completes(M.tree, nodes', stack', got'), Flows(M)
  PROVE  Flows(M)'
<1> DEFINE W == Around(stack, 1)
           n == Len(blocks)
           bbs == <<n + 1, n + 2, n + 3>>
           f == Frame(Here, "cond", bbs)
           C == Created(blocks, 3)
           x == Instr("br", 0, 0, <<n + 1>>)
<1>0. n \in Nat
  BY DEF PInv, Typed
<1>1. blocks' = Emitted(C, insert, <<x>>) /\ stack' = <<f>> \o stack /\ insert' = n + 1
  <2>1. n + 1 + 1 = n + 2 /\ n + 1 + 2 = n + 3
    BY <1>0
  <2>2. insert' = n + 1
    BY DEF While, Place
  <2> QED
    BY <2>1, <2>2 DEF While
<1>2. /\ phase = "build" /\ got' = 0 /\ got = 0 /\ Add("while")
      /\ "while" \in Kinds \ Childless /\ ("while" \in StatementKinds <=> Top.role \in BlockRoles)
  BY DEF While, InBlock, StatementWanted, Kinds, Childless, StatementKinds
<1>3. PICK E, z : Flow(M, E, z, nodes, blocks, insert, stack, got)
  BY DEF Flows
<1>4. /\ Here \in 1..Len(M.tree) /\ M.tree[Here].kind = "while"
      /\ M.first[Here] = M.first[Here + 1] /\ Here \in Nat /\ Len(nodes') = Here
      /\ Wired(M, E, blocks, insert, z)
      /\ z.slot = 0 /\ z.yes = M.first[Here] /\ z.no = M.first[Here]
      /\ W \subseteq z.known /\ E[1] = Always(Rest(M, 0, 0, "top"), {})
      /\ FramesNoted(M, E, stack) /\ Continues(M.tree, nodes)
      /\ blocks \in Seq(Blocks) /\ insert \in 1..n /\ stack \in Seq(Frames)
  BY <1>2, <1>3, FPushing
<1>5. /\ f \in Frames /\ f.node = Here /\ f.role = "cond" /\ f.bbs = bbs
      /\ bbs[1] = n + 1 /\ bbs[2] = n + 2 /\ bbs[3] = n + 3
  BY <1>0, <1>4 DEF Frame, Frames, Roles
<1>6. Own(f) = {} /\ f.role \notin BlockRoles
  BY <1>5 DEF Own, BlockRoles
<1> DEFINE N == <<Always(M.first[Here], W), Always(Rest(M, 0, Here, "body"), W), Always(M.after[Here], W)>>
           m == 3
           F == NotesOf(E, n, m, N)
<1>7. (\A b \in 1..n : F[b] = E[b]) /\ \A i \in 1..3 : F[n + i] = N[i]
  <2>1. m \in Nat /\ n \in Nat
    BY <1>0
  <2> HIDE DEF N, n, m
  <2>2. (\A b \in 1..n : F[b] = E[b]) /\ \A i \in 1..m : F[n + i] = N[i]
    BY <2>1, NewNotes
  <2> QED
    BY <2>2 DEF m
<1> HIDE DEF F
<1>8. F[n + 1] = Always(M.first[Here], W) /\ F[n + 2] = Always(Rest(M, 0, Here, "body"), W)
      /\ F[n + 3] = Always(M.after[Here], W)
  BY <1>7
<1>9. F[1] = E[1] /\ FramesNoted(M, F, stack)
  <2>1. 1 \in 1..n
    BY <1>4
  <2>2. \A k \in 1..Len(stack) : /\ Shaped(M.tree, stack[k])
                                 /\ \A j \in 1..Len(stack[k].bbs) : stack[k].bbs[j] \in 1..n
    BY <1>2, <1>4, BlocksNoted
  <2> HIDE DEF n, N
  <2> QED
    BY <2>1, <2>2, <1>4, <1>7, NotedMore
<1>10. /\ C \in Seq(Blocks) /\ Len(C) = n + 3 /\ C[n + 1] = << >> /\ Wired(M, F, C, insert, z)
       /\ insert \in 1..Len(C) /\ n + 1 \in 1..Len(C) /\ insert # n + 1
  <2>1. C \in Seq(Blocks) /\ Len(C) = n + 3 /\ C[n + 1] = << >>
    <3>1. 3 \in Nat /\ n + 1 \in n + 1 .. n + 3
      BY <1>0
    <3> HIDE DEF C
    <3>2. /\ C \in Seq(Blocks) /\ Len(C) = n + 3
          /\ \A c \in n + 1 .. n + 3 : C[c] = << >>
      BY <3>1, <1>4, CreatedBlocks, ZenonT(40) DEF C
    <3> QED
      BY <3>1, <3>2
  <2>2. Wired(M, F, C, insert, z)
    BY <1>4, <1>7, WiredCreated
  <2> QED
    BY <2>1, <2>2, <1>0, <1>4
<1> HIDE DEF C, N
<1>11. Wired(M, F, blocks', insert, z)
  <2>1. F[n + 1].slot = z.slot /\ F[n + 1].yes = z.yes /\ F[n + 1].no = z.no /\ F[n + 1].known \subseteq z.known
    BY <1>4, <1>8, IsAlways
  <2> HIDE DEF n
  <2> QED
    BY <2>1, <1>10, <1>1, WiredBranches
<1>12. Wired(M, F, blocks', insert', F[n + 1])
  <2>1. <<x>> \in Blocks
    <3>1. x \in Instructions
      <4>1. n + 1 \in Nat
        BY <1>0
      <4> HIDE DEF n
      <4> QED
        BY <4>1, BranchInstr
    <3> HIDE DEF x
    <3> QED
      BY <3>1 DEF Blocks
  <2>2. Len(blocks') = Len(C) /\ blocks'[n + 1] = C[n + 1]
    BY <2>1, <1>1, <1>10, EmittedBlocks
  <2> QED
    BY <2>2, <1>1, <1>10, <1>11, WiredMoves
<1> DEFINE y == F[n + 1]
<1> HIDE DEF f, bbs, n
<1>13. FrameNoted(M, F, f, Own(f) \cup W)
  <2>1. Own(f) \cup W = W
    BY <1>6
  <2> QED
    BY <2>1, <1>4, <1>5, <1>8 DEF FrameNoted
<1>14. y = Always(M.first[Here + 1], y.known) /\ Own(f) \cup W \subseteq y.known
  <2>1. y.known = W
    BY <1>8, IsAlways
  <2> QED
    BY <2>1, <1>4, <1>6, <1>8
<1> HIDE DEF y
<1>15. Wired(M, F, blocks', insert', y) /\ F[1] = Always(Rest(M, 0, 0, "top"), {})
  BY <1>12, <1>9, <1>4 DEF y
<1>16. QED
  BY <1>1, <1>2, <1>4, <1>5, <1>6, <1>9, <1>13, <1>14, <1>15, FPushed

LEMMA FShortCircuit ==
  ASSUME PInv, SInv, NInv, ShortCircuit, NEW M, Reads(M), Completes(M.tree, nodes', stack', got'), Flows(M)
  PROVE  Flows(M)'
<1>1. PICK op \in {"and", "or"} :
        /\ Add(op)
        /\ blocks' = Created(Allocated(blocks, insert, Here,
                               Instr(IF op = "and" THEN "false" ELSE "true", Here, 0, << >>)), 2)
  BY DEF ShortCircuit
<1> DEFINE V == Around(stack, 1)
           W == {Here} \cup V
           n == Len(blocks)
           bbs == <<n + 1, n + 2>>
           f == Frame(Here, "lhs", bbs)
           x == Instr(IF op = "and" THEN "false" ELSE "true", Here, 0, << >>)
           A == Allocated(blocks, insert, Here, x)
<1>0. n \in Nat
  BY DEF PInv, Typed
<1>2. /\ phase = "build" /\ got' = 0 /\ got = 0 /\ insert' = insert /\ stack' = <<f>> \o stack
      /\ op \in Kinds \ Childless /\ (op \in StatementKinds <=> Top.role \in BlockRoles)
  BY DEF ShortCircuit, OperandWanted, Kinds, Childless, StatementKinds
<1>3. PICK E, z : Flow(M, E, z, nodes, blocks, insert, stack, got)
  BY DEF Flows
<1>4. /\ Here \in 1..Len(M.tree) /\ M.tree[Here].kind = op
      /\ M.first[Here] = M.first[Here + 1] /\ Here \in Nat /\ Here # 0 /\ Here \notin V /\ Len(nodes') = Here
      /\ Wired(M, E, blocks, insert, z)
      /\ z.slot = 0 /\ z.yes = M.first[Here] /\ z.no = M.first[Here]
      /\ V \subseteq z.known /\ E[1] = Always(Rest(M, 0, 0, "top"), {})
      /\ FramesNoted(M, E, stack) /\ Continues(M.tree, nodes)
      /\ blocks \in Seq(Blocks) /\ insert \in 1..n /\ stack \in Seq(Frames)
  BY <1>1, <1>2, <1>3, FPushing
<1>5. /\ f \in Frames /\ f.node = Here /\ f.role = "lhs" /\ f.bbs = bbs /\ bbs[1] = n + 1 /\ bbs[2] = n + 2
  BY <1>0, <1>4 DEF Frame, Frames, Roles
<1>6. Own(f) = {Here} /\ f.role \notin BlockRoles
  BY <1>5 DEF Own, BlockRoles
<1> DEFINE N == <<Always(FirstPart(M, Here, "rhs"), W), Note(Here, M.yes[Here], M.no[Here], W \ {Here})>>
           m == 2
           F == NotesOf(E, n, m, N)
           y == Note(z.slot, z.yes, z.no, z.known \cup {Here})
<1>7. (\A b \in 1..n : F[b] = E[b]) /\ \A i \in 1..2 : F[n + i] = N[i]
  <2>1. m \in Nat /\ n \in Nat
    BY <1>0
  <2> HIDE DEF N, n, m
  <2>2. (\A b \in 1..n : F[b] = E[b]) /\ \A i \in 1..m : F[n + i] = N[i]
    BY <2>1, NewNotes
  <2> QED
    BY <2>2 DEF m
<1> HIDE DEF F
<1>8. /\ F[n + 1] = Always(FirstPart(M, Here, "rhs"), W)
      /\ F[n + 2] = Note(Here, M.yes[Here], M.no[Here], W \ {Here})
  BY <1>7
<1>9. F[1] = E[1] /\ FramesNoted(M, F, stack)
  <2>1. 1 \in 1..n
    BY <1>4
  <2>2. \A k \in 1..Len(stack) : /\ Shaped(M.tree, stack[k])
                                 /\ \A j \in 1..Len(stack[k].bbs) : stack[k].bbs[j] \in 1..n
    BY <1>2, <1>4, BlocksNoted
  <2> HIDE DEF n, N
  <2> QED
    BY <2>1, <2>2, <1>4, <1>7, NotedMore
<1>10. /\ x \in Instructions /\ x.node = Here /\ x.op \in {"false", "true"}
       /\ (x.op = "true" <=> M.tree[x.node].kind = "or")
  <2> DEFINE o == IF op = "and" THEN "false" ELSE "true"
  <2>1. o \in {"false", "true"} /\ (o = "true" <=> op = "or")
    OBVIOUS
  <2>2. o \in Ops /\ 0 \in Nat
    BY <2>1 DEF Ops
  <2> HIDE DEF o
  <2>3. LET v == Instr(o, Here, 0, << >>)
        IN v \in Instructions /\ v.op = o /\ v.node = Here
    BY <2>2, <1>4, OneInstr DEF Instr
  <2> QED
    BY <2>1, <2>3, <1>4 DEF o
<1>11. y = Note(z.slot, z.yes, z.no, z.known \cup {Here})
  OBVIOUS
<1> HIDE DEF x, y, N
<1>12. Rule(M, E, Len(blocks), x, z, y)
  BY <1>4, <1>10, <1>11 DEF Rule, RuleLeaf, RuleSlot, RuleBranch
<1>13. Wired(M, E, A, insert, y) /\ A \in Seq(Blocks) /\ Len(A) = n /\ insert \in 1..Len(A)
  <2>1. E[1].slot = 0 /\ E[1].known = {}
    BY <1>4, IsAlways
  <2>2. Wired(M, E, A, insert, y)
    BY <2>1, <1>4, <1>10, <1>12, WiredAllocated
  <2> QED
    BY <2>2, <1>4, <1>10, AllocatedBlocks
<1> HIDE DEF A
<1>14. Wired(M, F, blocks', insert', y)
  <2>1. blocks' = Created(A, 2)
    BY <1>1 DEF A, x
  <2>2. \A b \in 1..Len(A) : F[b] = E[b]
    BY <1>7, <1>13
  <2> QED
    BY <2>1, <2>2, <1>2, <1>13, WiredCreated
<1>15. y = Always(M.first[Here + 1], y.known) /\ y.known = z.known \cup {Here}
  <2>1. y.known = z.known \cup {Here}
    BY <1>11, IsNote
  <2> QED
    BY <2>1, <1>4, <1>11 DEF Always
<1> HIDE DEF f, bbs, n
<1>16. FrameNoted(M, F, f, Own(f) \cup V)
  <2>1. Own(f) \cup V = W
    BY <1>6
  <2> HIDE DEF W
  <2> QED
    BY <2>1, <1>5, <1>8 DEF FrameNoted
<1>17. Own(f) \cup V \subseteq y.known /\ F[1] = Always(Rest(M, 0, 0, "top"), {})
  BY <1>4, <1>6, <1>9, <1>15
<1>18. QED
  BY <1>2, <1>4, <1>5, <1>6, <1>9, <1>14, <1>15, <1>16, <1>17, FPushed

-----------------------------------------------------------------------------
(* Calls that go on or return.                                             *)

LEMMA PendingEmpty ==
  ASSUME PInv, TInv, NEW b \in Pending(nodes, Top)
  PROVE  blocks[b] = << >> /\ b \in 1..Len(blocks) /\ b # insert
<1>1. /\ b \in 1..Len(blocks) /\ \A k \in 1..Len(layout) : layout[k] # b
      /\ \E k \in 1..Len(layout) : layout[k] = insert
  BY LayoutTyped
<1>2. QED
  BY <1>1 DEF TInv, Settled

\* The builder goes to a block that waits.
LEMMA WiredGoes ==
  ASSUME PInv, TInv, NEW b \in Pending(nodes, Top), NEW s \in Blocks,
         blocks' = blocks \/ blocks' = Emitted(blocks, insert, s),
         NEW M, NEW E, NEW z, Wired(M, E, blocks', insert, z)
  PROVE  Wired(M, E, blocks', b, E[b])
<1>1. blocks[b] = << >> /\ b \in 1..Len(blocks) /\ b # insert
  BY PendingEmpty
<1>2. blocks \in Seq(Blocks) /\ insert \in 1..Len(blocks)
  BY InsertBlock DEF PInv, Typed
<1>3. Len(blocks') = Len(blocks) /\ blocks'[b] = blocks[b]
  <2>1. CASE blocks' = blocks
    BY <2>1
  <2>2. CASE blocks' = Emitted(blocks, insert, s)
    BY <2>2, <1>1, <1>2, EmittedBlocks
  <2> QED
    BY <2>1, <2>2
<1>4. QED
  BY <1>1, <1>3, WiredMoves

LEMMA CondInstr ==
  ASSUME NEW s \in Nat, NEW j \in Nat, NEW k \in Nat
  PROVE  LET x == Instr("condbr", 0, s, <<j, k>>)
         IN x \in Instructions /\ x.op = "condbr" /\ x.slot = s /\ Len(x.to) = 2
            /\ x.to[1] = j /\ x.to[2] = k
<1>1. <<j, k>> \in Seq(Nat) /\ 0 \in Nat /\ "condbr" \in Ops /\ Len(<<j, k>>) = 2
      /\ <<j, k>>[1] = j /\ <<j, k>>[2] = k
  BY DEF Ops, Terminators
<1>2. QED
  BY <1>1 DEF Instr, Instructions

LEMMA WiredCondBr ==
  ASSUME NEW M, NEW E, NEW bs \in Seq(Blocks), NEW b0 \in 1..Len(bs), NEW z, Wired(M, E, bs, b0, z),
         NEW j \in 1..Len(bs), NEW k \in 1..Len(bs), got \in Nat, got # 0, z.slot = got,
         Carries(M, E[j], z, z.yes), Carries(M, E[k], z, z.no)
  PROVE  Wired(M, E, Emitted(bs, b0, CondBr(j, k)), b0, z)
<1> DEFINE x == Instr("condbr", 0, got, <<j, k>>)
<1>1. x \in Instructions /\ x.op = "condbr" /\ x.slot = got /\ Len(x.to) = 2 /\ x.to[1] = j /\ x.to[2] = k
  BY CondInstr
<1> HIDE DEF x
<1>2. \A t \in 1..Len(x.to) : x.to[t] \in 1..Len(bs)
  BY <1>1
<1>3. Rule(M, E, Len(bs), x, z, z)
  BY <1>1, <1>2 DEF Rule, RuleLeaf, RuleSlot, RuleBranch
<1>4. Wired(M, E, Emitted(bs, b0, <<x>>), b0, z)
  BY <1>1, <1>3, WiredEmits
<1>5. QED
  BY <1>4 DEF x, CondBr

\* What the actions start from.
LEMMA FMoving ==
  ASSUME PInv, SInv, NInv, phase = "build", nodes' = nodes, Top.role # "top",
         NEW M, Reads(M), Completes(M.tree, nodes', stack', got'),
         NEW E, NEW z, Flow(M, E, z, nodes, blocks, insert, stack, got)
  PROVE  /\ Top \in Frames /\ Tail(stack) \in Seq(Frames) /\ stack = <<Top>> \o Tail(stack)
         /\ FrameNoted(M, E, Top, Around(stack, 1)) /\ FramesNoted(M, E, Tail(stack))
         /\ Around(stack, 1) = Own(Top) \cup Around(Tail(stack), 1)
         /\ Top.node \notin Around(Tail(stack), 1) /\ Around(stack, 1) \subseteq z.known
         /\ M.tree[Top.node] = nodes[Top.node] /\ Top.node \in 1..Len(nodes) /\ Continues(M.tree, nodes)
         /\ Wired(M, E, blocks, insert, z) /\ E[1] = Always(Rest(M, 0, 0, "top"), {})
         /\ blocks \in Seq(Blocks) /\ insert \in 1..Len(blocks) /\ Len(nodes) \in Nat /\ got \in Nat
         /\ \A j \in 1..Len(Top.bbs) : Top.bbs[j] \in 1..Len(blocks)
         /\ Shaped(nodes, Top) /\ nodes[Top.node].kind \in KindsWith(Top.role)
<1>1. Continues(M.tree, nodes)
  BY DEF Completes
<1>2. Top = stack[1] /\ 1 \in 1..Len(stack) /\ Shaped(nodes, Top) /\ Top.node \in 1..Len(nodes)
  BY TopOfStack DEF PInv
<1>3. \A j \in 1..Len(Top.bbs) : Top.bbs[j] \in 1..Len(blocks)
  BY <1>1, <1>2, BlocksNoted
<1>4. blocks \in Seq(Blocks) /\ insert \in 1..Len(blocks) /\ Len(nodes) \in Nat /\ got \in Nat
  BY InsertBlock DEF PInv, Typed
<1>5. nodes[Top.node].kind \in KindsWith(Top.role)
  BY TopKind
<1>6. /\ Top \in Frames /\ Tail(stack) \in Seq(Frames) /\ stack = <<Top>> \o Tail(stack)
      /\ FrameNoted(M, E, Top, Around(stack, 1)) /\ FramesNoted(M, E, Tail(stack))
      /\ Around(stack, 1) = Own(Top) \cup Around(Tail(stack), 1)
      /\ Top.node \notin Around(Tail(stack), 1) /\ Around(stack, 1) \subseteq z.known
      /\ M.tree[Top.node] = nodes[Top.node]
      /\ Wired(M, E, blocks, insert, z) /\ E[1] = Always(Rest(M, 0, 0, "top"), {})
  BY <1>1, TopNoted
<1>7. QED
  BY <1>1, <1>2, <1>3, <1>4, <1>5, <1>6

\* The expression a call has got.
LEMMA FGot ==
  ASSUME PInv, SInv, NInv, phase = "build", got # 0, NEW M, Reads(M), Continues(M.tree, nodes),
         NEW E, NEW z, Flow(M, E, z, nodes, blocks, insert, stack, got)
  PROVE  /\ z.slot = got /\ z.yes = M.yes[got] /\ z.no = M.no[got]
         /\ ReadsExpression(M, got, Top.node, Top.role, M.tree[Top.node].kind)
<1>1. z = Note(got, M.yes[got], M.no[got], z.known)
  BY TopNoted
<1>2. z.slot = got /\ z.yes = M.yes[got] /\ z.no = M.no[got]
  BY <1>1, IsNote
<1>3. Top = stack[1]
  BY StackOrdered
<1>4. got \in 1..Len(nodes) /\ nodes[got].parent = Top.node /\ nodes[got].role = Top.role
  BY <1>3 DEF NInv, GotPart, PartsIn
<1>5. got \in 1..Len(M.tree) /\ M.tree[got] = nodes[got]
  <2>1. nodes \in Seq(Nodes) /\ M.tree \in Seq(Nodes)
    BY DEF PInv, Typed, Continues
  <2> QED
    BY <2>1, <1>4 DEF Continues
<1>6. QED
  BY <1>2, <1>4, <1>5 DEF Reads

\* No statement's value is got: what comes next.
LEMMA FNext ==
  ASSUME PInv, SInv, phase = "build", got = 0, Top.role \in BlockRoles, NEW M, Continues(M.tree, nodes),
         NEW E, NEW z, Flow(M, E, z, nodes, blocks, insert, stack, got)
  PROVE  LET e == Rest(M, Len(nodes), Top.node, Top.role) IN z.slot = 0 /\ z.yes = e /\ z.no = e
<1>1. z = Always(NextOf(M, Len(nodes), Top), z.known)
  BY TopNoted
<1>2. z = Always(Rest(M, Len(nodes), Top.node, Top.role), z.known)
  BY <1>1 DEF NextOf
<1>3. QED
  BY <1>2, IsAlways

\* What an action has to show that goes on with the parts of another role,
LEMMA FSwapped ==
  ASSUME NEW M, NEW E, NEW y, E[1] = Always(Rest(M, 0, 0, "top"), {}), Wired(M, E, blocks', insert', y),
         FramesNoted(M, E, Tail(stack)), Tail(stack) \in Seq(Frames), NEW g \in Frames,
         stack' = <<g>> \o Tail(stack), got' = 0,
         NEW W, W = Own(g) \cup Around(Tail(stack), 1), FrameNoted(M, E, g, W), W \subseteq y.known,
         y = Always(NextOf(M, Len(nodes'), g), y.known)
  PROVE  Flows(M)'
<1>1. FramesNoted(M, E, <<g>> \o Tail(stack)) /\ Around(<<g>> \o Tail(stack), 1) = W
  BY NotedPush
<1>2. stack'[1] = g
  OBVIOUS
<1>3. Stands(M, y, Len(nodes'), stack', got')
  BY <1>1, <1>2 DEF Stands
<1>4. Flow(M, E, y, nodes', blocks', insert', stack', got')
  BY <1>1, <1>3 DEF Flow
<1>5. QED
  BY <1>4 DEF Flows

\* and one by which a call returns.
LEMMA FPopped ==
  ASSUME NEW M, NEW E, NEW y, E[1] = Always(Rest(M, 0, 0, "top"), {}), Wired(M, E, blocks', insert', y),
         FramesNoted(M, E, Tail(stack)), stack' = Tail(stack), Around(Tail(stack), 1) \subseteq y.known,
         IF got' # 0 THEN y = Note(got', M.yes[got'], M.no[got'], y.known)
                     ELSE y = Always(NextOf(M, Len(nodes'), stack'[1]), y.known)
  PROVE  Flows(M)'
<1>1. Flow(M, E, y, nodes', blocks', insert', stack', got')
  BY DEF Flow, Stands
<1>2. QED
  BY <1>1 DEF Flows

\* After a statement its block goes on.
LEMMA FReturned ==
  ASSUME PInv, SInv, NInv, phase = "build", event' = event, nodes' = nodes, Top.role # "top",
         stack' = Tail(stack), got' = 0, nodes[Top.node].kind \in StatementKinds, got # 0 \/ Top.role \in BlockRoles,
         NEW M, Reads(M), Continues(M.tree, nodes)
  PROVE  NextOf(M, Len(nodes'), stack'[1]) = M.after[Top.node]
<1>1. /\ stack'[1] = stack[2] /\ IsLast(nodes, stack[2], Top.node) /\ stack[2].role \in BlockRoles
      /\ nodes[Top.node].parent = stack[2].node /\ nodes[Top.node].role = stack[2].role
  BY NPop
<1>2. Top.node \in 1..Len(nodes)
  BY TopOfStack DEF PInv
<1>3. M.after[Top.node] = Rest(M, Len(nodes), stack[2].node, stack[2].role)
  BY <1>1, <1>2, RestAfter
<1>4. QED
  BY <1>1, <1>3 DEF NextOf

\* A block of statements is complete when its call goes on or returns.
LEMMA FBlockEnds ==
  ASSUME PInv, SInv, NInv, phase = "build", nodes' = nodes, Top.role \in BlockRoles \ {"top"},
         NEW M, Reads(M), Completes(M.tree, nodes', stack', got'),
         \/ stack' = Tail(stack)
         \/ \E g \in Frames : /\ stack' = <<g>> \o Tail(stack) /\ g.role = "else" /\ Top.role = "then"
  PROVE  Rest(M, Len(nodes), Top.node, Top.role) =
           IF Top.role = "body" THEN M.first[Top.node] ELSE M.after[Top.node]
<1>1. /\ Top.node \in 1..Len(nodes) /\ Len(stack) >= 2 /\ stack \in Seq(Frames) /\ Top = stack[1]
      /\ Ordered(nodes, stack) /\ Len(nodes) \in Nat
  BY TopOfStack, StackOrdered DEF PInv
<1>2. Tail(stack) \in Seq(Frames) /\ \A k \in 1..Len(Tail(stack)) : Tail(stack)[k].node # Top.node
  <2>1. Tail(stack) \in Seq(Frames) /\ Len(Tail(stack)) = Len(stack) - 1
        /\ \A k \in 1 .. Len(stack) - 1 : Tail(stack)[k] = stack[k + 1]
    BY <1>1
  <2>2. ASSUME NEW k \in 1 .. Len(stack) - 1 PROVE stack[k + 1].node < Top.node
    <3>1. k + 1 \in 1..Len(stack) /\ 1 \in 1 .. (k + 1) - 1
      BY <1>1
    <3> QED
      BY <3>1, <1>1 DEF Ordered
  <2>3. ASSUME NEW k \in 1 .. Len(stack) - 1 PROVE stack[k + 1].node # Top.node
    <3>1. k + 1 \in 1..Len(stack)
      BY <1>1
    <3>2. stack[k + 1].node \in Nat
      BY <3>1, <1>1 DEF Ordered
    <3> QED
      BY <2>2, <3>2, <1>1
  <2> QED
    BY <2>1, <2>3
<1>3. \A k \in 1..Len(stack') : stack'[k].node = Top.node =>
        Top.role \notin {stack'[k].role} \cup Following(stack'[k])
  <2>1. CASE stack' = Tail(stack)
    BY <1>2, <2>1
  <2>2. CASE \E g \in Frames : stack' = <<g>> \o Tail(stack) /\ g.role = "else" /\ Top.role = "then"
    <3>1. PICK g \in Frames : stack' = <<g>> \o Tail(stack) /\ g.role = "else" /\ Top.role = "then"
      BY <2>2
    <3>2. SUFFICES ASSUME NEW k \in 1..Len(stack'), stack'[k].node = Top.node
                   PROVE  Top.role \notin {stack'[k].role} \cup Following(stack'[k])
      OBVIOUS
    <3>3. CASE k = 1
      <4>1. stack'[k] = g
        BY <3>1, <3>3, <1>2
      <4> QED
        BY <4>1, <3>1 DEF Following
    <3>4. CASE k # 1
      <4>1. stack'[k] = Tail(stack)[k - 1] /\ k - 1 \in 1..Len(Tail(stack))
        BY <3>1, <3>4, <1>2, CallOnTop
      <4> QED
        BY <4>1, <3>2, <1>2
    <3> QED
      BY <3>3, <3>4
  <2> QED
    BY <2>1, <2>2
<1>4. \A j \in PartsIn(M.tree, Top.node, Top.role) : j <= Len(nodes)
  <2>1. Top.node <= Len(nodes) /\ Len(nodes') = Len(nodes) /\ Len(nodes') \in Nat
    BY <1>1
  <2>2. \A j \in PartsIn(M.tree, Top.node, Top.role) : j <= Len(nodes')
    BY <2>1, <1>3, NoMoreParts, Zenon
  <2> QED
    BY <2>1, <2>2
<1> DEFINE e == Rest(M, Len(nodes), Top.node, Top.role)
<1>5. /\ Top.role = "body" => e = M.first[Top.node]
      /\ Top.role \notin {"top", "body"} => e = M.after[Top.node]
  <2>1. Len(nodes) \in Nat
    BY <1>1
  <2> QED
    BY <2>1, <1>4, RestNone
<1> HIDE DEF e
<1>6. e = IF Top.role = "body" THEN M.first[Top.node] ELSE M.after[Top.node]
  BY <1>5
<1>7. QED
  BY <1>6 DEF e

\* The branch at the end of a block, if it is needed.
LEMMA FBranchesUnless ==
  ASSUME PInv, NEW t \in 1..Len(blocks), blocks' = BranchUnlessTerminated(blocks, insert, t),
         NEW M, NEW E, NEW z, Wired(M, E, blocks, insert, z), NEW e, NEW W, E[t] = Always(e, W),
         z.slot = 0, z.yes = e, z.no = e, W \subseteq z.known
  PROVE  /\ Wired(M, E, blocks', insert, z)
         /\ \E s \in Blocks : blocks' = blocks \/ blocks' = Emitted(blocks, insert, s)
<1> DEFINE s == <<Instr("br", 0, 0, <<t>>)>>
<1>1. blocks \in Seq(Blocks) /\ insert \in 1..Len(blocks) /\ t \in Nat /\ 0 \in Nat
  BY InsertBlock DEF PInv, Typed
<1>2. s \in Blocks
  <2>1. Instr("br", 0, 0, <<t>>) \in Instructions
    BY <1>1, BranchInstr
  <2> QED
    BY <2>1 DEF Blocks
<1>3. blocks' = blocks \/ blocks' = Emitted(blocks, insert, s)
  BY DEF BranchUnlessTerminated
<1>4. E[t].slot = z.slot /\ E[t].yes = z.yes /\ E[t].no = z.no /\ E[t].known \subseteq z.known
  BY IsAlways
<1>5. Wired(M, E, Emitted(blocks, insert, s), insert, z)
  BY <1>1, <1>4, WiredBranches
<1> HIDE DEF s
<1>6. QED
  BY <1>2, <1>3, <1>5

\* A call of a function body that is not the outermost one.
LEMMA FConditionDone ==
  ASSUME PInv, TInv, SInv, NInv, ConditionDone, NEW M, Reads(M), Completes(M.tree, nodes', stack', got'),
         Flows(M)
  PROVE  Flows(M)'
<1> DEFINE p == Top.node
           f == Top.bbs
           V == Around(Tail(stack), 1)
<1>1. /\ phase = "build" /\ nodes' = nodes /\ Top.role = "cond" /\ got # 0 /\ got' = 0
  BY DEF ConditionDone, Returned
<1>2. PICK E, z : Flow(M, E, z, nodes, blocks, insert, stack, got)
  BY DEF Flows
<1>3. /\ Top \in Frames /\ Tail(stack) \in Seq(Frames)
      /\ FrameNoted(M, E, Top, Around(stack, 1)) /\ FramesNoted(M, E, Tail(stack))
      /\ Around(stack, 1) = Own(Top) \cup V /\ Around(stack, 1) \subseteq z.known
      /\ M.tree[p] = nodes[p] /\ Continues(M.tree, nodes)
      /\ Wired(M, E, blocks, insert, z) /\ E[1] = Always(Rest(M, 0, 0, "top"), {})
      /\ blocks \in Seq(Blocks) /\ insert \in 1..Len(blocks) /\ Len(nodes) \in Nat /\ got \in Nat
      /\ \A j \in 1..Len(f) : f[j] \in 1..Len(blocks)
      /\ Shaped(nodes, Top) /\ nodes[p].kind \in KindsWith("cond")
  BY <1>1, <1>2, FMoving
<1>4. /\ z.slot = got /\ z.yes = M.yes[got] /\ z.no = M.no[got]
      /\ ReadsExpression(M, got, p, "cond", M.tree[p].kind)
  BY <1>1, <1>2, <1>3, FGot
<1>5. Len(f) = 3 /\ Own(Top) = {} /\ Around(stack, 1) = V
  BY <1>1, <1>3 DEF Shaped, Own
<1>6. PICK j \in 1..3, k \in 1..3, r \in {"then", "body"} :
        /\ blocks' = Emitted(blocks, insert, CondBr(f[j], f[k])) /\ insert' = f[j]
        /\ stack' = <<Frame(p, r, f)>> \o Tail(stack)
        /\ E[f[j]] = Always(Rest(M, 0, p, r), V) /\ z.yes = Rest(M, 0, p, r)
        /\ \E e : E[f[k]] = Always(e, V) /\ z.no = e
        /\ f[j] \in Pending(nodes, Top) /\ (r = "then" <=> M.tree[p].kind = "if")
        /\ M.tree[p].kind \in {"if", "while"}
  <2>1. CASE nodes[p].kind = "while"
    <3>1. /\ blocks' = Emitted(blocks, insert, CondBr(f[2], f[3])) /\ insert' = f[2]
          /\ stack' = <<Frame(p, "body", f)>> \o Tail(stack)
      BY <2>1 DEF ConditionDone, Place
    <3>2. E[f[2]] = Always(Rest(M, 0, p, "body"), V) /\ E[f[3]] = Always(M.after[p], V)
      BY <2>1, <1>1, <1>3, <1>5 DEF FrameNoted
    <3>3. z.yes = Rest(M, 0, p, "body") /\ z.no = M.after[p]
      BY <2>1, <1>3, <1>4 DEF ReadsExpression
    <3>4. f[2] \in Pending(nodes, Top)
      BY <2>1, <1>1 DEF Pending
    <3>5. M.tree[p].kind = nodes[p].kind
      BY <1>3
    <3> HIDE DEF V, f, p
    <3> QED
      BY <3>1, <3>2, <3>3, <3>4, <3>5, <2>1
  <2>2. CASE nodes[p].kind = "if"
    <3>1. /\ blocks' = Emitted(blocks, insert, CondBr(f[1], f[2])) /\ insert' = f[1]
          /\ stack' = <<Frame(p, "then", f)>> \o Tail(stack)
      BY <2>2 DEF ConditionDone, Place
    <3>2. E[f[1]] = Always(Rest(M, 0, p, "then"), V) /\ E[f[2]] = Always(Rest(M, 0, p, "else"), V)
      BY <2>2, <1>1, <1>3, <1>5 DEF FrameNoted
    <3>3. z.yes = Rest(M, 0, p, "then") /\ z.no = Rest(M, 0, p, "else")
      BY <2>2, <1>3, <1>4 DEF ReadsExpression
    <3>4. f[1] \in Pending(nodes, Top)
      BY <2>2, <1>1 DEF Pending
    <3>5. M.tree[p].kind = nodes[p].kind
      BY <1>3
    <3> HIDE DEF V, f, p
    <3> QED
      BY <3>1, <3>2, <3>3, <3>4, <3>5, <2>2
  <2> QED
    BY <2>1, <2>2, <1>3 DEF KindsWith
<1> DEFINE g == Frame(p, r, f)
<1>7. g \in Frames /\ g.node = p /\ g.role = r /\ g.bbs = f /\ Own(g) = {} /\ g.role \in BlockRoles
  BY <1>3 DEF Frame, Frames, Roles, BlockRoles, Own
<1>8. stack' = <<g>> \o Tail(stack)
  BY <1>6
<1> HIDE DEF g
<1>9. f[j] \in 1..Len(blocks) /\ f[k] \in 1..Len(blocks) /\ f[j] \in Nat /\ f[k] \in Nat
  BY <1>3, <1>5, SMTT(60)
<1>10. Wired(M, E, blocks', insert, z)
  <2>1. Carries(M, E[f[j]], z, z.yes) /\ Carries(M, E[f[k]], z, z.no)
    BY <1>3, <1>5, <1>6, IsAlways, SMTT(60) DEF Carries
  <2> QED
    BY <2>1, <1>1, <1>3, <1>4, <1>6, <1>9, WiredCondBr
<1>11. Wired(M, E, blocks', insert', E[f[j]])
  <2>1. CondBr(f[j], f[k]) \in Blocks
    BY <1>9, <1>3, Branches
  <2> QED
    BY <2>1, <1>6, <1>10, WiredGoes
<1> DEFINE y == E[f[j]]
<1>12. y = Always(NextOf(M, Len(nodes'), g), y.known) /\ V \subseteq y.known
  <2>1. r \in Following(Top)
    BY <1>1, <1>6 DEF Following
  <2>2. PartsIn(nodes, p, r) = {}
    BY <2>1, <1>1, TopKind
  <2>3. Rest(M, 0, p, r) = Rest(M, Len(nodes), p, r)
    BY <2>2, <1>3, RestStart
  <2>4. NextOf(M, Len(nodes'), g) = Rest(M, 0, p, r)
    BY <2>3, <1>1, <1>7 DEF NextOf
  <2>5. y.known = V
    BY <1>6, IsAlways
  <2> QED
    BY <2>4, <2>5, <1>6
<1>13. FrameNoted(M, E, g, V)
  BY <1>1, <1>3, <1>5, <1>6, <1>7 DEF FrameNoted
<1>14. V = Own(g) \cup V
  BY <1>7
<1> HIDE DEF y
<1>15. Wired(M, E, blocks', insert', y)
  BY <1>11 DEF y
<1>16. QED
  BY <1>1, <1>3, <1>7, <1>8, <1>12, <1>13, <1>14, <1>15, FSwapped

LEMMA FLeftDone ==
  ASSUME PInv, TInv, SInv, NInv, LeftDone, NEW M, Reads(M), Completes(M.tree, nodes', stack', got'),
         Flows(M)
  PROVE  Flows(M)'
<1> DEFINE p == Top.node
           f == Top.bbs
           W == Around(stack, 1)
<1>1. /\ phase = "build" /\ nodes' = nodes /\ Top.role = "lhs" /\ got # 0 /\ got' = 0 /\ insert' = f[1]
      /\ blocks' = Emitted(blocks, insert, ShortTargets(nodes[p].kind, f[1], f[2]))
      /\ stack' = <<Frame(p, "rhs", f)>> \o Tail(stack)
  BY DEF LeftDone, Returned, Place
<1>2. PICK E, z : Flow(M, E, z, nodes, blocks, insert, stack, got)
  BY DEF Flows
<1>3. /\ Top \in Frames /\ Tail(stack) \in Seq(Frames)
      /\ FrameNoted(M, E, Top, W) /\ FramesNoted(M, E, Tail(stack))
      /\ W = Own(Top) \cup Around(Tail(stack), 1) /\ W \subseteq z.known
      /\ M.tree[p] = nodes[p] /\ Continues(M.tree, nodes) /\ p \in 1..Len(nodes)
      /\ Wired(M, E, blocks, insert, z) /\ E[1] = Always(Rest(M, 0, 0, "top"), {})
      /\ blocks \in Seq(Blocks) /\ insert \in 1..Len(blocks) /\ Len(nodes) \in Nat /\ got \in Nat
      /\ \A j \in 1..Len(f) : f[j] \in 1..Len(blocks)
      /\ Shaped(nodes, Top) /\ nodes[p].kind \in KindsWith("lhs")
  BY <1>1, <1>2, FMoving
<1>4. /\ z.slot = got /\ z.yes = M.yes[got] /\ z.no = M.no[got]
      /\ ReadsExpression(M, got, p, "lhs", M.tree[p].kind)
  BY <1>1, <1>2, <1>3, FGot
<1>5. Len(f) = 2 /\ Own(Top) = {p} /\ p \in W /\ p # 0
  BY <1>1, <1>3 DEF Shaped, Own
<1>6. f[1] \in 1..Len(blocks) /\ f[2] \in 1..Len(blocks) /\ f[1] \in Nat /\ f[2] \in Nat
      /\ f[1] \in Pending(nodes, Top)
  <2>1. f[1] \in Pending(nodes, Top)
    BY <1>1 DEF Pending
  <2> QED
    BY <2>1, <1>3, <1>5
<1>7. /\ E[f[1]] = Always(FirstPart(M, p, "rhs"), W)
      /\ E[f[2]] = Note(p, M.yes[p], M.no[p], W \ {p})
  BY <1>1, <1>3 DEF FrameNoted
<1>8. /\ E[f[1]].slot = 0 /\ E[f[1]].yes = FirstPart(M, p, "rhs") /\ E[f[1]].known = W
      /\ E[f[2]].slot = p /\ E[f[2]].yes = M.yes[p] /\ E[f[2]].no = M.no[p] /\ E[f[2]].known = W \ {p}
  BY <1>7, IsAlways, IsNote
<1>9. nodes[p].kind \in {"and", "or"}
  BY <1>3 DEF KindsWith
<1>10. /\ Wired(M, E, blocks', insert, z) /\ \E s \in Blocks : blocks' = Emitted(blocks, insert, s)
  <2>1. CASE nodes[p].kind = "and"
    <3>1. z.yes = FirstPart(M, p, "rhs") /\ z.no = M.no[p]
      BY <2>1, <1>3, <1>4 DEF ReadsExpression
    <3>2. Carries(M, E[f[1]], z, z.yes) /\ Carries(M, E[f[2]], z, z.no)
      BY <3>1, <2>1, <1>3, <1>5, <1>8 DEF Carries
    <3>3. blocks' = Emitted(blocks, insert, CondBr(f[1], f[2])) /\ CondBr(f[1], f[2]) \in Blocks
      BY <2>1, <1>1, <1>3, <1>6, Branches DEF ShortTargets
    <3> QED
      BY <3>2, <3>3, <1>1, <1>3, <1>4, <1>6, WiredCondBr
  <2>2. CASE nodes[p].kind = "or"
    <3>1. z.yes = M.yes[p] /\ z.no = FirstPart(M, p, "rhs")
      BY <2>2, <1>3, <1>4 DEF ReadsExpression
    <3>2. Carries(M, E[f[1]], z, z.no) /\ Carries(M, E[f[2]], z, z.yes)
      BY <3>1, <2>2, <1>3, <1>5, <1>8 DEF Carries
    <3>3. blocks' = Emitted(blocks, insert, CondBr(f[2], f[1])) /\ CondBr(f[2], f[1]) \in Blocks
      BY <2>2, <1>1, <1>3, <1>6, Branches DEF ShortTargets
    <3> QED
      BY <3>2, <3>3, <1>1, <1>3, <1>4, <1>6, WiredCondBr
  <2> QED
    BY <2>1, <2>2, <1>9
<1> DEFINE y == E[f[1]]
<1>11. Wired(M, E, blocks', insert', y)
  BY <1>1, <1>6, <1>10, WiredGoes
<1> DEFINE g == Frame(p, "rhs", f)
<1>12. g \in Frames /\ g.node = p /\ g.role = "rhs" /\ g.bbs = f /\ Own(g) = {p} /\ g.role \notin BlockRoles
  BY <1>3 DEF Frame, Frames, Roles, BlockRoles, Own
<1>13. stack' = <<g>> \o Tail(stack)
  BY <1>1
<1> HIDE DEF g
<1>14. FirstPart(M, p, "rhs") = M.first[Len(nodes') + 1]
  <2>1. "rhs" \in Following(Top)
    BY <1>1 DEF Following
  <2>2. PartsIn(nodes, p, "rhs") = {}
    BY <2>1, <1>1, TopKind
  <2>3. stack'[1] = g
    BY <1>13, <1>3
  <2>4. Wanting(stack', got')
    BY <2>3, <1>1, <1>12 DEF Wanting
  <2>5. Len(nodes') + 1 \in PartsIn(M.tree, stack'[1].node, stack'[1].role)
    BY <2>4 DEF Completes
  <2>6. Len(nodes) + 1 \in PartsIn(M.tree, p, "rhs")
    BY <2>3, <2>5, <1>1, <1>12
  <2> QED
    BY <2>2, <2>6, <1>1, <1>3, FirstPartHere
<1>15. y = Always(NextOf(M, Len(nodes'), g), y.known) /\ W \subseteq y.known
  BY <1>7, <1>8, <1>12, <1>14 DEF NextOf
<1>16. FrameNoted(M, E, g, W)
  BY <1>7, <1>12 DEF FrameNoted
<1>17. W = Own(g) \cup Around(Tail(stack), 1)
  BY <1>3, <1>5, <1>12
<1> HIDE DEF y, W
<1>18. QED
  BY <1>1, <1>3, <1>11, <1>12, <1>13, <1>15, <1>16, <1>17, FSwapped

LEMMA FRightDone ==
  ASSUME PInv, TInv, SInv, NInv, RightDone, NEW M, Reads(M), Completes(M.tree, nodes', stack', got'),
         Flows(M)
  PROVE  Flows(M)'
<1> DEFINE p == Top.node
           b == Top.bbs[2]
           W == Around(stack, 1)
           x == Instr("copy", p, got, << >>)
           u == Instr("br", 0, 0, <<b>>)
           C == Emitted(blocks, insert, <<x>>)
<1>1. /\ phase = "build" /\ nodes' = nodes /\ Top.role = "rhs" /\ got # 0 /\ got' = p /\ insert' = b
      /\ blocks' = Emitted(blocks, insert, <<x, u>>) /\ stack' = Tail(stack)
  BY DEF RightDone, Returned, Place
<1>2. PICK E, z : Flow(M, E, z, nodes, blocks, insert, stack, got)
  BY DEF Flows
<1>3. /\ Top \in Frames /\ Tail(stack) \in Seq(Frames)
      /\ FrameNoted(M, E, Top, W) /\ FramesNoted(M, E, Tail(stack))
      /\ W = Own(Top) \cup Around(Tail(stack), 1) /\ W \subseteq z.known
      /\ p \notin Around(Tail(stack), 1) /\ Continues(M.tree, nodes) /\ p \in 1..Len(nodes)
      /\ Wired(M, E, blocks, insert, z) /\ E[1] = Always(Rest(M, 0, 0, "top"), {})
      /\ blocks \in Seq(Blocks) /\ insert \in 1..Len(blocks) /\ got \in Nat
      /\ \A j \in 1..Len(Top.bbs) : Top.bbs[j] \in 1..Len(blocks)
      /\ Shaped(nodes, Top) /\ Len(nodes) \in Nat
  BY <1>1, <1>2, FMoving
<1>4. /\ z.slot = got /\ z.yes = M.yes[got] /\ z.no = M.no[got]
      /\ ReadsExpression(M, got, p, "rhs", M.tree[p].kind)
  BY <1>1, <1>2, <1>3, FGot
<1>5. z.yes = M.yes[p] /\ z.no = M.no[p]
  BY <1>4 DEF ReadsExpression
<1>6. p # 0 /\ p \in Nat /\ b \in 1..Len(blocks) /\ b \in Nat /\ b \in Pending(nodes, Top)
      /\ Around(Tail(stack), 1) \subseteq W \ {p}
  <2>1. b \in Pending(nodes, Top) /\ 2 \in 1..Len(Top.bbs)
    BY <1>1, <1>3 DEF Pending, Shaped
  <2>2. p # 0 /\ p \in Nat
    BY <1>3
  <2> QED
    BY <2>1, <2>2, <1>3
<1>7. E[b] = Note(p, M.yes[p], M.no[p], W \ {p})
  BY <1>1, <1>3 DEF FrameNoted
<1> DEFINE v == Note(p, z.yes, z.no, z.known \ {p})
<1>8. v.slot = p /\ v.yes = z.yes /\ v.no = z.no /\ v.known = z.known \ {p}
  BY IsNote
<1>9. x \in Instructions /\ x.op = "copy" /\ x.node = p /\ x.slot = got /\ <<x>> \in Blocks
  <2>1. "copy" \in Ops
    BY DEF Ops
  <2>2. x \in Instructions /\ x.op = "copy" /\ x.node = p /\ x.slot = got
    BY <2>1, <1>3, <1>6, OneInstr DEF Instr
  <2> HIDE DEF x
  <2> QED
    BY <2>2 DEF Blocks
<1>10. u \in Instructions
  BY <1>6, BranchInstr
<1>11. v = Note(p, z.yes, z.no, z.known \ {p})
  OBVIOUS
<1> HIDE DEF v, x
<1>12. Rule(M, E, Len(blocks), x, z, v)
  BY <1>1, <1>4, <1>6, <1>9, <1>11 DEF Rule, RuleLeaf, RuleSlot, RuleBranch
<1>13. Wired(M, E, C, insert, v) /\ C \in Seq(Blocks) /\ Len(C) = Len(blocks)
  <2>1. Wired(M, E, C, insert, v)
    BY <1>3, <1>9, <1>12, WiredEmits
  <2> QED
    BY <2>1, <1>3, <1>9, EmittedBlocks
<1>14. blocks' = Emitted(C, insert, <<u>>) /\ <<x, u>> \in Blocks
  <2> HIDE DEF u
  <2>1. <<x>> \in Blocks /\ <<u>> \in Blocks /\ blocks[insert] \in Blocks /\ <<x, u>> \in Blocks
    BY <1>3, <1>9, <1>10 DEF Blocks
  <2>2. (blocks[insert] \o <<x>>) \o <<u>> = blocks[insert] \o <<x, u>>
    BY <2>1, <1>9, <1>10, TwoMore
  <2>3. insert \in DOMAIN blocks
    BY <1>3
  <2> QED
    BY <2>1, <2>2, <2>3, <1>1 DEF Emitted
<1>15. Wired(M, E, blocks', insert, v)
  <2>1. E[b].slot = v.slot /\ E[b].yes = v.yes /\ E[b].no = v.no /\ E[b].known \subseteq v.known
    BY <1>3, <1>5, <1>7, <1>8, IsNote
  <2>2. insert \in 1..Len(C) /\ b \in 1..Len(C)
    BY <1>3, <1>6, <1>13
  <2> HIDE DEF C, b
  <2> QED
    BY <2>1, <2>2, <1>13, <1>14, WiredBranches
<1> HIDE DEF u
<1>16. Wired(M, E, blocks', insert', E[b])
  BY <1>1, <1>6, <1>14, <1>15, WiredGoes
<1>17. E[b].known = W \ {p}
  BY <1>7, IsNote
<1>18. E[b] = Note(got', M.yes[got'], M.no[got'], E[b].known) /\ got' # 0
       /\ Around(Tail(stack), 1) \subseteq E[b].known
  BY <1>1, <1>6, <1>7, <1>17
<1> DEFINE y == E[b]
<1> HIDE DEF y
<1>19. /\ y = Note(got', M.yes[got'], M.no[got'], y.known) /\ Around(Tail(stack), 1) \subseteq y.known
       /\ Wired(M, E, blocks', insert', y)
  BY <1>16, <1>18 DEF y
<1>20. QED
  BY <1>1, <1>3, <1>18, <1>19, FPopped

LEMMA FNotDone ==
  ASSUME PInv, TInv, SInv, NInv, NotDone, NEW M, Reads(M), Completes(M.tree, nodes', stack', got'),
         Flows(M)
  PROVE  Flows(M)'
<1> DEFINE p == Top.node
           W == Around(stack, 1)
           x == Instr("not", p, got, << >>)
<1>1. /\ phase = "build" /\ nodes' = nodes /\ Top.role = "operand" /\ got # 0 /\ got' = p /\ insert' = insert
      /\ blocks' = Allocated(blocks, insert, p, x) /\ stack' = Tail(stack)
  BY DEF NotDone, Returned
<1>2. PICK E, z : Flow(M, E, z, nodes, blocks, insert, stack, got)
  BY DEF Flows
<1>3. /\ Top \in Frames /\ Tail(stack) \in Seq(Frames) /\ FramesNoted(M, E, Tail(stack))
      /\ W = Own(Top) \cup Around(Tail(stack), 1) /\ W \subseteq z.known
      /\ p \notin Around(Tail(stack), 1) /\ Continues(M.tree, nodes) /\ p \in 1..Len(nodes)
      /\ Wired(M, E, blocks, insert, z) /\ E[1] = Always(Rest(M, 0, 0, "top"), {})
      /\ blocks \in Seq(Blocks) /\ insert \in 1..Len(blocks) /\ got \in Nat /\ Len(nodes) \in Nat
  BY <1>1, <1>2, FMoving
<1>4. /\ z.slot = got /\ z.yes = M.yes[got] /\ z.no = M.no[got]
      /\ ReadsExpression(M, got, p, "operand", M.tree[p].kind)
  BY <1>1, <1>2, <1>3, FGot
<1>5. z.yes = M.no[p] /\ z.no = M.yes[p] /\ p # 0 /\ p \in Nat
  BY <1>3, <1>4 DEF ReadsExpression
<1>6. x \in Instructions /\ x.op = "not" /\ x.node = p /\ x.slot = got
  <2>1. "not" \in Ops
    BY DEF Ops
  <2> QED
    BY <2>1, <1>3, <1>5, OneInstr DEF Instr
<1> DEFINE y == Note(p, z.no, z.yes, z.known \ {p})
<1>7. y.known = z.known \ {p} /\ y = Note(p, M.yes[p], M.no[p], y.known)
  BY <1>5, IsNote
<1>8. y = Note(p, z.no, z.yes, z.known \ {p})
  OBVIOUS
<1> HIDE DEF y, x
<1>9. Rule(M, E, Len(blocks), x, z, y)
  BY <1>1, <1>4, <1>5, <1>6, <1>8 DEF Rule, RuleLeaf, RuleSlot, RuleBranch
<1>10. Wired(M, E, blocks', insert', y)
  <2>1. E[1].slot = 0 /\ E[1].known = {}
    BY <1>3, IsAlways
  <2> QED
    BY <2>1, <1>1, <1>3, <1>5, <1>6, <1>9, WiredAllocated
<1>11. Around(Tail(stack), 1) \subseteq y.known /\ got' # 0
  BY <1>1, <1>3, <1>5, <1>7
<1>12. QED
  BY <1>1, <1>3, <1>7, <1>10, <1>11, FPopped

LEMMA FValueDone ==
  ASSUME PInv, TInv, SInv, NInv, ValueDone, NEW M, Reads(M), Completes(M.tree, nodes', stack', got'),
         Flows(M)
  PROVE  Flows(M)'
<1> DEFINE p == Top.node
           W == Around(stack, 1)
           op == IF nodes[p].kind = "set" THEN "set" ELSE "ret"
           x == Instr(op, p, got, << >>)
<1>1. /\ phase = "build" /\ nodes' = nodes /\ Top.role = "value" /\ got # 0 /\ got' = 0 /\ insert' = insert
      /\ blocks' = Emitted(blocks, insert, <<x>>) /\ stack' = Tail(stack) /\ event' = event
  BY DEF ValueDone, Returned, run
<1>2. PICK E, z : Flow(M, E, z, nodes, blocks, insert, stack, got)
  BY DEF Flows
<1>3. /\ Top \in Frames /\ Tail(stack) \in Seq(Frames) /\ FramesNoted(M, E, Tail(stack))
      /\ W = Own(Top) \cup Around(Tail(stack), 1) /\ W \subseteq z.known
      /\ Continues(M.tree, nodes) /\ p \in 1..Len(nodes) /\ M.tree[p] = nodes[p]
      /\ Wired(M, E, blocks, insert, z) /\ E[1] = Always(Rest(M, 0, 0, "top"), {})
      /\ blocks \in Seq(Blocks) /\ insert \in 1..Len(blocks) /\ got \in Nat /\ Len(nodes) \in Nat
      /\ nodes[p].kind \in KindsWith("value")
  BY <1>1, <1>2, FMoving
<1>4. /\ z.slot = got /\ z.yes = M.yes[got] /\ z.no = M.no[got]
      /\ ReadsExpression(M, got, p, "value", M.tree[p].kind)
  BY <1>1, <1>2, <1>3, FGot
<1>5. z.yes = Source!Event(p, TRUE) /\ z.no = Source!Event(p, FALSE) /\ p # 0 /\ p \in Nat
      /\ p \in 1..Len(M.tree) /\ nodes[p].kind \in StatementKinds
  <2>1. nodes \in Seq(Nodes) /\ M.tree \in Seq(Nodes)
    BY <1>3 DEF PInv, Typed, Continues
  <2>2. p \in 1..Len(M.tree)
    BY <2>1, <1>3 DEF Continues
  <2>3. nodes[p].kind \in StatementKinds
    BY <1>3 DEF KindsWith, StatementKinds
  <2>4. M.yes[got] = Source!Event(p, TRUE) /\ M.no[got] = Source!Event(p, FALSE)
    BY <1>4 DEF ReadsExpression
  <2>5. p # 0 /\ p \in Nat
    BY <1>3
  <2> QED
    BY <2>2, <2>3, <2>4, <2>5, <1>4
<1>6. op \in {"set", "ret"} /\ (op = "set" => M.tree[p].kind = "set")
  BY <1>3
<1>7. x \in Instructions /\ x.op = op /\ x.node = p /\ x.slot = got /\ x.to = << >>
  <2>1. op \in Ops
    BY <1>6 DEF Ops, Terminators
  <2> HIDE DEF op
  <2> QED
    BY <2>1, <1>3, <1>5, OneInstr DEF Instr
<1> DEFINE y == Always(M.after[p], z.known)
<1>8. y.known = z.known /\ y = Always(M.after[p], y.known)
  BY IsAlways
<1>9. y = Always(M.after[p], z.known)
  OBVIOUS
<1> HIDE DEF y, x, op
<1>10. Rule(M, E, Len(blocks), x, z, y)
  <2>1. CASE op = "set"
    BY <2>1, <1>1, <1>4, <1>5, <1>6, <1>7, <1>9 DEF Rule, RuleLeaf, RuleSlot, RuleBranch
  <2>2. CASE op = "ret"
    BY <2>2, <1>1, <1>4, <1>5, <1>7 DEF Rule, RuleLeaf, RuleSlot, RuleBranch
  <2> QED
    BY <2>1, <2>2, <1>6
<1>11. Wired(M, E, blocks', insert', y)
  BY <1>1, <1>3, <1>7, <1>10, WiredEmits
<1>12. Around(Tail(stack), 1) \subseteq y.known
  BY <1>3, <1>8
<1>13. NextOf(M, Len(nodes'), stack'[1]) = M.after[p]
  BY <1>1, <1>3, <1>5, FReturned
<1>14. QED
  BY <1>1, <1>3, <1>8, <1>11, <1>12, <1>13, FPopped

LEMMA FThenEnds ==
  ASSUME PInv, TInv, SInv, NInv, ThenEnds, NEW M, Reads(M), Completes(M.tree, nodes', stack', got'),
         Flows(M)
  PROVE  Flows(M)'
<1> DEFINE p == Top.node
           f == Top.bbs
           V == Around(Tail(stack), 1)
<1>1. /\ phase = "build" /\ nodes' = nodes /\ Top.role = "then" /\ got = 0 /\ got' = 0 /\ event' = event
      /\ blocks' = BranchUnlessTerminated(blocks, insert, f[3]) /\ insert' = f[2]
      /\ stack' = IF HasElse(Top) THEN <<Frame(p, "else", f)>> \o Tail(stack) ELSE Tail(stack)
      /\ Top.role \in BlockRoles \ {"top"}
  BY DEF ThenEnds, BodyEnds, Place, run, BlockRoles
<1>2. PICK E, z : Flow(M, E, z, nodes, blocks, insert, stack, got)
  BY DEF Flows
<1>3. /\ Top \in Frames /\ Tail(stack) \in Seq(Frames)
      /\ FrameNoted(M, E, Top, Around(stack, 1)) /\ FramesNoted(M, E, Tail(stack))
      /\ Around(stack, 1) = Own(Top) \cup V /\ Around(stack, 1) \subseteq z.known
      /\ M.tree[p] = nodes[p] /\ Continues(M.tree, nodes)
      /\ Wired(M, E, blocks, insert, z) /\ E[1] = Always(Rest(M, 0, 0, "top"), {})
      /\ Len(nodes) \in Nat /\ \A j \in 1..Len(f) : f[j] \in 1..Len(blocks)
      /\ Shaped(nodes, Top) /\ nodes[p].kind \in KindsWith("then")
  BY <1>1, <1>2, FMoving
<1>4. Own(Top) = {} /\ Around(stack, 1) = V /\ Len(f) = 3 /\ nodes[p].kind = "if"
  BY <1>1, <1>3 DEF Own, Shaped, KindsWith
<1>5. /\ E[f[2]] = Always(Rest(M, 0, p, "else"), V) /\ E[f[3]] = Always(M.after[p], V)
  BY <1>1, <1>3, <1>4 DEF FrameNoted
<1> DEFINE g == Frame(p, "else", f)
<1>6. g \in Frames /\ g.node = p /\ g.role = "else" /\ g.bbs = f /\ Own(g) = {} /\ g.role \in BlockRoles
  BY <1>3 DEF Frame, Frames, Roles, BlockRoles, Own
<1>7. stack' = IF HasElse(Top) THEN <<g>> \o Tail(stack) ELSE Tail(stack)
  BY <1>1
<1> HIDE DEF g
<1>8. z.slot = 0 /\ z.yes = M.after[p] /\ z.no = M.after[p]
  <2>1. Rest(M, Len(nodes), p, "then") = M.after[p]
    BY <1>1, <1>6, <1>7, FBlockEnds
  <2> QED
    BY <2>1, <1>1, <1>2, <1>3, FNext
<1>9. f[2] \in Pending(nodes, Top) /\ f[3] \in 1..Len(blocks)
  BY <1>1, <1>3, <1>4 DEF Pending
<1>10. /\ Wired(M, E, blocks', insert, z)
       /\ \E s \in Blocks : blocks' = blocks \/ blocks' = Emitted(blocks, insert, s)
  <2> DEFINE t == f[3]
             d == M.after[p]
             A == V
  <2>1. /\ A \subseteq z.known /\ t \in 1..Len(blocks) /\ E[t] = Always(d, A)
        /\ blocks' = BranchUnlessTerminated(blocks, insert, t) /\ Wired(M, E, blocks, insert, z)
        /\ z.slot = 0 /\ z.yes = d /\ z.no = d
    BY <1>1, <1>3, <1>4, <1>5, <1>8, <1>9
  <2> HIDE DEF A, t, d
  <2> QED
    BY <2>1, FBranchesUnless
<1> DEFINE y == E[f[2]]
<1>11. Wired(M, E, blocks', insert', y)
  BY <1>1, <1>9, <1>10, WiredGoes
<1>12. y.known = V
  BY <1>5, IsAlways
<1>13. CASE HasElse(Top)
  <2>1. stack' = <<g>> \o Tail(stack) /\ V = Own(g) \cup V
    BY <1>6, <1>7, <1>13
  <2>2. FrameNoted(M, E, g, V)
    BY <1>1, <1>3, <1>4, <1>6 DEF FrameNoted
  <2>3. "else" \in Following(Top)
    BY <1>1, <1>13 DEF Following
  <2>4. PartsIn(nodes, p, "else") = {}
    BY <2>3, <1>1, TopKind
  <2>5. NextOf(M, Len(nodes'), g) = Rest(M, 0, p, "else")
    BY <2>4, <1>1, <1>3, <1>6, RestStart DEF NextOf
  <2>6. y = Always(NextOf(M, Len(nodes'), g), y.known) /\ V \subseteq y.known
    BY <2>5, <1>5, <1>12
  <2> HIDE DEF y, V
  <2> QED
    BY <2>1, <2>2, <2>6, <1>1, <1>3, <1>6, <1>11, FSwapped DEF V
<1>14. CASE ~HasElse(Top)
  <2>1. stack' = Tail(stack) /\ f[2] = f[3]
    BY <1>7, <1>14 DEF HasElse
  <2>2. nodes[p].kind \in StatementKinds
    BY <1>4 DEF StatementKinds
  <2>3. NextOf(M, Len(nodes'), stack'[1]) = M.after[p]
    BY <2>1, <2>2, <1>1, <1>3, FReturned
  <2>4. y = Always(NextOf(M, Len(nodes'), stack'[1]), y.known) /\ V \subseteq y.known
    BY <2>1, <2>3, <1>5, <1>12
  <2> HIDE DEF y
  <2> QED
    BY <2>1, <2>4, <1>1, <1>3, <1>11, FPopped
<1>15. QED
  BY <1>13, <1>14

LEMMA FLastEnds ==
  ASSUME PInv, TInv, SInv, NInv, ElseEnds \/ WhileEnds, NEW M, Reads(M),
         Completes(M.tree, nodes', stack', got'), Flows(M)
  PROVE  Flows(M)'
<1> DEFINE p == Top.node
           f == Top.bbs
           V == Around(Tail(stack), 1)
           l == IF Top.role = "body" THEN 1 ELSE 3
           e == IF Top.role = "body" THEN M.first[p] ELSE M.after[p]
<1>1. /\ phase = "build" /\ nodes' = nodes /\ Top.role \in {"else", "body"} /\ got = 0 /\ got' = 0
      /\ event' = event /\ blocks' = BranchUnlessTerminated(blocks, insert, f[l]) /\ insert' = f[3]
      /\ stack' = Tail(stack) /\ Top.role \in BlockRoles \ {"top"}
  BY DEF ElseEnds, WhileEnds, BodyEnds, Place, run, BlockRoles
<1>2. PICK E, z : Flow(M, E, z, nodes, blocks, insert, stack, got)
  BY DEF Flows
<1>3. /\ Top \in Frames /\ Tail(stack) \in Seq(Frames)
      /\ FrameNoted(M, E, Top, Around(stack, 1)) /\ FramesNoted(M, E, Tail(stack))
      /\ Around(stack, 1) = Own(Top) \cup V /\ Around(stack, 1) \subseteq z.known
      /\ M.tree[p] = nodes[p] /\ Continues(M.tree, nodes)
      /\ Wired(M, E, blocks, insert, z) /\ E[1] = Always(Rest(M, 0, 0, "top"), {})
      /\ Len(nodes) \in Nat /\ \A j \in 1..Len(f) : f[j] \in 1..Len(blocks)
      /\ Shaped(nodes, Top) /\ nodes[p].kind \in KindsWith(Top.role)
  BY <1>1, <1>2, FMoving
<1>4. Own(Top) = {} /\ Around(stack, 1) = V /\ Len(f) = 3 /\ nodes[p].kind \in StatementKinds
  BY <1>1, <1>3 DEF Own, Shaped, KindsWith, StatementKinds
<1>5. E[f[l]] = Always(e, V) /\ E[f[3]] = Always(M.after[p], V)
  <2>1. CASE Top.role = "else"
    <3>1. M.tree[p].kind = "if"
      BY <2>1, <1>3 DEF KindsWith
    <3> QED
      BY <2>1, <3>1, <1>3, <1>4 DEF FrameNoted
  <2>2. CASE Top.role = "body"
    <3>1. M.tree[p].kind = "while"
      BY <2>2, <1>3 DEF KindsWith
    <3> QED
      BY <2>2, <3>1, <1>3, <1>4 DEF FrameNoted
  <2> QED
    BY <2>1, <2>2, <1>1
<1>6. z.slot = 0 /\ z.yes = e /\ z.no = e
  <2>1. Rest(M, Len(nodes), p, Top.role) = e
    BY <1>1, FBlockEnds
  <2> QED
    BY <2>1, <1>1, <1>2, <1>3, FNext
<1>7. f[3] \in Pending(nodes, Top) /\ f[l] \in 1..Len(blocks)
  BY <1>1, <1>3, <1>4, SMTT(30) DEF Pending
<1>8. /\ Wired(M, E, blocks', insert, z)
      /\ \E s \in Blocks : blocks' = blocks \/ blocks' = Emitted(blocks, insert, s)
  <2> DEFINE t == f[l]
             d == e
             A == V
  <2>1. /\ A \subseteq z.known /\ t \in 1..Len(blocks) /\ E[t] = Always(d, A)
        /\ blocks' = BranchUnlessTerminated(blocks, insert, t) /\ Wired(M, E, blocks, insert, z)
        /\ z.slot = 0 /\ z.yes = d /\ z.no = d
    BY <1>1, <1>3, <1>4, <1>5, <1>6, <1>7
  <2> HIDE DEF A, t, d
  <2> QED
    BY <2>1, FBranchesUnless
<1> DEFINE y == E[f[3]]
<1>9. Wired(M, E, blocks', insert', y)
  BY <1>1, <1>7, <1>8, WiredGoes
<1>10. y.known = V
  BY <1>5, IsAlways
<1>11. NextOf(M, Len(nodes'), stack'[1]) = M.after[p]
  BY <1>1, <1>3, <1>4, FReturned
<1>12. y = Always(NextOf(M, Len(nodes'), stack'[1]), y.known) /\ V \subseteq y.known
  BY <1>5, <1>10, <1>11
<1> HIDE DEF y
<1>13. QED
  BY <1>1, <1>3, <1>9, <1>12, FPopped

-----------------------------------------------------------------------------
(* The machine: what is promised where it stands has come true.            *)

\* Which of the two a note promises, as its slot is.
Promised(z) == IF z.slot = 0 \/ TRUE \in mem[z.slot] THEN z.yes ELSE z.no
\* What comes after the leaf executed last, in the meaning M.
Comes(M) ==
  CASE event = Source!Start -> Rest(M, 0, 0, "top")
    [] event # Source!Start /\ event.node # 0 /\ M.tree[event.node].kind = "atom" ->
         IF event.value THEN M.yes[event.node] ELSE M.no[event.node]
    [] event # Source!Start /\ ~(event.node # 0 /\ M.tree[event.node].kind = "atom") ->
         M.after[event.node]
\* Initial values of short circuits: TRUE of ||, FALSE of &&.
Holding(M, z) == \A s \in z.known : s \in DOMAIN mem /\ mem[s] = {M.tree[s].kind = "or"}
Underway(t) == \/ event = Source!Start
               \/ /\ event.node \in 1..Len(t) /\ t[event.node].kind \in {"call", "atom", "set"}
                  /\ event.value \in BOOLEAN
Tells(M, z) == /\ z.slot # 0 => z.slot \in DOMAIN mem
               /\ Promised(z) = Comes(M) /\ Holding(M, z) /\ Underway(M.tree)
AllLead(M, E) == \A b \in 1..Len(blocks) : \E y : Leads(M, E, Len(blocks), blocks[b], E[b], y)
RunsOn(M, E, a) == AllLead(M, E) /\ Along(M, E, Len(blocks), blocks[at[1]], a) /\ Tells(M, a[at[2]])
Runs(M) == \E E, a : RunsOn(M, E, a)
\* While the function is built, notes agree with the blocks; when it runs, with the leaf run last.
FlowInv == /\ phase = "build" => \A M : Builds(M)
           /\ phase = "run" => \A M : Reads(M) /\ M.tree = nodes => Runs(M)
-----------------------------------------------------------------------------
\* The steps that generate code.
Building == \/ CallStatement \/ ReturnVoid \/ Operand
            \/ ValueStatement \/ Conditional \/ While \/ ShortCircuit \/ BooleanNot
            \/ ConditionDone \/ LeftDone \/ RightDone \/ NotDone \/ ValueDone
            \/ ThenEnds \/ ElseEnds \/ WhileEnds

\* Every step of the builder keeps the notes (one lemma per action, above).
LEMMA FBuilding ==
  ASSUME PInv, TInv, SInv, NInv, Building, NEW M, Builds(M) PROVE Builds(M)'
<1>1. SUFFICES ASSUME Reads(M), Completes(M.tree, nodes', stack', got') PROVE Flows(M)'
  BY DEF Builds
<1>2. Flows(M)
  <2>1. Completes(M.tree, nodes, stack, got)
    BY <1>1, BeforeStep DEF Building
  <2> QED
    BY <1>1, <2>1 DEF Builds
<1>3. CASE CallStatement \/ ReturnVoid
  BY <1>1, <1>2, <1>3, FCallStatement
<1>4. CASE Operand
  BY <1>1, <1>2, <1>4, FOperand
<1>5. CASE ValueStatement \/ BooleanNot
  BY <1>1, <1>2, <1>5, FPushPlain
<1>6. CASE Conditional
  BY <1>1, <1>2, <1>6, FConditional
<1>7. CASE While
  BY <1>1, <1>2, <1>7, FWhile
<1>8. CASE ShortCircuit
  BY <1>1, <1>2, <1>8, FShortCircuit
<1>9. CASE ConditionDone
  BY <1>1, <1>2, <1>9, FConditionDone
<1>10. CASE LeftDone
  BY <1>1, <1>2, <1>10, FLeftDone
<1>11. CASE RightDone
  BY <1>1, <1>2, <1>11, FRightDone
<1>12. CASE NotDone
  BY <1>1, <1>2, <1>12, FNotDone
<1>13. CASE ValueDone
  BY <1>1, <1>2, <1>13, FValueDone
<1>14. CASE ThenEnds
  BY <1>1, <1>2, <1>14, FThenEnds
<1>15. CASE ElseEnds \/ WhileEnds
  BY <1>1, <1>2, <1>15, FLastEnds
<1>16. QED
  BY <1>3, <1>4, <1>5, <1>6, <1>7, <1>8, <1>9, <1>10, <1>11, <1>12, <1>13, <1>14, <1>15 DEF Building

LEMMA FInit ==
  ASSUME Init PROVE FlowInv
<1>1. /\ phase = "build" /\ nodes = << >> /\ blocks = << << >> >> /\ insert = 1
      /\ stack = <<Frame(0, "top", << >>)>> /\ got = 0
  BY DEF Init
<1>2. SUFFICES ASSUME NEW M PROVE Flows(M)
  BY <1>1 DEF FlowInv, Builds
<1> DEFINE e == Always(Rest(M, 0, 0, "top"), {})
           E == [b \in {1} |-> e]
           a == [i \in {1} |-> e]
           f == Frame(0, "top", << >>)
<1>3. Len(blocks) = 1 /\ blocks[1] = << >> /\ Len(blocks[1]) = 0 /\ E[1] = e
  BY <1>1
<1>4. f.role = "top" /\ f.node = 0 /\ Len(stack) = 1 /\ stack[1] = f /\ Len(nodes) = 0
  BY <1>1 DEF Frame
<1>5. Own(f) = {}
  BY <1>4 DEF Own
<1>6. Around(stack, 1) = {} /\ FramesNoted(M, E, stack)
  <2>1. Around(stack, 1) = {}
    BY <1>4, <1>5 DEF Around
  <2>2. FrameNoted(M, E, f, {})
    BY <1>4 DEF FrameNoted
  <2>3. \A k \in 1..Len(stack) : k = 1
    BY <1>4
  <2> HIDE DEF E, f
  <2>4. FramesNoted(M, E, stack)
    BY <2>1, <2>2, <2>3, <1>4 DEF FramesNoted
  <2> QED
    BY <2>1, <2>4
<1>7. Leads(M, E, 1, blocks[1], E[1], e)
  <2>1. Along(M, E, 1, blocks[1], a)
    BY <1>3 DEF Along
  <2>2. a[1] = e /\ Len(blocks[1]) + 1 = 1
    BY <1>3
  <2> HIDE DEF a, e, E
  <2> QED
    BY <2>1, <2>2, <1>3 DEF Leads
<1>8. Wired(M, E, blocks, insert, e)
  <2>1. \A b \in 1..Len(blocks) : b = 1
    BY <1>3
  <2> HIDE DEF E, e
  <2> QED
    BY <2>1, <1>3, <1>7 DEF Wired
<1>9. e = Always(Rest(M, 0, 0, "top"), {})
  OBVIOUS
<1> HIDE DEF E, e, f
<1>10. Stands(M, e, Len(nodes), stack, got)
  <2>1. e.known = {}
    BY <1>9, IsAlways
  <2>2. NextOf(M, 0, f) = Rest(M, 0, 0, "top")
    BY <1>4 DEF NextOf, BlockRoles
  <2> QED
    BY <2>1, <2>2, <1>1, <1>4, <1>6, <1>9 DEF Stands
<1>11. Flow(M, E, e, nodes, blocks, insert, stack, got)
  BY <1>3, <1>6, <1>8, <1>9, <1>10 DEF Flow
<1>12. QED
  BY <1>11 DEF Flows

\* When the function is complete, the machine starts at a note that tells what comes.
LEMMA FFunctionEnds ==
  ASSUME PInv, SInv, NInv, FunctionEnds, NEW M, Reads(M), M.tree = nodes, Builds(M) PROVE Runs(M)'
<1>1. /\ phase = "build" /\ got = 0 /\ Top.role = "top"
      /\ UNCHANGED <<nodes, insert, stack, got, at, mem, event>>
      /\ blocks' = IF Terminated(blocks, insert) THEN blocks
                   ELSE Emitted(blocks, insert, <<Instr("ret", 0, 0, << >>)>>)
  BY DEF FunctionEnds, BodyEnds, run
<1>2. nodes \in Seq(Nodes) /\ Len(nodes) \in Nat /\ Top = stack[1] /\ 1 \in 1..Len(stack)
      /\ blocks \in Seq(Blocks) /\ insert \in 1..Len(blocks)
  BY InsertBlock, TopOfStack DEF PInv, Typed
<1>3. Completes(M.tree, nodes, stack, got)
  <2>1. Continues(M.tree, nodes)
    BY <1>2 DEF Continues
  <2>2. Future(M.tree, Len(nodes), stack)
    <3>1. Len(nodes) + 1 .. Len(M.tree) = {}
      BY <1>2
    <3> QED
      BY <3>1 DEF Future
  <2>3. ~Wanting(stack, got)
    BY <1>1, <1>2 DEF Wanting, BlockRoles
  <2> QED
    BY <2>1, <2>2, <2>3 DEF Completes
<1>4. PICK E, z : Flow(M, E, z, nodes, blocks, insert, stack, got)
  BY <1>3 DEF Builds, Flows
<1>5. /\ E[1] = Always(Rest(M, 0, 0, "top"), {}) /\ Wired(M, E, blocks, insert, z)
  BY <1>4 DEF Flow
<1>6. z.slot = 0 /\ z.yes = Source!End
  <2>1. Top.node = 0
    BY <1>1, TopKind
  <2>2. \A j \in PartsIn(M.tree, 0, "top") : j <= Len(nodes)
    BY <1>2 DEF PartsIn
  <2>3. Rest(M, Len(nodes), 0, "top") = Source!End
    BY <2>2, <1>2, RestNone
  <2>4. Continues(M.tree, nodes) /\ Top.role \in BlockRoles
    BY <1>1, <1>3 DEF Completes, BlockRoles
  <2> QED
    BY <2>1, <2>3, <2>4, <1>1, <1>4, FNext
<1>7. \E y : Wired(M, E, blocks', insert, y) /\ Len(blocks') = Len(blocks)
  <2>1. CASE Terminated(blocks, insert)
    BY <2>1, <1>1, <1>5
  <2>2. CASE ~Terminated(blocks, insert)
    <3> DEFINE x == Instr("ret", 0, 0, << >>)
    <3>1. x \in Instructions /\ x.op = "ret" /\ x.slot = 0 /\ x.node = 0 /\ <<x>> \in Blocks
      <4>1. "ret" \in Ops /\ 0 \in Nat
        BY DEF Ops, Terminators
      <4>2. x \in Instructions /\ x.op = "ret" /\ x.slot = 0 /\ x.node = 0
        BY <4>1, OneInstr DEF Instr
      <4>3. <<x>> \in Blocks
        BY <4>1, OneInstr
      <4> QED
        BY <4>2, <4>3
    <3> HIDE DEF x
    <3>2. Rule(M, E, Len(blocks), x, z, z)
      BY <3>1, <1>6 DEF Rule, RuleLeaf, RuleSlot, RuleBranch
    <3>3. Wired(M, E, Emitted(blocks, insert, <<x>>), insert, z)
      BY <3>1, <3>2, <1>2, <1>5, WiredEmits
    <3> QED
      BY <2>2, <3>1, <3>3, <1>1, <1>2, EmittedBlocks DEF x
  <2> QED
    BY <2>1, <2>2
<1>8. AllLead(M, E)'
  BY <1>7 DEF Wired, AllLead
<1>9. at' = <<1, 1>> /\ DOMAIN mem' = {} /\ event' = Source!Start
  BY <1>1 DEF SInv, SReady, NInv
<1>10. PICK a : Along(M, E, Len(blocks'), blocks'[1], a) /\ a[1] = E[1]
  <2>1. 1 \in 1..Len(blocks')
    BY <1>2, <1>7
  <2> QED
    BY <2>1, <1>8 DEF AllLead, Leads
<1>11. /\ E[1].slot = 0 /\ E[1].yes = Rest(M, 0, 0, "top") /\ E[1].known = {}
  BY <1>5, IsAlways
<1>12. Tells(M, E[1])'
  <2>1. Comes(M)' = Rest(M, 0, 0, "top")
    BY <1>9 DEF Comes
  <2>2. Promised(E[1])' = Rest(M, 0, 0, "top")
    BY <1>11 DEF Promised
  <2>3. Holding(M, E[1])' /\ Underway(M.tree)'
    BY <1>9, <1>11 DEF Holding, Underway
  <2> QED
    BY <2>1, <2>2, <2>3, <1>11 DEF Tells
<1>13. RunsOn(M, E, a)'
  <2>1. at'[1] = 1 /\ at'[2] = 1
    BY <1>9
  <2> QED
    BY <2>1, <1>8, <1>10, <1>12 DEF RunsOn
<1>14. QED
  BY <1>13 DEF Runs

\* A leaf is executed that the meaning M lets come next.
Executes(M) == \E i \in Nat, v \in BOOLEAN :
                 /\ event' = Source!Event(i, v)
                 /\ \/ Comes(M) = Source!Event(i, v)
                    \/ /\ i # 0 /\ M.tree[i].kind = "atom"
                       /\ \E w : Comes(M) = Source!Event(i, w)
\* The notes around the instruction the machine is at.
LEMMA RHere ==
  ASSUME PInv, SInv, phase = "run", NEW M, NEW E, NEW a, RunsOn(M, E, a)
  PROVE  /\ Current \in Instructions
         /\ Rule(M, E, Len(blocks), Current, a[at[2]], a[at[2] + 1])
         /\ Tells(M, a[at[2]]) /\ at[1] \in 1..Len(blocks)
<1>1. PICK In : Static(In, blocks) /\ SRunning(In)
  BY DEF SInv
<1>2. at[1] \in 1..Len(blocks) /\ at[2] \in 1..Len(blocks[at[1]]) /\ Current \in Instructions
  BY <1>1, SHere
<1>3. QED
  BY <1>2 DEF RunsOn, Along, Current

LEMMA RStep ==
  ASSUME NEW M, NEW E, NEW a, RunsOn(M, E, a), NEW y, y = a[at[2] + 1], UNCHANGED build,
         at' = <<at[1], at[2] + 1>>, Tells(M, y)'
  PROVE  RunsOn(M, E, a)'
<1>1. blocks' = blocks /\ at'[1] = at[1] /\ at'[2] = at[2] + 1
  BY DEF build
<1>2. AllLead(M, E)'
  BY <1>1 DEF RunsOn, AllLead
<1>3. QED
  BY <1>1, <1>2 DEF RunsOn

\* The machine goes to another block.
LEMMA RGoes ==
  ASSUME NEW M, NEW E, NEW a, RunsOn(M, E, a), NEW b \in 1..Len(blocks), UNCHANGED build,
         at' = <<b, 1>>, Tells(M, E[b])'
  PROVE  Runs(M)'
<1>1. blocks' = blocks /\ at'[1] = b /\ at'[2] = 1
  BY DEF build
<1>2. AllLead(M, E)'
  BY <1>1 DEF RunsOn, AllLead
<1>3. PICK c : Along(M, E, Len(blocks), blocks[b], c) /\ c[1] = E[b]
  BY DEF RunsOn, AllLead, Leads
<1>4. RunsOn(M, E, c)'
  BY <1>1, <1>2, <1>3 DEF RunsOn
<1>5. QED
  BY <1>4 DEF Runs

\* What comes after a leaf of the tree.
LEMMA ComesAfter ==
  ASSUME NEW M, NEW n \in Nat, NEW i \in 1..n, n = Len(M.tree), NEW v \in BOOLEAN, event' = Source!Event(i, v)
  PROVE  /\ M.tree[i].kind = "atom" => Comes(M)' = IF v THEN M.yes[i] ELSE M.no[i]
         /\ M.tree[i].kind # "atom" => Comes(M)' = M.after[i]
         /\ M.tree[i].kind \in {"call", "atom", "set"} => Underway(M.tree)'
<1>1. event'.node = i /\ event'.value = v /\ i # 0
  BY DEF Source!Event
<1>2. event' # Source!Start
  BY <1>1 DEF Source!Start, Source!Event
<1>3. QED
  BY <1>1, <1>2 DEF Comes, Underway

LEMMA RCall ==
  ASSUME PInv, SInv, phase = "run", NEW M, M.tree = nodes, NEW E, NEW a, RunsOn(M, E, a),
         Current.op = "call", Step, Happens(Current.node, FALSE), mem' = mem
  PROVE  Executes(M) /\ Runs(M)'
<1> DEFINE x == Current
           i == x.node
           z == a[at[2]]
<1>1. x \in Instructions /\ Rule(M, E, Len(blocks), x, z, a[at[2] + 1]) /\ Tells(M, z)
  BY RHere
<1>2. PICK y : y = a[at[2] + 1]
  OBVIOUS
<1>3. /\ i \in 1..Len(M.tree) /\ M.tree[i].kind = "call" /\ z.slot = 0 /\ z.yes = Source!Event(i, FALSE)
      /\ y = Always(M.after[i], z.known)
  BY <1>1, <1>2 DEF Rule, RuleLeaf
<1>4. Len(M.tree) \in Nat /\ i \in Nat /\ event' = Source!Event(i, FALSE)
  BY <1>1 DEF PInv, Typed, Instructions, Happens, Source!Event
<1>5. Comes(M) = Source!Event(i, FALSE)
  BY <1>1, <1>3 DEF Tells, Promised
<1>6. Executes(M)
  BY <1>4, <1>5 DEF Executes
<1>7. Comes(M)' = M.after[i] /\ Underway(M.tree)'
  BY <1>3, <1>4, ComesAfter
<1>8. y.slot = 0 /\ y.yes = M.after[i] /\ y.known = z.known
  BY <1>3, IsAlways
<1>9. Holding(M, y)'
  BY <1>1, <1>8 DEF Tells, Holding
<1>10. Tells(M, y)'
  BY <1>7, <1>8, <1>9 DEF Tells, Promised
<1>11. RunsOn(M, E, a)'
  BY <1>2, <1>10, RStep DEF Step, Go
<1>12. QED
  BY <1>6, <1>11 DEF Runs

LEMMA RAtom ==
  ASSUME PInv, SInv, phase = "run", NEW M, M.tree = nodes, NEW E, NEW a, RunsOn(M, E, a),
         Current.op = "atom", Step, NEW v \in BOOLEAN, Happens(Current.node, v), Write(Current.node, {v})
  PROVE  Executes(M) /\ Runs(M)'
<1> DEFINE x == Current
           i == x.node
           z == a[at[2]]
<1>1. x \in Instructions /\ Rule(M, E, Len(blocks), x, z, a[at[2] + 1]) /\ Tells(M, z)
  BY RHere
<1>2. PICK y : y = a[at[2] + 1]
  OBVIOUS
<1>3. /\ i \in 1..Len(M.tree) /\ M.tree[i].kind = "atom" /\ z.slot = 0 /\ z.yes = Source!Event(i, FALSE)
      /\ y = Note(i, M.yes[i], M.no[i], z.known \ {i})
  BY <1>1, <1>2 DEF Rule, RuleLeaf
<1>4. Len(M.tree) \in Nat /\ i \in Nat /\ i # 0 /\ event' = Source!Event(i, v)
  BY <1>1, <1>3 DEF PInv, Typed, Instructions, Happens, Source!Event
<1>5. Comes(M) = Source!Event(i, FALSE)
  BY <1>1, <1>3 DEF Tells, Promised
<1>6. Executes(M)
  BY <1>3, <1>4, <1>5 DEF Executes
<1>7. Comes(M)' = (IF v THEN M.yes[i] ELSE M.no[i]) /\ Underway(M.tree)'
  BY <1>3, <1>4, ComesAfter
<1>8. y.slot = i /\ y.yes = M.yes[i] /\ y.no = M.no[i] /\ y.known = z.known \ {i}
  BY <1>3, IsNote
<1>9. i \in DOMAIN mem' /\ mem'[i] = {v} /\ \A s \in DOMAIN mem : s # i => s \in DOMAIN mem' /\ mem'[s] = mem[s]
  BY DEF Write
<1>10. Holding(M, y)'
  BY <1>1, <1>8, <1>9 DEF Tells, Holding
<1>11. Promised(y)' = IF v THEN M.yes[i] ELSE M.no[i]
  <2>1. TRUE \in {v} <=> v
    OBVIOUS
  <2> QED
    BY <2>1, <1>4, <1>8, <1>9 DEF Promised
<1>12. Tells(M, y)'
  BY <1>7, <1>8, <1>9, <1>10, <1>11 DEF Tells
<1>13. RunsOn(M, E, a)'
  BY <1>2, <1>12, RStep DEF Step, Go
<1>14. QED
  BY <1>6, <1>13 DEF Runs

\* A value read from a slot is the promised one.
LEMMA RValue ==
  ASSUME PInv, NEW M, NEW x \in Instructions, NEW z, Tells(M, z), NEW E, NEW n, NEW y, Rule(M, E, n, x, z, y),
         x.op = "set" \/ (x.op = "ret" /\ x.slot # 0), Happens(x.node, Value(x.slot))
  PROVE  Executes(M) /\ event' = Source!Event(x.node, Value(x.slot))
<1>1. /\ z.slot # 0 /\ z.slot = x.slot
      /\ z.yes = Source!Event(x.node, TRUE) /\ z.no = Source!Event(x.node, FALSE)
  BY DEF Rule, RuleLeaf
<1>2. Value(x.slot) \in BOOLEAN /\ x.node \in Nat
  BY DEF Value, Instructions
<1>3. Comes(M) = Source!Event(x.node, Value(x.slot))
  <2>1. CASE TRUE \in mem[x.slot]
    <3>1. Value(x.slot) = TRUE
      BY <2>1 DEF Value
    <3> QED
      BY <3>1, <2>1, <1>1 DEF Tells, Promised
  <2>2. CASE TRUE \notin mem[x.slot]
    <3>0. ~Value(x.slot)
      BY <2>2 DEF Value
    <3>1. Value(x.slot) = FALSE
      BY <3>0, <1>2
    <3> QED
      BY <3>1, <2>2, <1>1 DEF Tells, Promised
  <2> QED
    BY <2>1, <2>2
<1>4. event' = Source!Event(x.node, Value(x.slot))
  BY DEF Happens, Source!Event
<1>5. QED
  BY <1>2, <1>3, <1>4 DEF Executes

LEMMA RSet ==
  ASSUME PInv, SInv, phase = "run", NEW M, M.tree = nodes, NEW E, NEW a, RunsOn(M, E, a),
         Current.op = "set", Step, Happens(Current.node, Value(Current.slot)), mem' = mem
  PROVE  Executes(M) /\ Runs(M)'
<1> DEFINE x == Current
           i == x.node
           z == a[at[2]]
<1>1. x \in Instructions /\ Rule(M, E, Len(blocks), x, z, a[at[2] + 1]) /\ Tells(M, z)
  BY RHere
<1>2. PICK y : y = a[at[2] + 1]
  OBVIOUS
<1>3. /\ i \in 1..Len(M.tree) /\ M.tree[i].kind = "set" /\ y = Always(M.after[i], z.known)
  BY <1>1, <1>2 DEF Rule, RuleLeaf
<1>4. Executes(M) /\ event' = Source!Event(i, Value(x.slot))
  BY <1>1, RValue
<1>5. Len(M.tree) \in Nat /\ Value(x.slot) \in BOOLEAN
  BY DEF PInv, Typed, Value
<1>6. Comes(M)' = M.after[i] /\ Underway(M.tree)'
  <2> HIDE DEF x
  <2>1. \E v \in BOOLEAN : event' = Source!Event(i, v)
    BY <1>4, <1>5
  <2> QED
    BY <2>1, <1>3, <1>5, ComesAfter
<1>7. y.slot = 0 /\ y.yes = M.after[i] /\ y.known = z.known
  BY <1>3, IsAlways
<1>8. Holding(M, y)'
  BY <1>1, <1>7 DEF Tells, Holding
<1>9. Tells(M, y)'
  BY <1>6, <1>7, <1>8 DEF Tells, Promised
<1>10. RunsOn(M, E, a)'
  BY <1>2, <1>9, RStep DEF Step, Go
<1>11. QED
  BY <1>4, <1>10 DEF Runs

LEMMA Written ==
  ASSUME NEW i, NEW v, Write(i, v)
  PROVE  /\ i \in DOMAIN mem' /\ mem'[i] = v
         /\ \A s \in DOMAIN mem : s \in DOMAIN mem' /\ (s # i => mem'[s] = mem[s])
BY DEF Write

LEMMA SameComes ==
  ASSUME event' = event, NEW M
  PROVE  Comes(M)' = Comes(M) /\ Underway(M.tree)' = Underway(M.tree)
BY DEF Comes, Underway

\* Slots are allocated and filled.
LEMMA RSlots ==
  ASSUME PInv, SInv, phase = "run", NEW M, M.tree = nodes, NEW E, NEW a, RunsOn(M, E, a), Step, event' = event,
         Current.op \in {"alloca", "false", "true", "copy", "not"},
         Write(Current.node, CASE Current.op = "alloca" -> {}
                              [] Current.op \in {"false", "true"} -> {Current.op = "true"}
                              [] Current.op = "copy" -> {Value(Current.slot)}
                              [] Current.op = "not" -> {~Value(Current.slot)})
  PROVE  Runs(M)'
<1> DEFINE x == Current
           i == x.node
           z == a[at[2]]
<1>1. x \in Instructions /\ Rule(M, E, Len(blocks), x, z, a[at[2] + 1]) /\ Tells(M, z)
  BY RHere
<1>2. PICK y : y = a[at[2] + 1]
  OBVIOUS
<1>3. RuleSlot(M, x, z, y)
  BY <1>1, <1>2 DEF Rule
<1>4. Comes(M)' = Promised(z) /\ Underway(M.tree)'
  BY <1>1, SameComes DEF Tells
<1>5. /\ z.slot # 0 => z.slot \in DOMAIN mem
      /\ \A s \in z.known : s \in DOMAIN mem /\ mem[s] = {M.tree[s].kind = "or"}
  BY <1>1 DEF Tells, Holding
<1>6. ASSUME Tells(M, y)' PROVE Runs(M)'
  BY <1>2, <1>6, RStep DEF Step, Go, Runs
<1>7. CASE x.op = "alloca"
  <2>1. y = z /\ z.slot = 0 /\ z.known = {}
    BY <1>3, <1>7 DEF RuleSlot
  <2>2. Promised(y)' = z.yes /\ Promised(z) = z.yes /\ y.slot = 0 /\ y.known = {}
    BY <2>1 DEF Promised
  <2>3. Tells(M, y)'
    BY <2>2, <1>4 DEF Tells, Holding
  <2> QED
    BY <2>3, <1>6
<1>8. CASE x.op \in {"false", "true"}
  <2>1. /\ z.slot # i /\ (x.op = "true" <=> M.tree[i].kind = "or")
        /\ y = Note(z.slot, z.yes, z.no, z.known \cup {i})
    BY <1>3, <1>8 DEF RuleSlot
  <2>2. y.slot = z.slot /\ y.yes = z.yes /\ y.no = z.no /\ y.known = z.known \cup {i}
    BY <2>1, IsNote
  <2>3. /\ i \in DOMAIN mem' /\ mem'[i] = {x.op = "true"}
        /\ \A s \in DOMAIN mem : s \in DOMAIN mem' /\ (s # i => mem'[s] = mem[s])
    BY <1>8, Written
  <2>4. mem'[i] = {M.tree[i].kind = "or"}
    BY <2>1, <2>3
  <2>5. Holding(M, y)'
    BY <2>2, <2>3, <2>4, <1>5 DEF Holding
  <2>6. Promised(y)' = Promised(z) /\ (y.slot # 0 => y.slot \in DOMAIN mem')
    BY <2>1, <2>2, <2>3, <1>5, ZenonT(40) DEF Promised
  <2>7. Tells(M, y)'
    BY <2>5, <2>6, <1>4 DEF Tells
  <2> QED
    BY <2>7, <1>6
<1>9. CASE x.op \in {"copy", "not"}
  <2>1. /\ z.slot # 0 /\ z.slot = x.slot
        /\ y = IF x.op = "copy" THEN Note(i, z.yes, z.no, z.known \ {i}) ELSE Note(i, z.no, z.yes, z.known \ {i})
    BY <1>3, <1>9 DEF RuleSlot
  <2>2. /\ y.slot = i /\ y.known = z.known \ {i}
        /\ x.op = "copy" => y.yes = z.yes /\ y.no = z.no
        /\ x.op = "not" => y.yes = z.no /\ y.no = z.yes
    BY <2>1, <1>9, IsNote
  <2>3. /\ i \in DOMAIN mem' /\ mem'[i] = IF x.op = "copy" THEN {Value(x.slot)} ELSE {~Value(x.slot)}
        /\ \A s \in DOMAIN mem : s \in DOMAIN mem' /\ (s # i => mem'[s] = mem[s])
    BY <1>9, Written
  <2>4. Holding(M, y)'
    BY <2>2, <2>3, <1>5 DEF Holding
  <2>5. Promised(z) = IF Value(x.slot) THEN z.yes ELSE z.no
    BY <2>1 DEF Promised, Value
  <2>6. TRUE \in {Value(x.slot)} <=> Value(x.slot)
    BY DEF Value
  <2>7. TRUE \in {~Value(x.slot)} <=> ~Value(x.slot)
    OBVIOUS
  <2>8. Promised(y)' = IF i = 0 \/ TRUE \in mem'[i] THEN y.yes ELSE y.no
    BY <2>2 DEF Promised
  <2>9. i # 0
    BY <1>3, <1>9 DEF RuleSlot
  <2>10. Promised(y)' = Promised(z)
    <3>1. CASE x.op = "copy"
      <4>1. mem'[i] = {Value(x.slot)}
        BY <3>1, <2>3
      <4>2. TRUE \in mem'[i] <=> Value(x.slot)
        BY <4>1, <2>6, Zenon
      <4>3. y.yes = z.yes /\ y.no = z.no
        BY <3>1, <2>2
      <4>4. CASE Value(x.slot)
        <5>1. Promised(z) = z.yes
          BY <2>5, <4>4, Zenon
        <5>2. Promised(y)' = y.yes
          BY <2>8, <2>9, <4>2, <4>4, Zenon
        <5> QED
          BY <5>1, <5>2, <4>3
      <4>5. CASE ~Value(x.slot)
        <5>1. Promised(z) = z.no
          BY <2>5, <4>5, Zenon
        <5>2. Promised(y)' = y.no
          BY <2>8, <2>9, <4>2, <4>5, Zenon
        <5> QED
          BY <5>1, <5>2, <4>3
      <4> QED
        BY <4>4, <4>5
    <3>2. CASE x.op = "not"
      <4>1. mem'[i] = {~Value(x.slot)}
        BY <3>2, <2>3
      <4>2. TRUE \in mem'[i] <=> ~Value(x.slot)
        BY <4>1, <2>7, Zenon
      <4>3. y.yes = z.no /\ y.no = z.yes
        BY <3>2, <2>2
      <4>4. CASE Value(x.slot)
        <5>1. Promised(z) = z.yes
          BY <2>5, <4>4, Zenon
        <5>2. Promised(y)' = y.no
          BY <2>8, <2>9, <4>2, <4>4, Zenon
        <5> QED
          BY <5>1, <5>2, <4>3
      <4>5. CASE ~Value(x.slot)
        <5>1. Promised(z) = z.no
          BY <2>5, <4>5, Zenon
        <5>2. Promised(y)' = y.yes
          BY <2>8, <2>9, <4>2, <4>5, Zenon
        <5> QED
          BY <5>1, <5>2, <4>3
      <4> QED
        BY <4>4, <4>5
    <3> QED
      BY <3>1, <3>2, <1>9
  <2>11. Tells(M, y)'
    BY <2>2, <2>3, <2>4, <2>10, <1>4 DEF Tells
  <2> QED
    BY <2>11, <1>6
<1>10. QED
  BY <1>7, <1>8, <1>9

\* The machine branches: what is promised there is what was promised here.
LEMMA RBranch ==
  ASSUME PInv, SInv, phase = "run", NEW M, M.tree = nodes, NEW E, NEW a, RunsOn(M, E, a),
         Current.op \in {"br", "condbr"}, UNCHANGED <<mem, event>>,
         Go(IF Current.op = "br" \/ Value(Current.slot) THEN Current.to[1] ELSE Current.to[2], 1)
  PROVE  Runs(M)'
<1> DEFINE x == Current
<1>0. PICK z, b : z = a[at[2]] /\ b = IF x.op = "br" \/ Value(x.slot) THEN x.to[1] ELSE x.to[2]
  OBVIOUS
<1>1. x \in Instructions /\ Rule(M, E, Len(blocks), x, z, a[at[2] + 1]) /\ Tells(M, z)
  BY <1>0, RHere
<1>2. RuleBranch(M, E, Len(blocks), x, z)
  BY <1>1 DEF Rule
<1>3. /\ z.slot # 0 => z.slot \in DOMAIN mem
      /\ \A s \in z.known : s \in DOMAIN mem /\ mem[s] = {M.tree[s].kind = "or"}
  BY <1>1 DEF Tells, Holding
<1>4. at' = <<b, 1>> /\ UNCHANGED build /\ mem' = mem /\ event' = event
  BY <1>0 DEF Go
<1>5. Comes(M)' = Promised(z) /\ Underway(M.tree)'
  BY <1>1, <1>4, SameComes DEF Tells
<1>6. b \in 1..Len(blocks) /\ Tells(M, E[b])'
  <2>1. CASE x.op = "br"
    <3>1. b = x.to[1] /\ 1 \in 1..Len(x.to)
      BY <2>1, <1>0, <1>2 DEF RuleBranch
    <3>2. b \in 1..Len(blocks)
      BY <3>1, <2>1, <1>2 DEF RuleBranch
    <3>3. E[b].slot = z.slot /\ E[b].yes = z.yes /\ E[b].no = z.no /\ E[b].known \subseteq z.known
      BY <3>1, <2>1, <1>2 DEF RuleBranch
    <3>4. Promised(E[b])' = Promised(z) /\ Holding(M, E[b])' /\ (E[b].slot # 0 => E[b].slot \in DOMAIN mem')
      BY <3>3, <1>3, <1>4 DEF Promised, Holding
    <3> QED
      BY <3>2, <3>4, <1>5 DEF Tells
  <2>2. CASE x.op = "condbr"
    <3>1. /\ z.slot # 0 /\ z.slot = x.slot /\ Len(x.to) = 2
          /\ Carries(M, E[x.to[1]], z, z.yes) /\ Carries(M, E[x.to[2]], z, z.no)
          /\ \A t \in 1..Len(x.to) : x.to[t] \in 1..Len(blocks)
      BY <2>2, <1>2 DEF RuleBranch
    <3>2. b \in 1..Len(blocks)
      BY <3>1, <1>0
    <3>3. Carries(M, E[b], z, Promised(z))
      <4>1. CASE Value(x.slot)
        <5>1. b = x.to[1]
          BY <4>1, <1>0
        <5>2. Promised(z) = z.yes
          BY <4>1, <3>1 DEF Promised, Value
        <5> QED
          BY <5>1, <5>2, <3>1
      <4>2. CASE ~Value(x.slot)
        <5>1. b = x.to[2]
          BY <4>2, <2>2, <1>0
        <5>2. Promised(z) = z.no
          BY <4>2, <3>1 DEF Promised, Value
        <5> QED
          BY <5>1, <5>2, <3>1
      <4> QED
        BY <4>1, <4>2
    <3> DEFINE t == E[b]
    <3>0. PICK e : e = Promised(z)
      OBVIOUS
    <3>4. /\ t.known \subseteq z.known
          /\ \/ t.slot = 0 /\ t.yes = e
             \/ t.slot # 0 /\ t.slot \in z.known /\ e = IF M.tree[t.slot].kind = "or" THEN t.yes ELSE t.no
      BY <3>0, <3>3 DEF Carries
    <3> HIDE DEF t, x
    <3>5. Holding(M, t)' /\ (t.slot # 0 => t.slot \in DOMAIN mem')
      BY <3>4, <1>3, <1>4 DEF Holding
    <3>6. Promised(t)' = e
      <4>1. CASE t.slot = 0
        BY <4>1, <3>4 DEF Promised
      <4>2. CASE t.slot # 0
        <5>1. mem'[t.slot] = {M.tree[t.slot].kind = "or"}
          BY <4>2, <3>4, <1>3, <1>4
        <5>2. TRUE \in mem'[t.slot] <=> M.tree[t.slot].kind = "or"
          BY <5>1
        <5> QED
          BY <4>2, <5>2, <3>4 DEF Promised
      <4> QED
        BY <4>1, <4>2
    <3>7. Tells(M, t)'
      BY <3>0, <3>5, <3>6, <1>5 DEF Tells
    <3> QED
      BY <3>2, <3>7 DEF t
  <2> QED
    BY <2>1, <2>2
<1>7. QED
  BY <1>4, <1>6, RGoes

LEMMA RRet ==
  ASSUME PInv, SInv, phase = "run", NEW M, M.tree = nodes, NEW E, NEW a, RunsOn(M, E, a), Current.op = "ret",
         IF Current.slot # 0 THEN Happens(Current.node, Value(Current.slot))
                             ELSE Happens(Current.node, Current.node = 0)
  PROVE  Executes(M)
<1> DEFINE x == Current
           z == a[at[2]]
<1>1. x \in Instructions /\ Rule(M, E, Len(blocks), x, z, a[at[2] + 1]) /\ Tells(M, z)
  BY RHere
<1>2. CASE x.slot # 0
  BY <1>1, <1>2, RValue
<1>3. CASE x.slot = 0
  <2>1. z.slot = 0 /\ z.yes = IF x.node = 0 THEN Source!End ELSE Source!Event(x.node, FALSE)
    BY <1>1, <1>3 DEF Rule, RuleLeaf
  <2>2. Comes(M) = z.yes
    BY <2>1, <1>1 DEF Tells, Promised
  <2>3. PICK v \in BOOLEAN : v = (x.node = 0)
    OBVIOUS
  <2>4. Comes(M) = Source!Event(x.node, v)
    <3>1. CASE x.node = 0
      <4>1. v = TRUE
        BY <3>1, <2>3
      <4> QED
        BY <3>1, <4>1, <2>1, <2>2 DEF Source!End, Source!Event
    <3>2. CASE x.node # 0
      <4>1. v = FALSE
        BY <3>2, <2>3
      <4> QED
        BY <3>2, <4>1, <2>1, <2>2
    <3> QED
      BY <3>1, <3>2
  <2>5. event' = Source!Event(x.node, v)
    BY <2>3, <1>3 DEF Happens, Source!Event
  <2>6. x.node \in Nat
    BY <1>1 DEF Instructions
  <2> QED
    BY <2>4, <2>5, <2>6 DEF Executes
<1>4. QED
  BY <1>2, <1>3

\* An instruction executes the leaf that comes next, or none; its note leads to the next.
LEMMA FExecute ==
  ASSUME PInv, SInv, Execute, NEW M, M.tree = nodes, Runs(M)
  PROVE  /\ Underway(M.tree) /\ phase = "run" /\ UNCHANGED build /\ phase' \in {"run", "returned"}
         /\ Executes(M) \/ event' = event
         /\ phase' = "run" => Runs(M)'
<1>1. phase = "run" /\ UNCHANGED build /\ phase' \in {"run", "returned"}
  BY DEF Execute, Step, Go
<1>2. PICK E, a : RunsOn(M, E, a)
  BY DEF Runs
<1>3. Underway(M.tree)
  BY <1>2 DEF RunsOn, Tells
<1>4. CASE Step /\ Current.op = "call" /\ Happens(Current.node, FALSE) /\ UNCHANGED mem
  BY <1>1, <1>2, <1>3, <1>4, RCall
<1>5. CASE Step /\ Current.op = "atom" /\ \E v \in BOOLEAN : Write(Current.node, {v}) /\ Happens(Current.node, v)
  <2>1. PICK v \in BOOLEAN : Write(Current.node, {v}) /\ Happens(Current.node, v)
    BY <1>5
  <2>2. Executes(M) /\ Runs(M)'
    BY <2>1, <1>1, <1>2, <1>5, RAtom
  <2> QED
    BY <2>2, <1>1, <1>3
<1>6. CASE Step /\ Current.op = "set" /\ Happens(Current.node, Value(Current.slot)) /\ UNCHANGED mem
  BY <1>1, <1>2, <1>3, <1>6, RSet
<1>7. CASE /\ Step /\ Current.op \in {"alloca", "false", "true", "copy", "not"}
           /\ Write(Current.node, CASE Current.op = "alloca" -> {}
                                    [] Current.op \in {"false", "true"} -> {Current.op = "true"}
                                    [] Current.op = "copy" -> {Value(Current.slot)}
                                    [] Current.op = "not" -> {~Value(Current.slot)})
           /\ UNCHANGED event
  <2>1. Runs(M)'
    BY <1>1, <1>2, <1>7, RSlots
  <2> QED
    BY <2>1, <1>1, <1>3, <1>7
<1>8. CASE /\ phase = "run" /\ Current.op \in {"br", "condbr"}
           /\ Go(IF Current.op = "br" \/ Value(Current.slot) THEN Current.to[1] ELSE Current.to[2], 1)
           /\ UNCHANGED <<mem, event>>
  <2>1. Runs(M)'
    BY <1>1, <1>2, <1>8, RBranch
  <2> QED
    BY <2>1, <1>1, <1>3, <1>8
<1>9. CASE /\ phase = "run" /\ Current.op = "ret" /\ phase' = "returned"
           /\ IF Current.slot # 0 THEN Happens(Current.node, Value(Current.slot))
              ELSE Happens(Current.node, Current.node = 0)
  <2>1. Executes(M)
    BY <1>1, <1>2, <1>9, RRet
  <2> QED
    BY <2>1, <1>1, <1>3, <1>9
<1>10. QED
  BY <1>4, <1>5, <1>6, <1>7, <1>8, <1>9 DEF Execute

-----------------------------------------------------------------------------
(* The functions of the structured program are what they are defined by:   *)
(* a node's parent comes before it, and its first part right behind it.    *)

\* Every nonempty set of numbers has a least one.
LEMMA LeastNumber ==
  ASSUME NEW T, T \subseteq Nat, T # {}
  PROVE  \E x \in T : \A y \in T : x <= y
<1>1. PICK n : n \in T
  OBVIOUS
<1> DEFINE S == 0..n
           U == {0..m : m \in T \cap S}
           R == StrictSubsetOrdering(S)
<1>2. n \in Nat /\ IsFiniteSet(S)
  BY <1>1, FS_Interval
<1>3. IsWellFoundedOn(R, SUBSET S)
  BY <1>2, FS_StrictSubsetOrderingWellFounded, FS_FiniteSubsetsOfFinite
<1>4. U \subseteq SUBSET S /\ U # {}
  BY <1>1, <1>2
<1>5. PICK u \in U : \A v \in U : ~(<<v, u>> \in R)
  <2> HIDE DEF R, U, S
  <2> QED
    BY <1>3, <1>4, WFMin
<1>6. PICK m \in T \cap S : u = 0..m
  OBVIOUS
<1>7. ASSUME NEW y \in T, ~(m <= y)
      PROVE  FALSE
  <2>1. y \in T \cap S /\ y \in Nat /\ m \in Nat /\ y < m
    BY <1>2, <1>6, <1>7
  <2>2. 0..y \in U /\ 0..y \subseteq 0..m /\ m \notin 0..y /\ m \in 0..m
    BY <2>1
  <2>3. <<0..y, u>> \in R
    BY <1>2, <1>6, <2>1, <2>2 DEF StrictSubsetOrdering
  <2> QED
    BY <1>5, <2>2, <2>3
<1>8. QED
  BY <1>6, <1>7

\* Induction up to n, in terms of a set.
LEMMA ByOne ==
  ASSUME NEW n \in Nat, NEW G, 0 \in G, \A m \in 1..n : m - 1 \in G => m \in G
  PROVE  n \in G
<1> DEFINE T == {m \in 0..n : m \notin G}
<1> SUFFICES ASSUME T # {} PROVE FALSE
  OBVIOUS
<1>1. T \subseteq Nat
  OBVIOUS
<1>2. PICK x \in T : \A y \in T : x <= y
  <2> HIDE DEF T
  <2> QED
    BY <1>1, LeastNumber
<1>3. x \in 1..n /\ x - 1 \in 0..n /\ ~(x <= x - 1)
  BY <1>2
<1>4. QED
  BY <1>2, <1>3

\* A tree, and one in which every node has its first part.
Parented(ns) == ns \in Seq(Nodes) /\ NodesFit(ns)
Whole(ns) == \A i \in 1..Len(ns) : ns[i].kind \in Childless \/ i < Len(ns)

\* First, After and Yield of the structured program are what they are defined by.
LEMMA FirstIs ==
  ASSUME Parented(nodes), Whole(nodes)
  PROVE  Source!First = [i \in 1..Len(nodes) |-> IF nodes[i].kind \in Childless THEN Source!Event(i, FALSE)
                                                 ELSE Source!First[i + 1]]
<1> DEFINE L(i) == {j \in i..Len(nodes) : nodes[j].kind \in Childless}
           F == [i \in 1..Len(nodes) |-> Source!Event(Source!Least(L(i)), FALSE)]
<1>1. Len(nodes) \in Nat
  BY DEF Parented
<1>2. ASSUME NEW i \in 1..Len(nodes)
      PROVE  F[i] = IF nodes[i].kind \in Childless THEN Source!Event(i, FALSE) ELSE F[i + 1]
  <2>1. CASE nodes[i].kind \in Childless
    <3>1. i \in L(i) /\ L(i) \subseteq Nat /\ \A y \in L(i) : i <= y
      BY <1>1, <2>1
    <3> HIDE DEF L
    <3>2. Source!Least(L(i)) = i
      BY <3>1, LeastIs
    <3> QED
      BY <2>1, <3>2
  <2>2. CASE nodes[i].kind \notin Childless
    <3>1. i + 1 \in 1..Len(nodes)
      BY <1>1, <2>2 DEF Whole
    <3>2. L(i) = L(i + 1)
      BY <1>1, <2>2
    <3> HIDE DEF L
    <3> QED
      BY <2>2, <3>1, <3>2
  <2> QED
    BY <2>1, <2>2
<1> HIDE DEF L
<1>3. F = [i \in 1..Len(nodes) |-> IF nodes[i].kind \in {"call", "ret", "atom"} THEN Source!Event(i, FALSE)
                                  ELSE F[i + 1]]
  <2>1. \A i \in 1..Len(nodes) : F[i] = IF nodes[i].kind \in {"call", "ret", "atom"} THEN Source!Event(i, FALSE)
                                        ELSE F[i + 1]
    BY <1>2 DEF Childless
  <2>2. F = [i \in 1..Len(nodes) |-> F[i]]
    OBVIOUS
  <2> HIDE DEF F
  <2> QED
    BY <2>1, <2>2
<1> HIDE DEF F
<1>4. QED
  BY <1>3 DEF Source!First, Childless

\* A function that is computed at i from what it is at an earlier place.
Climbs(A, i, D, p, w, c) ==
  A[i] = [v \in BOOLEAN |-> IF <<i, v>> \in D THEN A[p[i]][w[i][v]] ELSE c[i][v]]
Earlier(n, D, p) == \A i \in 1..n : p[i] \in 1 .. i - 1 \/ \A v \in BOOLEAN : <<i, v>> \notin D
Climbed(A, n, D, p, w, c) ==
  /\ A = [i \in 1..n |-> [v \in BOOLEAN |-> A[i][v]]]
  /\ \A i \in 1..n : \A v \in BOOLEAN :
       A[i][v] = IF <<i, v>> \in D THEN A[p[i]][w[i][v]] ELSE c[i][v]

\* Such a function exists, as far as any number of places.
LEMMA ClimbTo ==
  ASSUME NEW n \in Nat, NEW D, NEW p, NEW w, NEW c, Earlier(n, D, p)
  PROVE  \E A : \A i \in 1..n : Climbs(A, i, D, p, w, c)
<1> DEFINE G == {m \in 0..n : \E A : \A i \in 1..m : Climbs(A, i, D, p, w, c)}
<1>1. 0 \in G
  <2>1. 1..0 = {}
    OBVIOUS
  <2> QED
    BY <2>1
<1>2. ASSUME NEW m \in 1..n, m - 1 \in G
      PROVE  m \in G
  <2>1. PICK A : \A i \in 1 .. m - 1 : Climbs(A, i, D, p, w, c)
    BY <1>2
  <2> DEFINE last == [v \in BOOLEAN |-> IF <<m, v>> \in D THEN A[p[m]][w[m][v]] ELSE c[m][v]]
             B == [i \in 1..m |-> IF i < m THEN A[i] ELSE last]
  <2>2. \A i \in 1 .. m - 1 : B[i] = A[i]
    OBVIOUS
  <2>3. B[m] = last
    OBVIOUS
  <2> HIDE DEF B
  <2>4. ASSUME NEW i \in 1..m
        PROVE  Climbs(B, i, D, p, w, c)
    <3>1. i \in 1..n
      OBVIOUS
    <3>2. B[i] = [v \in BOOLEAN |-> IF <<i, v>> \in D THEN A[p[i]][w[i][v]] ELSE c[i][v]]
      <4>1. CASE i = m
        BY <4>1, <2>3
      <4>2. CASE i # m
        BY <4>2, <2>1, <2>2 DEF Climbs
      <4> QED
        BY <4>1, <4>2
    <3>3. CASE p[i] \in 1 .. i - 1
      <4>1. B[p[i]] = A[p[i]]
        BY <3>3, <2>2
      <4> QED
        BY <3>2, <4>1 DEF Climbs
    <3>4. CASE \A v \in BOOLEAN : <<i, v>> \notin D
      <4>1. \A v \in BOOLEAN : (IF <<i, v>> \in D THEN A[p[i]][w[i][v]] ELSE c[i][v]) =
                               (IF <<i, v>> \in D THEN B[p[i]][w[i][v]] ELSE c[i][v])
        BY <3>4
      <4> QED
        BY <3>2, <4>1 DEF Climbs
    <3> QED
      BY <1>2, <3>1, <3>3, <3>4 DEF Earlier
  <2> QED
    BY <2>4
<1>3. n \in G
  <2> HIDE DEF G
  <2> QED
    BY <1>1, <1>2, ByOne
<1>4. QED
  BY <1>3

LEMMA Climb ==
  ASSUME NEW n \in Nat, NEW D, NEW p, NEW w, NEW c, Earlier(n, D, p)
  PROVE  \E A : Climbed(A, n, D, p, w, c)
<1>1. PICK A : \A i \in 1..n : Climbs(A, i, D, p, w, c)
  BY ClimbTo
<1> DEFINE B == [i \in 1..n |-> A[i]]
<1>2. \A i \in 1..n : B[i] = A[i]
  OBVIOUS
<1>3. B = [i \in 1..n |-> B[i]]
  OBVIOUS
<1> HIDE DEF B
<1>4. ASSUME NEW i \in 1..n
      PROVE  B[i] = [v \in BOOLEAN |-> IF <<i, v>> \in D THEN B[p[i]][w[i][v]] ELSE c[i][v]]
  <2>1. B[i] = [v \in BOOLEAN |-> IF <<i, v>> \in D THEN A[p[i]][w[i][v]] ELSE c[i][v]]
    BY <1>1, <1>2 DEF Climbs
  <2>2. CASE p[i] \in 1 .. i - 1
    <3>1. B[p[i]] = A[p[i]]
      BY <2>2, <1>2
    <3> QED
      BY <2>1, <3>1
  <2>3. CASE \A v \in BOOLEAN : <<i, v>> \notin D
    <3>1. \A v \in BOOLEAN : (IF <<i, v>> \in D THEN A[p[i]][w[i][v]] ELSE c[i][v]) =
                             (IF <<i, v>> \in D THEN B[p[i]][w[i][v]] ELSE c[i][v])
      BY <2>3
    <3> QED
      BY <2>1, <3>1
  <2> QED
    BY <2>2, <2>3 DEF Earlier
<1>5. \A i \in 1..n : \A v \in BOOLEAN : B[i][v] = IF <<i, v>> \in D THEN B[p[i]][w[i][v]] ELSE c[i][v]
  BY <1>4
<1>6. \A i \in 1..n : B[i] = [v \in BOOLEAN |-> B[i][v]]
  BY <1>4
<1>7. B = [i \in 1..n |-> [v \in BOOLEAN |-> B[i][v]]]
  BY <1>3, <1>6, SMTT(60)
<1>8. QED
  BY <1>5, <1>7 DEF Climbed

LEMMA AfterIs ==
  ASSUME Parented(nodes)
  PROVE  Source!After = [i \in 1..Len(nodes) |->
           LET p    == nodes[i].parent
               next == {j \in Source!Parts(p, nodes[i].role) : j > i}
           IN IF next # {} THEN Source!First[Source!Least(next)]
              ELSE CASE nodes[i].role = "top"  -> Source!End
                     [] nodes[i].role = "body" -> Source!First[p]
                     [] OTHER                  -> Source!After[p]]
<1> DEFINE P(i) == nodes[i].parent
           next(i) == {j \in Source!Parts(P(i), nodes[i].role) : j > i}
           Up == {i \in 1..Len(nodes) : next(i) = {} /\ nodes[i].role # "top" /\ nodes[i].role # "body"}
           D == Up \X BOOLEAN
           p == [i \in 1..Len(nodes) |-> P(i)]
           w == [i \in 1..Len(nodes) |-> [v \in BOOLEAN |-> v]]
           leaf(i) == IF next(i) # {} THEN Source!First[Source!Least(next(i))]
                      ELSE IF nodes[i].role = "top" THEN Source!End ELSE Source!First[P(i)]
           c == [i \in 1..Len(nodes) |-> [v \in BOOLEAN |-> leaf(i)]]
<1>1. Len(nodes) \in Nat
  BY DEF Parented
<1>2. \A i \in Up : P(i) \in 1 .. i - 1 /\ P(i) \in 1..Len(nodes)
  <2> SUFFICES ASSUME NEW i \in 1..Len(nodes), i \in Up PROVE P(i) \in 1 .. i - 1 /\ P(i) \in 1..Len(nodes)
    OBVIOUS
  <2>1. nodes[i] \in Nodes /\ P(i) < i /\ P(i) # 0
    BY <1>1 DEF Parented, NodesFit, NodeFits
  <2>2. P(i) \in Nat
    BY <2>1 DEF Nodes
  <2> QED
    BY <1>1, <2>1, <2>2
<1>3. PICK A : Climbed(A, Len(nodes), D, p, w, c)
  <2>1. Earlier(Len(nodes), D, p)
    BY <1>2 DEF Earlier
  <2> HIDE DEF D, p, w, c
  <2> QED
    BY <1>1, <2>1, Climb
<1> DEFINE B == [i \in 1..Len(nodes) |-> A[i][TRUE]]
<1>4. ASSUME NEW i \in 1..Len(nodes)
      PROVE  B[i] = IF next(i) # {} THEN Source!First[Source!Least(next(i))]
                    ELSE CASE nodes[i].role = "top"  -> Source!End
                           [] nodes[i].role = "body" -> Source!First[P(i)]
                           [] OTHER                  -> B[P(i)]
  <2>1. A[i][TRUE] = IF <<i, TRUE>> \in D THEN A[p[i]][w[i][TRUE]] ELSE c[i][TRUE]
    <3> HIDE DEF D, p, w, c
    <3> QED
      BY <1>3 DEF Climbed
  <2>2. B[i] = A[i][TRUE]
    OBVIOUS
  <2>3. CASE i \in Up
    <3>1. A[i][TRUE] = A[P(i)][TRUE]
      <4>1. <<i, TRUE>> \in D /\ p[i] = P(i)
        BY <2>3
      <4>2. w[i][TRUE] = TRUE
        BY Zenon
      <4> HIDE DEF D, p, w, c
      <4> QED
        BY <4>1, <4>2, <2>1
    <3>2. B[P(i)] = A[P(i)][TRUE]
      BY <1>2, <2>3
    <3>3. next(i) = {} /\ nodes[i].role # "top" /\ nodes[i].role # "body"
      BY <2>3
    <3> HIDE DEF B, next, P
    <3> QED
      BY <3>1, <3>2, <3>3, <2>2
  <2>4. CASE i \notin Up
    <3>1. A[i][TRUE] = leaf(i)
      <4>1. <<i, TRUE>> \notin D
        BY <2>4
      <4>2. c[i][TRUE] = leaf(i)
        <5> HIDE DEF leaf
        <5> QED
          BY Zenon
      <4> HIDE DEF D, p, w, c, leaf
      <4> QED
        BY <4>1, <4>2, <2>1
    <3>2. next(i) # {} \/ nodes[i].role = "top" \/ nodes[i].role = "body"
      BY <2>4
    <3>3. leaf(i) = IF next(i) # {} THEN Source!First[Source!Least(next(i))]
                    ELSE IF nodes[i].role = "top" THEN Source!End ELSE Source!First[P(i)]
      OBVIOUS
    <3> HIDE DEF B, next, P, leaf
    <3> QED
      BY <3>1, <3>2, <3>3, <2>2
  <2> QED
    BY <2>3, <2>4
<1>5. B = [i \in 1..Len(nodes) |->
             IF next(i) # {} THEN Source!First[Source!Least(next(i))]
             ELSE CASE nodes[i].role = "top"  -> Source!End
                    [] nodes[i].role = "body" -> Source!First[P(i)]
                    [] OTHER                  -> B[P(i)]]
  <2>1. B = [i \in 1..Len(nodes) |-> B[i]]
    OBVIOUS
  <2> HIDE DEF B, next, P
  <2> QED
    BY <2>1, <1>4
<1> HIDE DEF B
<1>6. QED
  BY <1>5 DEF Source!After

LEMMA YieldIs ==
  ASSUME Parented(nodes)
  PROVE  Source!Yield = [i \in 1..Len(nodes) |->
           LET p == nodes[i].parent
               kind == nodes[p].kind
           IN [v \in BOOLEAN |->
                 CASE nodes[i].role = "operand" -> Source!Yield[p][~v]
                   [] nodes[i].role = "rhs"     -> Source!Yield[p][v]
                   [] nodes[i].role = "lhs"     -> IF v = (kind = "and")
                                                   THEN Source!First[Source!Least(Source!Parts(p, "rhs"))]
                                                   ELSE Source!Yield[p][v]
                   [] nodes[i].role = "value"   -> Source!Event(p, v)
                   [] nodes[i].role = "cond" /\ kind = "if" -> Source!Enter(p, IF v THEN "then" ELSE "else")
                   [] OTHER                     -> IF v THEN Source!Enter(p, "body") ELSE Source!After[p]]]
<1> DEFINE P(i) == nodes[i].parent
           R(i) == nodes[i].role
           K(i) == nodes[P(i)].kind
           right(i) == Source!First[Source!Least(Source!Parts(P(i), "rhs"))]
           test(i, v) == Source!Enter(P(i), IF v THEN "then" ELSE "else")
           loop(i, v) == IF v THEN Source!Enter(P(i), "body") ELSE Source!After[P(i)]
           Up == {i \in 1..Len(nodes) : R(i) \in {"operand", "rhs", "lhs"}}
           D == {d \in Up \X BOOLEAN : R(d[1]) = "lhs" => d[2] # (K(d[1]) = "and")}
           p == [i \in 1..Len(nodes) |-> P(i)]
           w == [i \in 1..Len(nodes) |-> [v \in BOOLEAN |-> IF R(i) = "operand" THEN ~v ELSE v]]
           leaf(i, v) == CASE R(i) = "lhs"   -> right(i)
                           [] R(i) = "value" -> Source!Event(P(i), v)
                           [] R(i) = "cond" /\ K(i) = "if" -> test(i, v)
                           [] OTHER -> loop(i, v)
           c == [i \in 1..Len(nodes) |-> [v \in BOOLEAN |-> leaf(i, v)]]
           body(i, up, v) ==
             CASE R(i) = "operand" -> up[~v]
               [] R(i) = "rhs"     -> up[v]
               [] R(i) = "lhs"     -> IF v = (K(i) = "and") THEN right(i) ELSE up[v]
               [] R(i) = "value"   -> Source!Event(P(i), v)
               [] R(i) = "cond" /\ K(i) = "if" -> test(i, v)
               [] OTHER            -> loop(i, v)
<1>1. Len(nodes) \in Nat
  BY DEF Parented
<1>2. \A i \in Up : P(i) \in 1 .. i - 1 /\ P(i) \in 1..Len(nodes)
  <2> SUFFICES ASSUME NEW i \in 1..Len(nodes), i \in Up PROVE P(i) \in 1 .. i - 1 /\ P(i) \in 1..Len(nodes)
    OBVIOUS
  <2>1. nodes[i] \in Nodes /\ P(i) < i /\ P(i) # 0
    BY <1>1 DEF Parented, NodesFit, NodeFits
  <2>2. P(i) \in Nat
    BY <2>1 DEF Nodes
  <2> QED
    BY <1>1, <2>1, <2>2
<1>3. PICK A : Climbed(A, Len(nodes), D, p, w, c)
  <2>1. Earlier(Len(nodes), D, p)
    <3> SUFFICES ASSUME NEW i \in 1..Len(nodes), NEW v \in BOOLEAN, <<i, v>> \in D PROVE p[i] \in 1 .. i - 1
      BY DEF Earlier
    <3>1. i \in Up /\ p[i] = P(i)
      OBVIOUS
    <3> HIDE DEF P, p, Up, D
    <3> QED
      BY <1>2, <3>1
  <2> HIDE DEF D, p, w, c
  <2> QED
    BY <1>1, <2>1, Climb
<1>4. ASSUME NEW i \in 1..Len(nodes), NEW v \in BOOLEAN
      PROVE  A[i][v] = body(i, A[P(i)], v)
  <2>1. A[i][v] = IF <<i, v>> \in D THEN A[p[i]][w[i][v]] ELSE c[i][v]
    <3> HIDE DEF D, p, w, c
    <3> QED
      BY <1>3 DEF Climbed
  <2>2. <<i, v>> \in D <=> R(i) \in {"operand", "rhs"} \/ (R(i) = "lhs" /\ v # (K(i) = "and"))
    <3> HIDE DEF R, K
    <3> QED
      BY Zenon
  <2>3. p[i] = P(i)
    <3> HIDE DEF P
    <3> QED
      OBVIOUS
  <2>4. w[i][v] = (IF R(i) = "operand" THEN ~v ELSE v) /\ c[i][v] = leaf(i, v)
    <3> HIDE DEF R, leaf
    <3> QED
      BY Zenon
  <2> HIDE DEF D, w, c, p, K, P, R, right, test, loop
  <2>6. CASE R(i) = "operand"
    <3>1. body(i, A[P(i)], v) = A[P(i)][~v]
      BY <2>6
    <3>2. w[i][v] = ~v
      BY <2>4, <2>6, Zenon
    <3> HIDE DEF body
    <3> QED
      BY <2>1, <2>2, <2>3, <2>6, <3>1, <3>2, Zenon
  <2>7. CASE R(i) = "rhs"
    <3>1. body(i, A[P(i)], v) = A[P(i)][v]
      BY <2>7
    <3>2. w[i][v] = v /\ R(i) # "operand"
      <4>1. R(i) # "operand"
        BY <2>7
      <4> QED
        BY <2>4, <4>1, Zenon
    <3> HIDE DEF body
    <3> QED
      BY <2>1, <2>2, <2>3, <2>7, <3>1, <3>2, Zenon
  <2>8. CASE R(i) = "lhs"
    <3>1. body(i, A[P(i)], v) = IF v = (K(i) = "and") THEN right(i) ELSE A[P(i)][v]
      BY <2>8
    <3>2. w[i][v] = v /\ R(i) \notin {"operand", "rhs"} /\ leaf(i, v) = right(i)
      <4>1. R(i) # "operand" /\ R(i) \notin {"operand", "rhs"} /\ leaf(i, v) = right(i)
        BY <2>8
      <4> QED
        BY <2>4, <4>1, Zenon
    <3> HIDE DEF body, leaf
    <3> QED
      BY <2>1, <2>2, <2>3, <2>4, <2>8, <3>1, <3>2, Zenon
  <2>9. CASE R(i) \notin {"operand", "rhs", "lhs"}
    <3>1. body(i, A[P(i)], v) = leaf(i, v)
      BY <2>9
    <3>2. <<i, v>> \notin D
      BY <2>2, <2>9
    <3> HIDE DEF body, leaf
    <3> QED
      BY <2>1, <2>4, <3>1, <3>2, Zenon
  <2> QED
    BY <2>6, <2>7, <2>8, <2>9
<1>5. A = [i \in 1..Len(nodes) |-> [v \in BOOLEAN |-> body(i, A[P(i)], v)]]
  <2>1. \A i \in 1..Len(nodes) : [v \in BOOLEAN |-> A[i][v]] = [v \in BOOLEAN |-> body(i, A[P(i)], v)]
    <3> HIDE DEF body
    <3> QED
      BY <1>4
  <2>2. A = [i \in 1..Len(nodes) |-> [v \in BOOLEAN |-> A[i][v]]]
    BY <1>3 DEF Climbed
  <2> HIDE DEF body
  <2> QED
    BY <2>1, <2>2
<1>6. QED
  BY <1>5, Zenon DEF Source!Yield

\* The meaning of the tree that the structured program gives it.
SourceMeaning ==
  [tree  |-> nodes, first |-> Source!First, after |-> Source!After,
   yes   |-> [i \in 1..Len(nodes) |-> Source!Yield[i][TRUE]],
   no    |-> [i \in 1..Len(nodes) |-> Source!Yield[i][FALSE]]]

LEMMA SourceRest ==
  ASSUME NEW M, M = SourceMeaning, NEW p, NEW r
  PROVE  Rest(M, 0, p, r) = Source!Enter(p, r) /\ FirstPart(M, p, r) = Source!First[Source!Least(Source!Parts(p, r))]
<1>1. PartsIn(M.tree, p, r) = Source!Parts(p, r) /\ M.first = Source!First /\ M.after = Source!After
  BY DEF SourceMeaning, PartsIn, Source!Parts
<1>2. {j \in PartsIn(M.tree, p, r) : j > 0} = PartsIn(M.tree, p, r)
  BY DEF PartsIn
<1>3. QED
  BY <1>1, <1>2 DEF Rest, FirstPart, Source!Enter

\* What the structured program says of the complete tree is a meaning of it.
LEMMA ReadsSource ==
  ASSUME Parented(nodes), Whole(nodes), NEW M, M = SourceMeaning
  PROVE  Reads(M) /\ M.tree = nodes
<1>1. /\ M.tree = nodes /\ M.first = Source!First /\ M.after = Source!After
      /\ M.yes = [i \in 1..Len(nodes) |-> Source!Yield[i][TRUE]]
      /\ M.no = [i \in 1..Len(nodes) |-> Source!Yield[i][FALSE]]
  BY DEF SourceMeaning
<1>2. SUFFICES ASSUME NEW i \in 1..Len(nodes)
               PROVE  /\ ReadsStatement(M, i)
                      /\ ReadsExpression(M, i, nodes[i].parent, nodes[i].role, nodes[nodes[i].parent].kind)
  BY <1>1 DEF Reads
<1>3. ReadsStatement(M, i)
  <2>1. M.first[i] = IF M.tree[i].kind \in Childless THEN Source!Event(i, FALSE) ELSE M.first[i + 1]
    <3>1. \A k \in 1..Len(nodes) : Source!First[k] = IF nodes[k].kind \in Childless THEN Source!Event(k, FALSE)
                                                     ELSE Source!First[k + 1]
      BY FirstIs
    <3> QED
      BY <1>1, <3>1
  <2>2. M.after[i] = Rest(M, i, M.tree[i].parent, M.tree[i].role)
    <3> DEFINE next == {j \in Source!Parts(nodes[i].parent, nodes[i].role) : j > i}
    <3>1. Source!After[i] = IF next # {} THEN Source!First[Source!Least(next)]
                            ELSE CASE nodes[i].role = "top"  -> Source!End
                                   [] nodes[i].role = "body" -> Source!First[nodes[i].parent]
                                   [] OTHER                  -> Source!After[nodes[i].parent]
      BY AfterIs
    <3>2. {j \in PartsIn(M.tree, nodes[i].parent, nodes[i].role) : j > i} = next
      BY <1>1 DEF PartsIn, Source!Parts
    <3> HIDE DEF next
    <3> QED
      BY <3>1, <3>2, <1>1 DEF Rest
  <2> QED
    BY <2>1, <2>2 DEF ReadsStatement
<1>4. ReadsExpression(M, i, nodes[i].parent, nodes[i].role, nodes[nodes[i].parent].kind)
  <2> DEFINE p    == nodes[i].parent
             r    == nodes[i].role
             kind == nodes[p].kind
             meant(v) == CASE r = "operand" -> Source!Yield[p][~v]
                           [] r = "rhs"     -> Source!Yield[p][v]
                           [] r = "lhs"     -> IF v = (kind = "and") THEN FirstPart(M, p, "rhs") ELSE Source!Yield[p][v]
                           [] r = "value"   -> Source!Event(p, v)
                           [] r = "cond" /\ kind = "if" -> Rest(M, 0, p, IF v THEN "then" ELSE "else")
                           [] OTHER         -> IF v THEN Rest(M, 0, p, "body") ELSE M.after[p]
  <2>1. \A v \in BOOLEAN : Source!Yield[i][v] = meant(v)
    <3> DEFINE source(k, v) ==
                 CASE nodes[k].role = "operand" -> Source!Yield[nodes[k].parent][~v]
                   [] nodes[k].role = "rhs"     -> Source!Yield[nodes[k].parent][v]
                   [] nodes[k].role = "lhs"     ->
                        IF v = (nodes[nodes[k].parent].kind = "and")
                        THEN Source!First[Source!Least(Source!Parts(nodes[k].parent, "rhs"))]
                        ELSE Source!Yield[nodes[k].parent][v]
                   [] nodes[k].role = "value"   -> Source!Event(nodes[k].parent, v)
                   [] nodes[k].role = "cond" /\ nodes[nodes[k].parent].kind = "if" ->
                        Source!Enter(nodes[k].parent, IF v THEN "then" ELSE "else")
                   [] OTHER -> IF v THEN Source!Enter(nodes[k].parent, "body")
                               ELSE Source!After[nodes[k].parent]
    <3>1. Source!Yield = [k \in 1..Len(nodes) |-> [v \in BOOLEAN |-> source(k, v)]]
      BY YieldIs, Zenon
    <3>2. \A v \in BOOLEAN : Source!Yield[i][v] = source(i, v)
      <4> HIDE DEF source
      <4> QED
        BY <3>1
    <3>3. /\ FirstPart(M, p, "rhs") = Source!First[Source!Least(Source!Parts(p, "rhs"))]
          /\ \A s : Rest(M, 0, p, s) = Source!Enter(p, s)
          /\ M.after = Source!After
      BY <1>1, SourceRest
    <3>4. \A v \in BOOLEAN : source(i, v) = meant(v)
      BY <3>3
    <3> HIDE DEF source, meant
    <3> QED
      BY <3>2, <3>4
  <2>2. M.yes[i] = Source!Yield[i][TRUE] /\ M.no[i] = Source!Yield[i][FALSE]
    BY <1>1
  <2>3. p \in 1..Len(nodes) \/ r = "top"
    <3>1. nodes[i] \in Nodes /\ p < i /\ (p # 0 \/ r = "top") /\ Len(nodes) \in Nat
      BY DEF Parented, NodesFit, NodeFits
    <3>2. p \in Nat
      BY <3>1 DEF Nodes
    <3> QED
      BY <3>1, <3>2
  <2>4. p \in 1..Len(nodes) => M.yes[p] = Source!Yield[p][TRUE] /\ M.no[p] = Source!Yield[p][FALSE]
    <3> HIDE DEF p
    <3> QED
      BY <1>1
  <2>5. M.yes[i] = meant(TRUE) /\ M.no[i] = meant(FALSE)
    BY <2>1, <2>2, Zenon
  <2>6. ~TRUE = FALSE /\ ~FALSE = TRUE
    BY Zenon
  <2> HIDE DEF p, kind, r, meant
  <2>7. r = "operand" => M.yes[i] = M.no[p] /\ M.no[i] = M.yes[p]
    <3> SUFFICES ASSUME r = "operand" PROVE M.yes[i] = M.no[p] /\ M.no[i] = M.yes[p]
      OBVIOUS
    <3>1. meant(TRUE) = Source!Yield[p][~TRUE] /\ meant(FALSE) = Source!Yield[p][~FALSE]
      BY DEF meant
    <3>2. p \in 1..Len(nodes)
      BY <2>3
    <3> QED
      BY <2>4, <2>5, <2>6, <3>1, <3>2, Zenon
  <2>8. r = "rhs" => M.yes[i] = M.yes[p] /\ M.no[i] = M.no[p]
    <3> SUFFICES ASSUME r = "rhs" PROVE M.yes[i] = M.yes[p] /\ M.no[i] = M.no[p]
      OBVIOUS
    <3>1. meant(TRUE) = Source!Yield[p][TRUE] /\ meant(FALSE) = Source!Yield[p][FALSE]
      BY DEF meant
    <3>2. p \in 1..Len(nodes)
      BY <2>3
    <3> QED
      BY <2>4, <2>5, <3>1, <3>2, Zenon
  <2>9. r = "lhs" => IF kind = "and" THEN M.yes[i] = FirstPart(M, p, "rhs") /\ M.no[i] = M.no[p]
                     ELSE M.yes[i] = M.yes[p] /\ M.no[i] = FirstPart(M, p, "rhs")
    <3> SUFFICES ASSUME r = "lhs"
                 PROVE  IF kind = "and" THEN M.yes[i] = FirstPart(M, p, "rhs") /\ M.no[i] = M.no[p]
                        ELSE M.yes[i] = M.yes[p] /\ M.no[i] = FirstPart(M, p, "rhs")
      OBVIOUS
    <3>1. p \in 1..Len(nodes)
      BY <2>3
    <3>2. /\ meant(TRUE) = IF TRUE = (kind = "and") THEN FirstPart(M, p, "rhs") ELSE Source!Yield[p][TRUE]
          /\ meant(FALSE) = IF FALSE = (kind = "and") THEN FirstPart(M, p, "rhs") ELSE Source!Yield[p][FALSE]
      BY DEF meant
    <3> QED
      BY <2>4, <2>5, <3>1, <3>2, Zenon
  <2>10. r = "value" => M.yes[i] = Source!Event(p, TRUE) /\ M.no[i] = Source!Event(p, FALSE)
    BY <2>5 DEF meant
  <2>11. r = "cond" => IF kind = "if" THEN M.yes[i] = Rest(M, 0, p, "then") /\ M.no[i] = Rest(M, 0, p, "else")
                       ELSE M.yes[i] = Rest(M, 0, p, "body") /\ M.no[i] = M.after[p]
    BY <2>5 DEF meant
  <2> QED
    BY <2>7, <2>8, <2>9, <2>10, <2>11 DEF ReadsExpression, p, r, kind
<1>5. QED
  BY <1>3, <1>4

LEMMA BuildingOn ==
  ASSUME Building PROVE phase = "build" /\ phase' = "build" /\ event' = event
<1>1. CASE \/ CallStatement \/ ReturnVoid \/ Operand
           \/ ValueStatement \/ Conditional \/ While \/ ShortCircuit \/ BooleanNot
  BY <1>1 DEF CallStatement, ReturnVoid, Operand, ValueStatement, Conditional, While, ShortCircuit, BooleanNot,
     InBlock, StatementWanted, OperandWanted, run
<1>2. CASE \/ ConditionDone \/ LeftDone \/ RightDone \/ NotDone \/ ValueDone
           \/ ThenEnds \/ ElseEnds \/ WhileEnds
  BY <1>2 DEF ConditionDone, LeftDone, RightDone, NotDone, ValueDone, ThenEnds, ElseEnds, WhileEnds,
     Returned, BodyEnds, run
<1>3. QED
  BY <1>1, <1>2 DEF Building

\* The invariant of the notes is kept.
LEMMA FlowNext ==
  ASSUME PInv, TInv, SInv, NInv, FlowInv, [Next]_vars PROVE FlowInv'
<1>1. CASE Building
  <2>1. phase = "build" /\ phase' = "build"
    BY <1>1, BuildingOn
  <2>2. ASSUME NEW M
        PROVE  Builds(M)'
    <3>1. Builds(M)
      BY <2>1 DEF FlowInv
    <3> QED
      BY <1>1, <3>1, FBuilding
  <2> QED
    BY <2>1, <2>2 DEF FlowInv
<1>2. CASE FunctionEnds
  <2>1. phase = "build" /\ phase' = "run" /\ nodes' = nodes
    BY <1>2 DEF FunctionEnds, BodyEnds
  <2>2. ASSUME NEW M, Reads(M), M.tree = nodes
        PROVE  Runs(M)'
    <3>1. Builds(M)
      BY <2>1 DEF FlowInv
    <3> QED
      BY <1>2, <2>2, <3>1, FFunctionEnds
  <2> QED
    BY <2>1, <2>2 DEF FlowInv
<1>3. CASE Execute
  <2>1. phase = "run" /\ nodes' = nodes /\ phase' \in {"run", "returned"}
    BY <1>3 DEF Execute, Step, Go, build
  <2>2. ASSUME NEW M, Reads(M), M.tree = nodes, phase' = "run"
        PROVE  Runs(M)'
    <3>1. Runs(M)
      BY <2>1, <2>2 DEF FlowInv
    <3> QED
      BY <1>3, <2>2, <3>1, FExecute
  <2> QED
    BY <2>1, <2>2 DEF FlowInv
<1>4. CASE Break
  <2>1. phase' = "error"
    BY <1>4 DEF Break
  <2> QED
    BY <2>1 DEF FlowInv
<1>5. CASE Exit \/ UNCHANGED vars
  <2>1. UNCHANGED <<phase, nodes, blocks, insert, stack, got, at, mem, event>>
    BY <1>5 DEF Exit, vars, build, run
  <2>2. ASSUME NEW M, Builds(M)
        PROVE  Builds(M)'
    BY <2>1, <2>2 DEF Builds, Flows
  <2>3. ASSUME NEW M, Runs(M)
        PROVE  Runs(M)'
    BY <2>1, <2>3, ZenonT(40) DEF Runs, RunsOn, AllLead, Tells, Promised, Comes, Holding, Underway
  <2> QED
    BY <2>1, <2>2, <2>3 DEF FlowInv
<1>6. QED
  BY <1>1, <1>2, <1>3, <1>4, <1>5 DEF Next, Building

LEMMA WholeAtEnd ==
  ASSUME PInv, NInv, phase = "run" PROVE Parented(nodes) /\ Whole(nodes)
<1>1. Top.role = "top" /\ Top = stack[1]
  BY TopOfStack DEF PInv, Complete, Typed, Stacked
<1>2. ~Wanting(stack, got)
  BY <1>1 DEF Wanting, BlockRoles
<1>3. QED
  BY <1>2 DEF PInv, Typed, NInv, Filled, Parented, Whole

LEMMA ComesIs ==
  ASSUME NEW M, M = SourceMeaning, Underway(nodes)
  PROVE  Comes(M) = CASE event = Source!Start -> Source!Enter(0, "top")
                      [] event.node # 0 /\ nodes[event.node].kind = "atom" -> Source!Yield[event.node][event.value]
                      [] OTHER -> Source!After[event.node]
<1>1. /\ M.tree = nodes /\ M.after = Source!After
      /\ M.yes = [i \in 1..Len(nodes) |-> Source!Yield[i][TRUE]]
      /\ M.no = [i \in 1..Len(nodes) |-> Source!Yield[i][FALSE]]
  BY DEF SourceMeaning
<1>2. CASE event = Source!Start
  <2>1. event.node = 0
    BY <1>2 DEF Source!Start, Source!Event
  <2>2. Comes(M) = Source!Enter(0, "top")
    BY <1>2, SourceRest DEF Comes
  <2> QED
    BY <1>2, <2>1, <2>2
<1>3. CASE event # Source!Start /\ event.node # 0 /\ nodes[event.node].kind = "atom"
  <2>1. event.node \in 1..Len(nodes) /\ event.value \in BOOLEAN
    BY <1>3 DEF Underway
  <2>2. Comes(M) = IF event.value THEN M.yes[event.node] ELSE M.no[event.node]
    BY <1>1, <1>3 DEF Comes
  <2>3. M.yes[event.node] = Source!Yield[event.node][TRUE] /\ M.no[event.node] = Source!Yield[event.node][FALSE]
    BY <1>1, <2>1
  <2>4. Comes(M) = Source!Yield[event.node][event.value]
    BY <2>1, <2>2, <2>3, Zenon
  <2> QED
    BY <1>3, <2>4
<1>4. CASE event # Source!Start /\ ~(event.node # 0 /\ nodes[event.node].kind = "atom")
  BY <1>1, <1>4 DEF Comes
<1>5. QED
  BY <1>2, <1>3, <1>4

\* Every step is one of the structured program, or changes nothing it sees.
LEMMA StepAsWritten ==
  ASSUME PInv, SInv, NInv, FlowInv, [Next]_vars
  PROVE  [Source!Write \/ Source!Run]_<<nodes, event>>
<1>1. CASE Building \/ FunctionEnds \/ Break
  <2>1. phase = "build" /\ event' = event
    BY <1>1, BuildingOn DEF FunctionEnds, BodyEnds, Break, StatementWanted, InBlock, run
  <2> QED
    BY <2>1 DEF NInv, Source!Write
<1>2. CASE Execute
  <2>1. phase = "run" /\ nodes' = nodes
    BY <1>2 DEF Execute, Step, Go, build
  <2>2. PICK M : M = SourceMeaning
    OBVIOUS
  <2>3. Reads(M) /\ M.tree = nodes
    BY <2>1, <2>2, WholeAtEnd, ReadsSource
  <2>4. Runs(M)
    BY <2>1, <2>3 DEF FlowInv
  <2>5. Underway(nodes) /\ (Executes(M) \/ event' = event)
    BY <1>2, <2>3, <2>4, FExecute
  <2>6. CASE Executes(M)
    <3>1. PICK i \in Nat, v \in BOOLEAN :
            /\ event' = Source!Event(i, v)
            /\ \/ Comes(M) = Source!Event(i, v)
               \/ i # 0 /\ nodes[i].kind = "atom" /\ \E u : Comes(M) = Source!Event(i, u)
      BY <2>3, <2>6 DEF Executes
    <3>2. Source!Running
      BY <2>5 DEF Source!Running, Underway, Source!Start, Source!End, Source!Event
    <3> DEFINE to == CASE event = Source!Start -> Source!Enter(0, "top")
                       [] event.node # 0 /\ nodes[event.node].kind = "atom" -> Source!Yield[event.node][event.value]
                       [] OTHER -> Source!After[event.node]
    <3>3. Comes(M) = to
      BY <2>2, <2>5, ComesIs
    <3>4. Source!Next(event) = {f \in {Source!Event(to.node, u) : u \in BOOLEAN} :
                                  (to.node # 0 /\ nodes[to.node].kind = "atom") \/ f = to}
      BY DEF Source!Next
    <3> HIDE DEF to
    <3>5. to.node = i /\ (to = Source!Event(i, v) \/ (i # 0 /\ nodes[i].kind = "atom"))
      BY <3>1, <3>3 DEF Source!Event
    <3>6. event' \in Source!Next(event)
      BY <3>1, <3>4, <3>5
    <3> QED
      BY <2>1, <3>2, <3>6 DEF Source!Run
  <2>7. CASE event' = event
    BY <2>1, <2>7
  <2> QED
    BY <2>5, <2>6, <2>7
<1>3. CASE Exit \/ UNCHANGED vars
  BY <1>3 DEF Exit, vars, build, run
<1>4. QED
  BY <1>1, <1>2, <1>3 DEF Next, Building

\* The blocks of a function mean what its statements do: the leaves are executed
\* in the order of the structured program, with the values its short circuits
\* give them, for trees of every size (cg-inst.c:161-290, cg-operator.c:147-297).
THEOREM CodeRunsAsWritten == Spec => RunsAsWritten
<1>1. Init => PInv /\ TInv /\ SInv /\ NInv /\ FlowInv /\ Source!StructuredInit
  <2>1. Init => Source!StructuredInit
    BY DEF Init, Source!StructuredInit, Source!Start, Source!Event
  <2> QED
    BY <2>1, PInit, TInit, SInit, NInit, FInit
<1>2. PInv /\ TInv /\ SInv /\ NInv /\ FlowInv /\ [Next]_vars => (PInv /\ TInv /\ SInv /\ NInv /\ FlowInv)'
  BY PNext, TNext, SNext, NNext, FlowNext
<1>3. PInv /\ SInv /\ NInv /\ FlowInv /\ [Next]_vars => [Source!Write \/ Source!Run]_<<nodes, event>>
  BY StepAsWritten
<1>4. QED
  BY <1>1, <1>2, <1>3, PTL DEF Spec, RunsAsWritten, Source!StructuredSpec
=============================================================================
