-------------------------- MODULE StructuredProgram --------------------------
(***************************************************************************)
(* What the statements of the language mean, from the syntax tree alone:   *)
(* which leaf (a call, an operand, an assignment, a return) is executed    *)
(* after which.  A node is its index in `nodes', in the order the parser   *)
(* reads them; it knows its parent and what it is of the parent.           *)
(***************************************************************************)
EXTENDS Naturals, Sequences

VARIABLES nodes,  \* the tree: [kind, parent, role]
          event   \* the leaf executed last and its value

Event(i, v) == [node |-> i, value |-> v]
Start == Event(0, FALSE)
End   == Event(0, TRUE)   \* the end of the function was reached

Least(S) == CHOOSE i \in S : \A j \in S : i <= j
Parts(p, role) == {i \in 1..Len(nodes) : nodes[i].parent = p /\ nodes[i].role = role}

\* The first leaf of a node; the first part of a node is the node after it.
First[i \in 1..Len(nodes)] ==
  IF nodes[i].kind \in {"call", "ret", "atom"} THEN Event(i, FALSE) ELSE First[i + 1]

\* What follows the statement i: the next of its block, or what follows the block.
After[i \in 1..Len(nodes)] ==
  LET p    == nodes[i].parent
      next == {j \in Parts(p, nodes[i].role) : j > i}
  IN IF next # {} THEN First[Least(next)]
     ELSE CASE nodes[i].role = "top"  -> End
            [] nodes[i].role = "body" -> First[p]
            [] OTHER                  -> After[p]

\* The start of a block of p, which may be empty.
Enter(p, role) ==
  IF Parts(p, role) # {} THEN First[Least(Parts(p, role))]
  ELSE CASE role = "top"  -> End
         [] role = "body" -> First[p]
         [] OTHER         -> After[p]

\* What follows when the expression i has the value v.
Yield[i \in 1..Len(nodes)] ==
  LET p == nodes[i].parent
      kind == nodes[p].kind
  IN [v \in BOOLEAN |->
        CASE nodes[i].role = "operand" -> Yield[p][~v]
          [] nodes[i].role = "rhs"     -> Yield[p][v]
          [] nodes[i].role = "lhs"     -> IF v = (kind = "and")
                                          THEN First[Least(Parts(p, "rhs"))] ELSE Yield[p][v]
          [] nodes[i].role = "value"   -> Event(p, v)
          [] nodes[i].role = "cond" /\ kind = "if" -> Enter(p, IF v THEN "then" ELSE "else")
          [] OTHER                     -> IF v THEN Enter(p, "body") ELSE After[p]]   \* while

Next(e) ==
  LET kind == nodes[e.node].kind
      to == CASE e = Start -> Enter(0, "top")
              [] e.node # 0 /\ kind = "atom" -> Yield[e.node][e.value]
              [] OTHER -> After[e.node]
  IN {f \in {Event(to.node, v) : v \in BOOLEAN} :
        (to.node # 0 /\ nodes[to.node].kind = "atom") \/ f = to}

Running == event # End /\ (event.node # 0 => nodes[event.node].kind \notin {"ret", "retval"})

StructuredInit == event = Start

\* The program is written first; then its leaves run, one after the other.
Write == event = Start /\ UNCHANGED event
Run == Running /\ event' \in Next(event) /\ UNCHANGED nodes

StructuredSpec == StructuredInit /\ [][Write \/ Run]_<<nodes, event>>
=============================================================================
