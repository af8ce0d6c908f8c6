------------------------------ MODULE CfgBuilder ------------------------------
(***************************************************************************)
(* The control flow of a function: codegen_function and codegen_inst       *)
(* (src/src/codegen/cg-function.c, cg-inst.c), the operators && || !       *)
(* (cg-operator.c) and the stack slots (cg-helpers.c) turn statements into *)
(* basic blocks.  The generator is recursive; `stack' holds its calls that *)
(* have not returned, and an action is the code between two of them.  As   *)
(* in ScopeResolve the program is whatever the parser hands out next.      *)
(* When the function is complete it is run, one instruction at a time.     *)
(***************************************************************************)
EXTENDS Naturals, Sequences, FiniteSets

CONSTANTS Statements, \* the kinds of statement the program uses
          Operators,  \* the kinds of expression node: "and", "or", "not"
          MaxNodes    \* bound on the nodes of the syntax tree

VARIABLES phase,   \* "build", then "run", "returned" or "error"
          nodes,   \* the syntax tree met so far, in order
          blocks,  \* the basic blocks created so far: block -> instructions
          layout,  \* the blocks appended to the function
          insert,  \* the block the builder is positioned at the end of
          stack,   \* the calls of the generator, innermost first
          got,     \* the slot of the expression just generated, or 0
          at,      \* run: the block and the index of the next instruction
          mem,     \* run: stack slots, the set of a value or empty: nothing stored yet
          event    \* run: the leaf executed last and its value

build == <<nodes, blocks, layout, insert, stack, got>>
run   == <<at, mem, event>>
vars  == <<phase, build, run>>

Terminators == {"br", "condbr", "ret"}
\* op, the node it comes from or the slot it writes, the slot it reads, targets
Instr(op, i, s, to) == [op |-> op, node |-> i, slot |-> s, to |-> to]

Here == Len(nodes) + 1
Top == Head(stack)
BlockRoles == {"top", "then", "else", "body"}
InBlock == phase = "build" /\ got = 0 /\ Top.role \in BlockRoles
EmptyElse == /\ Top.role = "else"
             /\ \A i \in 1..Len(nodes) : nodes[i].parent = Top.node => nodes[i].role # "else"
StatementWanted == InBlock /\ Here <= MaxNodes
OperandWanted == phase = "build" /\ got = 0 /\ Top.role \notin BlockRoles
-----------------------------------------------------------------------------
\* The LLVM builder.
Created(bs, k) == bs \o [i \in 1..k |-> << >>]
Emitted(bs, b, instrs) == [bs EXCEPT ![b] = @ \o instrs]
Terminated(bs, b) == bs[b] # << >> /\ bs[b][Len(bs[b])].op \in Terminators
BranchAlways(bs, b, to) == Emitted(bs, b, <<Instr("br", 0, 0, <<to>>)>>)   \* mutant
BranchUnlessTerminated(bs, b, to) ==
  IF Terminated(bs, b) THEN bs ELSE Emitted(bs, b, <<Instr("br", 0, 0, <<to>>)>>)

\* allocate_stack_helper: the slot is allocated at the start of the entry
\* block, and its initial value is stored where the builder is.
Allocated_here(bs, b, slot, init) ==   \* mutant: the builder does not move to the entry
  Emitted(bs, b, <<Instr("alloca", slot, 0, << >>), init>>)
Allocated(bs, b, slot, init) ==
  Emitted([bs EXCEPT ![1] = <<Instr("alloca", slot, 0, << >>)>> \o @], b, <<init>>)

Add(kind) == nodes' = Append(nodes, [kind |-> kind, parent |-> Top.node, role |-> Top.role])
Frame(i, role, bbs) == [node |-> i, role |-> role, bbs |-> bbs]
Place(bs) == layout' = layout \o bs /\ insert' = bs[Len(bs)]
-----------------------------------------------------------------------------
\* codegen_function: the entry block, then the statements of the body.
Init ==
  /\ phase = "build"
  /\ nodes = << >> /\ blocks = << << >> >> /\ layout = <<1>> /\ insert = 1
  /\ stack = <<Frame(0, "top", << >>)>> /\ got = 0
  /\ at = <<1, 1>> /\ mem = [s \in {} |-> {}]
  /\ event = [node |-> 0, value |-> FALSE]

\* A call statement, and a return without an expression.
CallStatement ==
  /\ InBlock /\ (StatementWanted \/ EmptyElse)  \* beyond the bound, to complete an if
  /\ "call" \in Statements
  /\ Add("call")
  /\ blocks' = Emitted(blocks, insert, <<Instr("call", Here, 0, << >>)>>)
  /\ UNCHANGED <<phase, layout, insert, stack, got, run>>

ReturnVoid ==
  /\ StatementWanted /\ "ret" \in Statements
  /\ Add("ret")
  /\ blocks' = Emitted(blocks, insert, <<Instr("ret", Here, 0, << >>)>>)
  /\ UNCHANGED <<phase, layout, insert, stack, got, run>>

\* An assignment or variable, a return: its expression first.
ValueStatement ==
  /\ StatementWanted
  /\ \E k \in {"set", "retval"} \cap Statements : Add(k)
  /\ stack' = <<Frame(Here, "value", << >>)>> \o stack
  /\ UNCHANGED <<phase, blocks, layout, insert, got, run>>

\* The blocks of a conditional: body, else (the end when there is none), end.
Conditional ==
  /\ StatementWanted /\ "if" \in Statements
  /\ Add("if")
  /\ \E has_else \in BOOLEAN :
       LET body == Len(blocks) + 1
           end  == IF has_else THEN body + 2 ELSE body + 1
       IN /\ blocks' = Created(blocks, end - Len(blocks))
          /\ stack' = <<Frame(Here, "cond", <<body, body + 1, end>>)>> \o stack
  /\ UNCHANGED <<phase, layout, insert, got, run>>

\* The blocks of a loop: condition, body, end.
While ==
  /\ StatementWanted /\ "while" \in Statements
  /\ Add("while")
  /\ LET cond == Len(blocks) + 1
     IN /\ blocks' = Emitted(Created(blocks, 3), insert, <<Instr("br", 0, 0, <<cond>>)>>)
        /\ Place(<<cond>>)
        /\ stack' = <<Frame(Here, "cond", <<cond, cond + 1, cond + 2>>)>> \o stack
  /\ UNCHANGED <<phase, got, run>>

\* A break in a loop passes the checks of the parser and is not implemented.
Break ==
  /\ StatementWanted /\ "break" \in Statements
  /\ \E k \in 1..Len(stack) : stack[k].role = "body"
  /\ phase' = "error"
  /\ UNCHANGED <<build, run>>

\* An operand: an identifier, a constant, a call.
Operand ==
  /\ OperandWanted
  /\ Add("atom")
  /\ blocks' = Allocated(blocks, insert, Here, Instr("atom", Here, 0, << >>))
  /\ got' = Here
  /\ UNCHANGED <<phase, layout, insert, stack, run>>

\* booleanAnd and booleanOr: the result is false (true) unless the right hand
\* side is evaluated.
ShortCircuit ==
  /\ OperandWanted /\ Here < MaxNodes
  /\ \E op \in {"and", "or"} \cap Operators :
       /\ Add(op)
       /\ blocks' = Created(Allocated(blocks, insert, Here,
                              Instr(IF op = "and" THEN "false" ELSE "true", Here, 0, << >>)), 2)
  /\ stack' = <<Frame(Here, "lhs", <<Len(blocks) + 1, Len(blocks) + 2>>)>> \o stack
  /\ UNCHANGED <<phase, layout, insert, got, run>>

BooleanNot ==
  /\ OperandWanted /\ Here < MaxNodes /\ "not" \in Operators
  /\ Add("not")
  /\ stack' = <<Frame(Here, "operand", << >>)>> \o stack
  /\ UNCHANGED <<phase, blocks, layout, insert, got, run>>
-----------------------------------------------------------------------------
\* The call for an expression has returned to the caller on top of the stack.
Returned(role) == phase = "build" /\ got # 0 /\ Top.role = role
CondBr_swapped(t, f) == <<Instr("condbr", 0, got, <<f, t>>)>>   \* mutant
CondBr(t, f) == <<Instr("condbr", 0, got, <<t, f>>)>>

\* The condition of an if or a while: branch, and go on with the body.
ConditionDone ==
  /\ Returned("cond")
  /\ LET f == Top.bbs
         loop == nodes[Top.node].kind = "while"
     IN IF loop
        THEN /\ blocks' = Emitted(blocks, insert, CondBr(f[2], f[3]))
             /\ Place(<<f[2]>>)
             /\ stack' = <<Frame(Top.node, "body", f)>> \o Tail(stack)
        ELSE /\ blocks' = Emitted(blocks, insert, CondBr(f[1], f[2]))
             /\ Place(<<f[1]>>)
             /\ stack' = <<Frame(Top.node, "then", f)>> \o Tail(stack)
  /\ got' = 0
  /\ UNCHANGED <<phase, nodes, run>>

ShortTargets_swapped(op, rhs, end) == CondBr(rhs, end)   \* mutant: or as and
ShortTargets(op, rhs, end) == IF op = "and" THEN CondBr(rhs, end) ELSE CondBr(end, rhs)

LeftDone ==
  /\ Returned("lhs")
  /\ LET rhs == Top.bbs[1]
         end == Top.bbs[2]
     IN blocks' = Emitted(blocks, insert, ShortTargets(nodes[Top.node].kind, rhs, end))
  /\ Place(<<Top.bbs[1]>>)
  /\ stack' = <<Frame(Top.node, "rhs", Top.bbs)>> \o Tail(stack)
  /\ got' = 0
  /\ UNCHANGED <<phase, nodes, run>>

RightDone ==
  /\ Returned("rhs")
  /\ blocks' = Emitted(blocks, insert, <<Instr("copy", Top.node, got, << >>),
                                         Instr("br", 0, 0, <<Top.bbs[2]>>)>>)
  /\ Place(<<Top.bbs[2]>>)
  /\ stack' = Tail(stack) /\ got' = Top.node
  /\ UNCHANGED <<phase, nodes, run>>

NotDone ==
  /\ Returned("operand")
  /\ blocks' = Allocated(blocks, insert, Top.node, Instr("not", Top.node, got, << >>))
  /\ stack' = Tail(stack) /\ got' = Top.node
  /\ UNCHANGED <<phase, nodes, layout, insert, run>>

ValueDone ==
  /\ Returned("value")
  /\ LET op == IF nodes[Top.node].kind = "set" THEN "set" ELSE "ret"
     IN blocks' = Emitted(blocks, insert, <<Instr(op, Top.node, got, << >>)>>)
  /\ stack' = Tail(stack) /\ got' = 0
  /\ UNCHANGED <<phase, nodes, layout, insert, run>>
-----------------------------------------------------------------------------
\* The closing brace of a block.
BodyEnds(role) == phase = "build" /\ got = 0 /\ Top.role = role

HasElse_never(f) == FALSE   \* mutant: the else is placed but not filled
HasElse(f) == f.bbs[2] # f.bbs[3]

ThenEnds ==
  /\ BodyEnds("then")
  /\ blocks' = BranchUnlessTerminated(blocks, insert, Top.bbs[3])
  /\ Place(<<Top.bbs[2]>>)   \* the else block, or the end
  /\ stack' = IF HasElse(Top) THEN <<Frame(Top.node, "else", Top.bbs)>> \o Tail(stack)
                              ELSE Tail(stack)
  /\ UNCHANGED <<phase, nodes, got, run>>

\* An else block that is there is not empty.
ElseEnds ==
  /\ BodyEnds("else")
  /\ ~EmptyElse
  /\ blocks' = BranchUnlessTerminated(blocks, insert, Top.bbs[3])
  /\ Place(<<Top.bbs[3]>>)
  /\ stack' = Tail(stack)
  /\ UNCHANGED <<phase, nodes, got, run>>

WhileEnds ==
  /\ BodyEnds("body")
  /\ blocks' = BranchUnlessTerminated(blocks, insert, Top.bbs[1])
  /\ Place(<<Top.bbs[3]>>)
  /\ stack' = Tail(stack)
  /\ UNCHANGED <<phase, nodes, got, run>>

\* Make sure there is a final ret.
FunctionEnds ==
  /\ BodyEnds("top")
  /\ blocks' = IF Terminated(blocks, insert) THEN blocks
               ELSE Emitted(blocks, insert, <<Instr("ret", 0, 0, << >>)>>)
  /\ phase' = "run"
  /\ UNCHANGED <<nodes, layout, insert, stack, got, run>>
-----------------------------------------------------------------------------
\* The machine that runs the function: LLVM's meaning of the instructions.
Current == blocks[at[1]][at[2]]
Write(slot, v) == mem' = [s \in DOMAIN mem \cup {slot} |-> IF s = slot THEN v ELSE mem[s]]
Value(slot) == TRUE \in mem[slot]
Happens(i, v) == event' = [node |-> i, value |-> v]
Go(b, k) == at' = <<b, k>> /\ UNCHANGED <<phase, build>>
Step == phase = "run" /\ Go(at[1], at[2] + 1)

Execute ==
  \/ /\ Step /\ Current.op = "call"
     /\ Happens(Current.node, FALSE) /\ UNCHANGED mem
  \/ /\ Step /\ Current.op = "atom"
     /\ \E v \in BOOLEAN : Write(Current.node, {v}) /\ Happens(Current.node, v)
  \/ /\ Step /\ Current.op = "set"
     /\ Happens(Current.node, Value(Current.slot)) /\ UNCHANGED mem
  \/ /\ Step /\ Current.op \in {"alloca", "false", "true", "copy", "not"}
     /\ Write(Current.node, CASE Current.op = "alloca" -> {}
                              [] Current.op \in {"false", "true"} -> {Current.op = "true"}
                              [] Current.op = "copy" -> {Value(Current.slot)}
                              [] Current.op = "not" -> {~Value(Current.slot)})
     /\ UNCHANGED event
  \/ /\ phase = "run" /\ Current.op \in {"br", "condbr"}
     /\ Go(IF Current.op = "br" \/ Value(Current.slot) THEN Current.to[1] ELSE Current.to[2], 1)
     /\ UNCHANGED <<mem, event>>
  \/ /\ phase = "run" /\ Current.op = "ret"
     /\ phase' = "returned"
     /\ IF Current.slot # 0 THEN Happens(Current.node, Value(Current.slot))
        ELSE Happens(Current.node, Current.node = 0)
     /\ UNCHANGED <<build, at, mem>>

Exit == phase \in {"returned", "error"} /\ UNCHANGED vars

Next ==
  \/ CallStatement \/ ReturnVoid \/ ValueStatement \/ Conditional \/ While \/ Break
  \/ Operand \/ ShortCircuit \/ BooleanNot
  \/ ConditionDone \/ LeftDone \/ RightDone \/ NotDone \/ ValueDone
  \/ ThenEnds \/ ElseEnds \/ WhileEnds \/ FunctionEnds
  \/ Execute \/ Exit

Spec == Init /\ [][Next]_vars
-----------------------------------------------------------------------------
\* The blocks mean what the statements do: the function executes the leaves of
\* its syntax tree in the order of the structured program, with the values
\* short circuits give them (cg-inst.c:161-290, cg-operator.c:147-297).
Source == INSTANCE StructuredProgram
RunsAsWritten == Source!StructuredSpec

\* Every block ends in a terminator.  One stands before its end only where the
\* program has a statement after a return: the generator goes on in the same
\* block, and LLVM's verifier rejects the module with a warning.
OneTerminator ==
  phase \in {"run", "returned"} =>
    \A b \in 1..Len(blocks) :
      /\ Terminated(blocks, b)
      /\ \A k \in 1 .. Len(blocks[b]) - 1 : blocks[b][k].op \in Terminators =>
           \E m \in 1..k : /\ blocks[b][m].op = "ret"
                           /\ \E j \in 1..Len(nodes) :
                                /\ j > blocks[b][m].node
                                /\ nodes[j].parent = nodes[blocks[b][m].node].parent
                                /\ nodes[j].role = nodes[blocks[b][m].node].role

\* Every block created for a statement becomes a block of the function, once,
\* and no branch leaves the function.
AllPlaced ==
  phase \in {"run", "returned"} =>
    Len(layout) = Len(blocks) /\ {layout[k] : k \in 1..Len(layout)} = 1..Len(blocks)

\* A stack slot is allocated once per call of the function, in loops too, and
\* no slot is read before a value was stored in it (cg-helpers.c:378-410).
SlotsReady ==
  phase = "run" =>
    /\ Current.op = "alloca" => Current.node \notin DOMAIN mem
    /\ Current.op \in {"atom", "false", "true", "copy", "not"} => Current.node \in DOMAIN mem
    /\ Current.slot # 0 => Current.slot \in DOMAIN mem /\ mem[Current.slot] # {}
=============================================================================
