------------------------------- MODULE Derivation -------------------------------
(***************************************************************************)
(* What the grammar promises of a text: it is a program when its tokens    *)
(* can be reduced to a statement_list.  `forest' is what has been          *)
(* recognised of the text read so far.                                     *)
(***************************************************************************)
EXTENDS Naturals, Sequences, Grammar

VARIABLES read,     \* the tokens read
          forest,   \* the symbols they have been reduced to
          accepted  \* the text is a program
-----------------------------------------------------------------------------
Init == read = << >> /\ forest = << >> /\ accepted = FALSE

\* The next token of the text is read.
Shift == /\ ~accepted
         /\ \E t \in Tokens : read' = Append(read, t) /\ forest' = Append(forest, t)
         /\ UNCHANGED accepted

\* The last symbols of the forest are what a rule says.
Reduce == /\ ~accepted
          /\ \E rule \in Rules, from \in 0..Len(forest) :
               /\ forest' = Append(SubSeq(forest, 1, from), rule)
               /\ SubSeq(forest, from + 1, Len(forest)) \in Productions[rule]
          /\ UNCHANGED <<read, accepted>>

\* One statement_list is left: what was read is a program.
Accept == /\ ~accepted /\ forest = <<"statement_list">> /\ accepted'
          /\ UNCHANGED <<read, forest>>

DerivationSpec == Init /\ [][Shift \/ Reduce \/ Accept]_<<read, forest, accepted>>
=============================================================================
