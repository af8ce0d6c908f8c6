----------------------------- MODULE TokenStream -----------------------------
(***************************************************************************)
(* What the lexer promises its callers (src/src/tool/lexer/main.c and the  *)
(* parser): the tokens of the file, one after the other, each as a scan    *)
(* from the end of the last one reads it.  No lookahead, no position.      *)
(***************************************************************************)
EXTENDS Naturals, Sequences

CONSTANTS Token(_, _, _) \* Token(text, from, line): what one scan returns

VARIABLES text,      \* the source file
          delivered  \* the tokens the caller has been given

\* A scan starts where the last one stopped, on the line it ended on.
Last == delivered[Len(delivered)]
From == IF delivered = << >> THEN 1 ELSE Last.to
Line == IF delivered = << >> THEN 1 ELSE Last.line

StreamInit == delivered = << >>

Deliver == /\ delivered' = Append(delivered, Token(text, From, Line))
           /\ UNCHANGED text

StreamSpec == StreamInit /\ [][Deliver]_<<text, delivered>>
=============================================================================
