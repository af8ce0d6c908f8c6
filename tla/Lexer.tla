-------------------------------- MODULE Lexer --------------------------------
(***************************************************************************)
(* The lexer, src/src/parser/lexer.c: one scan of the file from a position *)
(* to a token, and the two-token lookahead buffer in front of it.          *)
(*                                                                         *)
(* A character is a member of a small set of classes.  "i" and "f" spell   *)
(* the one keyword kept; "n" is also an escape.  A token keeps its type,   *)
(* the positions it spans and its line; its lexeme is the text in between. *)
(***************************************************************************)
EXTENDS Naturals, Sequences, FiniteSets

CONSTANTS Chars,    \* the characters source files are made of
          MaxLength \* bound on the length of a source file

\* The end of a file, WEOF, is not a character of it.
ASSUME CharsAssumption == "eof" \notin Chars

VARIABLES text,      \* the source file
          pos,       \* next character to read
          line,      \* lexer_state.current_line
          peeked,    \* lexer_state.peeked, without the NULL entries
          delivered  \* tokens lexer_gettoken has returned

vars == <<text, pos, line, peeked, delivered>>

Letters   == {"i", "f", "n"}
Digits    == {"0"}
Word      == Letters \cup Digits \cup {"_"}
Blanks    == {" ", "newline", "return"}
OneChar   == {"(", "+", ";"}
Keywords  == {<<"i", "f">>}
Escapes(quote) == {"backslash", "n", "0", quote}
\* the tokens of two characters; the first one alone is a token too, but "|"
Pairs == {<<"-", ">">>, <<"&", "&">>, <<"|", "|">>} \cup ({"=", "!", "<", ">"} \X {"="})
-----------------------------------------------------------------------------
At(t, i) == IF i <= Len(t) THEN t[i] ELSE "eof"

Least(S) == CHOOSE i \in S : \A j \in S : i <= j

Newlines(t, i, j) ==   \* newline characters in t[i .. j - 1]
  LET count[k \in i - 1 .. Len(t)] ==
        IF k < i THEN 0 ELSE count[k - 1] + (IF t[k] = "newline" THEN 1 ELSE 0)
  IN count[j - 1]

\* A comment runs to the end of its line, which may be a carriage return.
AfterComment_newline(t, i) ==   \* mutant: only a newline ends it
  Least({j + 1 : j \in {k \in i..Len(t) : t[k] = "newline"}} \cup {Len(t) + 1})
AfterComment(t, i) ==
  Least({j + 1 : j \in {k \in i..Len(t) : t[k] \in {"newline", "return"}}}
          \cup {Len(t) + 1})

\* The first position that is neither white space nor in a comment.
skip_whitespace_comments(t, from) ==
  LET skip[i \in 1 .. Len(t) + 1] ==
        IF At(t, i) \in Blanks THEN skip[i + 1]
        ELSE IF At(t, i) = "#" THEN skip[AfterComment(t, i)]
        ELSE i
  IN skip[from]

Cap_none(t, i) == i   \* mutant: the position runs past the end
Cap(t, i) == IF i <= Len(t) + 1 THEN i ELSE Len(t) + 1  \* no reading past the end

\* The result of a token function: its type and where the next scan starts.
Found(tt, to) == [tt |-> tt, to |-> to]

handle_strings_plain(t, from) ==   \* mutant: a backslash does not escape a quote
  LET to == Least({k \in from .. Len(t) + 1 : At(t, k) \in {"quote", "eof"}})
  IN IF At(t, to) = "eof" THEN Found("ERROR", to) ELSE Found("STRING_LITERAL", to + 1)

\* From the character after the quote; a wrong escape or the end of the file
\* is an error, and what was read stays read.
handle_strings(t, from) ==
  LET read[i \in 1 .. Len(t) + 1] ==
        CASE At(t, i) = "eof" -> Found("ERROR", i)
          [] At(t, i) = "quote" -> Found("STRING_LITERAL", i + 1)
          [] At(t, i) = "backslash" -> IF At(t, i + 1) \in Escapes("quote")
                                THEN read[i + 2]
                                ELSE Found("ERROR", Cap(t, i + 2))
          [] OTHER -> read[i + 1]
  IN read[from]

handle_char_literal_next(t, from) ==   \* mutant: reads until the next quote
  LET to == Least({k \in from .. Len(t) + 1 : At(t, k) \in {"'", "eof"}})
  IN IF At(t, to) = "eof" THEN Found("ERROR", to) ELSE Found("CHAR_LITERAL", to + 1)

handle_char_literal(t, from) ==
  LET escaped == At(t, from) = "backslash"
      next    == IF escaped THEN from + 2 ELSE from + 1
  IN IF At(t, from) = "eof" THEN Found("ERROR", from)
     ELSE IF escaped /\ At(t, from + 1) \notin Escapes("'")
          THEN Found("ERROR", Cap(t, next))
          ELSE Found(IF At(t, next) = "'" THEN "CHAR_LITERAL" ELSE "ERROR",
                     Cap(t, next + 1))

general_case_letters(t, from) ==   \* mutant: an identifier ends at a digit
  LET to == Least({i \in from .. Len(t) + 1 : At(t, i) \notin Letters})
  IN Found(IF to > from THEN "ID" ELSE "ERROR", to)

\* The longest run of word characters.  A run that is no word (a number with
\* letters) is an error; an unknown character gives an empty one, and the
\* position stays where it was.
general_case(t, from) ==
  LET to == Least({i \in from .. Len(t) + 1 : At(t, i) \notin Word})
      w  == SubSeq(t, from, to - 1)
  IN Found(CASE w \in Keywords -> "KEYWORD"
             [] w # << >> /\ t[from] \in Word \ Digits -> "ID"
             [] w # << >> /\ \A i \in 1..Len(w) : w[i] \in Digits -> "NUMBER"
             [] OTHER -> "ERROR",
           to)

lexer_gettoken_internal(t, p) ==
  LET c1 == At(t, p)
      c2 == At(t, p + 1)
      pair == {q \in Pairs : q[1] = c1}
  IN CASE c1 = "eof"        -> Found("EOF", p)
       [] c1 \in OneChar    -> Found(c1, p + 1)
       [] c1 = "quote"      -> handle_strings(t, p + 1)
       [] c1 = "'"          -> handle_char_literal(t, p + 1)
       [] <<c1, c2>> \in pair -> Found("PAIR" , p + 2)
       [] pair # {} /\ <<c1, c2>> \notin pair ->
            Found(IF c1 = "|" THEN "ERROR" ELSE c1, p + 1)
       [] OTHER             -> general_case(t, p)

\* One scan: the blanks, counting their newlines, then the token.
Token(t, from, ln) ==
  LET p == skip_whitespace_comments(t, from)
      f == lexer_gettoken_internal(t, p)
  IN [tt |-> f.tt, from |-> p, to |-> f.to, line |-> ln + Newlines(t, from, p)]
-----------------------------------------------------------------------------
Files == UNION {[1..n -> Chars] : n \in 0..MaxLength}

Init ==
  /\ text \in Files
  /\ pos = 1 /\ line = 1
  /\ peeked = << >> /\ delivered = << >>

\* The callers stop at an error or at the end of the file.
Stopped == /\ delivered # << >>
           /\ delivered[Len(delivered)].tt \in {"EOF", "ERROR"}

Advance_pos(token) == pos' = token.to /\ UNCHANGED line     \* mutant
Advance_line(token) == line' = token.line /\ UNCHANGED pos  \* mutant: it seeks back
Advance(token) == pos' = token.to /\ line' = token.line

\* lexer_peek(context, lookahead) for a token that is not in the buffer yet:
\* it is scanned, after those before it.
lexer_peek ==
  /\ ~Stopped
  /\ \E lookahead \in 1..2 :
       /\ Len(peeked) < lookahead
       /\ LET first  == Token(text, pos, line)
              second == Token(text, first.to, first.line)
          IN IF lookahead - Len(peeked) = 1
             THEN peeked' = Append(peeked, first) /\ Advance(first)
             ELSE peeked' = <<first, second>> /\ Advance(second)
  /\ UNCHANGED <<text, delivered>>

lexer_gettoken_buffer ==   \* mutant: only the buffer is served
  /\ ~Stopped /\ peeked # << >>
  /\ delivered' = Append(delivered, Head(peeked))
  /\ peeked' = Tail(peeked)
  /\ UNCHANGED <<text, pos, line>>

lexer_gettoken ==
  /\ ~Stopped
  /\ \/ /\ peeked # << >>
        /\ delivered' = Append(delivered, Head(peeked))
        /\ peeked' = Tail(peeked)
        /\ UNCHANGED <<pos, line>>
     \/ /\ peeked = << >>
        /\ LET token == Token(text, pos, line)
           IN delivered' = Append(delivered, token) /\ Advance(token)
        /\ UNCHANGED peeked
  /\ UNCHANGED text

Exit == Stopped /\ UNCHANGED vars

Next == lexer_peek \/ lexer_gettoken \/ Exit

Spec == Init /\ [][Next]_vars

\* The lexer tool asks for the next token until it stops.
FairSpec == Spec /\ WF_vars(lexer_gettoken)
-----------------------------------------------------------------------------
Stream == INSTANCE TokenStream

\* The caller gets the same tokens however it peeks: the buffer and the
\* position that runs ahead of it are an implementation of the plain stream
\* (lexer.c:36-50 and 262-271).
LookaheadIsTransparent == Stream!StreamSpec

\* Why: the buffer holds the next tokens, and the position is behind them.
Buffered ==
  LET first  == Token(text, Stream!From, Stream!Line)
      second == Token(text, first.to, first.line)
  IN \/ peeked = << >> /\ pos = Stream!From /\ line = Stream!Line
     \/ peeked = <<first>> /\ pos = first.to /\ line = first.line
     \/ peeked = <<first, second>> /\ pos = second.to /\ line = second.line

TokenTypes == {"EOF", "ERROR", "ID", "NUMBER", "KEYWORD", "STRING_LITERAL",
               "CHAR_LITERAL", "PAIR"} \cup OneChar \cup {q[1] : q \in Pairs}
TokenRecord == [tt : TokenTypes, from : Nat, to : Nat, line : Nat]

TypeOK == /\ text \in Seq(Chars)
          /\ pos \in 1 .. Len(text) + 1 /\ line \in Nat
          /\ peeked \in Seq(TokenRecord) /\ Len(peeked) <= 2
          /\ delivered \in Seq(TokenRecord)

\* The token language of lexer.c, stated apart from the scanner: which texts are tokens.
\* doc/PeblLexer.g4 has more literals (see PlainLiteralsAsDocumented).
EscapedIn(w, i) ==   \* an odd number of backslashes stands before w[i]
  \E j \in 1 .. i - 1 : /\ (i - j) % 2 = 1
                        /\ \A k \in j .. i - 1 : w[k] = "backslash"
                        /\ j = 1 \/ w[j - 1] # "backslash"
Quoted(w, q) ==
  /\ Len(w) >= 2 /\ w[1] = q /\ w[Len(w)] = q /\ ~EscapedIn(w, Len(w))
  /\ \A i \in 2 .. Len(w) - 1 : EscapedIn(w, i) => w[i] \in Escapes(q)
IsToken(w) ==
  \/ Len(w) = 1 /\ w[1] \in OneChar \cup ({p[1] : p \in Pairs} \ {"|"})
  \/ w \in Pairs
  \/ w # << >> /\ \A i \in 1..Len(w) : w[i] \in Word /\ (w[1] \in Digits => w[i] \in Digits)
  \/ Quoted(w, "quote") /\ \A i \in 2 .. Len(w) - 1 : w[i] = "quote" => EscapedIn(w, i)
  \/ Quoted(w, "'") /\ Len(w) = (IF w[2] = "backslash" THEN 4 ELSE 3)

\* A token is the longest text that is one; an error is no token's text, or
\* the start of a run of word characters that is none (lexer.c:272-411).
LongestToken ==
  \A k \in 1..Len(delivered) :
    LET d == delivered[k]
        prefix(q) == SubSeq(text, d.from, q)
        tokens == {q \in d.from .. Len(text) : IsToken(prefix(q))}
    IN CASE d.tt = "EOF"   -> d.from = Len(text) + 1
         [] d.tt = "ERROR" -> \A q \in tokens : text[q] \in Word /\ At(text, q + 1) \in Word
         [] OTHER          -> d.to - 1 \in tokens /\ \A q \in tokens : q < d.to

\* CHAR_LITERAL and STRING_LITERAL of doc/PeblLexer.g4:42-43: any character, with or
\* without a backslash before it; anything but a quote.
DocumentedLiteral(w) ==
  /\ Len(w) >= 2 /\ w[1] = w[Len(w)]
  /\ \/ w[1] = "'" /\ (Len(w) = 3 \/ (Len(w) = 4 /\ w[2] = "backslash"))
     \/ w[1] = "quote" /\ \A i \in 2 .. Len(w) - 1 : w[i] # "quote"

\* A literal of the documentation without a backslash in it is the token the scanner
\* finds, whole. With one it need not be: an escape must be one of five, a lone
\* backslash is none, and an escaped quote ends no literal (lexer.c:135-203).
PlainLiteralsAsDocumented ==
  \A k \in 1..Len(delivered) :
    LET d == delivered[k]
        prefix(q) == SubSeq(text, d.from, q)
    IN \A q \in d.from .. Len(text) :
         (DocumentedLiteral(prefix(q)) /\ \A i \in d.from .. q : text[i] # "backslash") =>
           /\ d.tt = (IF text[q] = "'" THEN "CHAR_LITERAL" ELSE "STRING_LITERAL")
           /\ d.to = q + 1

\* Between two tokens only white space and comments are dropped, and a
\* comment does not reach into the next line (lexer.c:108-131).
OnlyBlanksDropped ==
  \A k \in 1..Len(delivered) :
    LET start == IF k = 1 THEN 1 ELSE delivered[k - 1].to
    IN /\ At(text, delivered[k].from) \notin Blanks \cup {"#"}
       /\ \A i \in start .. delivered[k].from - 1 :
            \/ text[i] \in Blanks
            \/ \E h \in start..i : /\ text[h] = "#"
                                   /\ \A j \in h..i : text[j] \notin {"newline", "return"}

\* The line of a token is the one it stands on, however far the caller has
\* looked ahead, but for the newlines inside literals, which no one counts.
LineOfToken ==
  \A k \in 1..Len(delivered) :
    LET inLiteral(i) == \E j \in 1 .. k - 1 :
                          i \in delivered[j].from .. delivered[j].to - 1
        counted == {i \in 1 .. delivered[k].from - 1 :
                      text[i] = "newline" /\ ~inLiteral(i)}
    IN delivered[k].line = 1 + Cardinality(counted)

\* Every scan loop ends: no text keeps the lexer from its end or an error.
ScanEnds == <>Stopped
=============================================================================
