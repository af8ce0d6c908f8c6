----------------------------- MODULE LexerProofs -----------------------------
(***************************************************************************)
(* The lookahead buffer of the lexer implements the plain token stream,    *)
(* whatever the scanner is: the first part does not look into Token. The   *)
(* second part is about what the scanner computes.                         *)
(***************************************************************************)
EXTENDS Lexer, FiniteSetTheorems, SequenceTheorems, WellFoundedInduction, TLAPS

\* The tokens delivered form a sequence, over some set of tokens.
IsSequence(s) == \E S : s \in Seq(S)

\* A sequence of tokens with one more is a sequence, and ends in it.
LEMMA AppendIsSequence ==
  ASSUME NEW s, IsSequence(s), NEW e
  PROVE  /\ IsSequence(Append(s, e))
         /\ Append(s, e) # << >>
         /\ Append(s, e)[Len(Append(s, e))] = e
<1>1. PICK S : s \in Seq(S)
  BY DEF IsSequence
<1>2. s \in Seq(S \cup {e})
  BY <1>1
<1>3. Append(s, e) \in Seq(S \cup {e})
  BY <1>2
<1>4. QED
  BY <1>2, <1>3 DEF IsSequence

\* What a caller has and what the buffer holds are the plain stream so far.
IInv == IsSequence(delivered) /\ Buffered

\* The stream's position and line after one more token are that token's.
LEMMA FromAfterAppend ==
  ASSUME IsSequence(delivered), NEW e, delivered' = Append(delivered, e)
  PROVE  /\ (Stream!From)' = e.to
         /\ (Stream!Line)' = e.line
         /\ IsSequence(delivered)'
<1>1. /\ IsSequence(delivered')
      /\ delivered' # << >>
      /\ delivered'[Len(delivered')] = e
  BY AppendIsSequence
<1>2. QED
  BY <1>1 DEF Stream!From, Stream!Line, Stream!Last, IsSequence

\* Nothing is delivered and nothing buffered at first (lexer_init).
LEMMA InitIInv == Init => IInv
<1> SUFFICES ASSUME Init PROVE IInv
  OBVIOUS
<1>1. IsSequence(delivered)
  BY DEF Init, IsSequence
<1>2. QED
  BY <1>1 DEF Init, IInv, Buffered, Stream!From, Stream!Line

\* A peek fills the buffer with the next tokens of the stream and delivers
\* nothing (lexer_peek).
LEMMA PeekIInv == IInv /\ lexer_peek => IInv'
<1> SUFFICES ASSUME IInv, lexer_peek PROVE IInv'
  OBVIOUS
<1> DEFINE first  == Token(text, Stream!From, Stream!Line)
           second == Token(text, first.to, first.line)
<1>1. /\ (Stream!From)' = Stream!From
      /\ (Stream!Line)' = Stream!Line
      /\ text' = text
      /\ IsSequence(delivered)'
  BY DEF lexer_peek, Stream!From, Stream!Line, Stream!Last, IInv, IsSequence
<1>2. CASE peeked = << >>
  <2> DEFINE next == Token(text, pos, line)
  <2>1. next = first
    BY <1>2 DEF IInv, Buffered
  <2>2. \/ peeked' = <<first>> /\ pos' = first.to /\ line' = first.line
        \/ peeked' = <<first, second>> /\ pos' = second.to /\ line' = second.line
    BY <1>2, <2>1 DEF lexer_peek, Advance
  <2>3. QED
    BY <1>1, <2>2 DEF IInv, Buffered
<1>3. CASE peeked = <<first>> /\ pos = first.to /\ line = first.line
  <2>1. peeked' = <<first, second>> /\ pos' = second.to /\ line' = second.line
    BY <1>3 DEF lexer_peek, Advance
  <2>2. QED
    BY <1>1, <2>1 DEF IInv, Buffered
<1>4. CASE peeked = <<first, second>>
  BY <1>4 DEF lexer_peek
<1>5. QED
  BY <1>2, <1>3, <1>4 DEF IInv, Buffered

\* A token that leaves the buffer, or the file, is the stream's next one.
LEMMA GetIInv ==
  IInv /\ lexer_gettoken =>
    /\ IInv'
    /\ delivered' = Append(delivered, Token(text, Stream!From, Stream!Line))
<1> SUFFICES ASSUME IInv, lexer_gettoken
             PROVE  /\ IInv'
                    /\ delivered' = Append(delivered, Token(text, Stream!From, Stream!Line))
  OBVIOUS
<1> DEFINE first  == Token(text, Stream!From, Stream!Line)
           second == Token(text, first.to, first.line)
<1>1. delivered' = Append(delivered, first) /\ text' = text
  <2>1. CASE peeked = << >> /\ pos = Stream!From /\ line = Stream!Line
    BY <2>1 DEF lexer_gettoken
  <2>2. CASE peeked = <<first>>
    BY <2>2 DEF lexer_gettoken
  <2>3. CASE peeked = <<first, second>>
    BY <2>3 DEF lexer_gettoken
  <2>4. QED
    BY <2>1, <2>2, <2>3 DEF IInv, Buffered
<1>2. (Stream!From)' = first.to /\ (Stream!Line)' = first.line /\ IsSequence(delivered)'
  <2> HIDE DEF first
  <2> QED BY <1>1, FromAfterAppend DEF IInv
<1>3. CASE peeked = << >> /\ pos = Stream!From /\ line = Stream!Line
  <2>1. peeked' = << >> /\ pos' = first.to /\ line' = first.line
    BY <1>3 DEF lexer_gettoken, Advance
  <2>2. QED
    BY <1>1, <1>2, <2>1 DEF IInv, Buffered
<1>4. CASE peeked = <<first>> /\ pos = first.to /\ line = first.line
  <2>1. peeked' = << >> /\ pos' = first.to /\ line' = first.line
    BY <1>4 DEF lexer_gettoken
  <2>2. QED
    BY <1>1, <1>2, <2>1 DEF IInv, Buffered
<1>5. CASE peeked = <<first, second>> /\ pos = second.to /\ line = second.line
  <2>1. peeked' = <<second>> /\ pos' = second.to /\ line' = second.line
    BY <1>5 DEF lexer_gettoken
  <2>2. second = Token(text, Stream!From, Stream!Line)'
    BY <1>1, <1>2
  <2>3. QED
    BY <1>1, <1>2, <2>1, <2>2 DEF IInv, Buffered
<1>6. QED
  BY <1>1, <1>3, <1>4, <1>5 DEF IInv, Buffered

\* Every call of the lexer keeps the buffer invariant.
LEMMA StepIInv == IInv /\ [Next]_vars => IInv'
<1> SUFFICES ASSUME IInv, [Next]_vars PROVE IInv'
  OBVIOUS
<1>1. CASE lexer_peek
  BY <1>1, PeekIInv
<1>2. CASE lexer_gettoken
  BY <1>2, GetIInv
<1>3. CASE UNCHANGED vars
  BY <1>3 DEF IInv, Buffered, IsSequence, vars, Stream!From, Stream!Line, Stream!Last
<1>4. QED
  BY <1>1, <1>2, <1>3 DEF Next, Exit

\* The buffer always holds the next tokens of the plain stream, in order, and
\* the position of the file stands behind them (lexer.c:36-50, 262-271).
THEOREM BufferInvariant == Spec => []Buffered
<1>1. Spec => []IInv
  BY InitIInv, StepIInv, PTL DEF Spec
<1>2. IInv => Buffered
  BY DEF IInv
<1>3. QED
  BY <1>1, <1>2, PTL

\* The lexer with its lookahead implements the plain token stream: whatever
\* the parser peeks, every token it gets is the next one of the file.
THEOREM Transparency == Spec => LookaheadIsTransparent
<1>1. Init => Stream!StreamInit
  BY DEF Init, Stream!StreamInit
<1>2. IInv /\ [Next]_vars => [Stream!Deliver]_<<text, delivered>>
  <2> SUFFICES ASSUME IInv, [Next]_vars PROVE [Stream!Deliver]_<<text, delivered>>
    OBVIOUS
  <2>1. CASE lexer_peek
    BY <2>1 DEF lexer_peek
  <2>2. CASE lexer_gettoken
    BY <2>2, GetIInv DEF Stream!Deliver, lexer_gettoken
  <2>3. CASE UNCHANGED vars
    BY <2>3 DEF vars
  <2>4. QED
    BY <2>1, <2>2, <2>3 DEF Next, Exit
<1>3. QED
  BY <1>1, <1>2, InitIInv, StepIInv, PTL DEF Spec, LookaheadIsTransparent, Stream!StreamSpec
-----------------------------------------------------------------------------
(* Induction over positions: a nonempty set of numbers has a least one,    *)
(* because its initial segments are finite sets.                           *)

LEMMA LeastElement ==
  ASSUME NEW T, T \subseteq Nat, T # {}
  PROVE  \E x \in T : \A y \in T : x <= y
<1>1. PICK n : n \in T
  OBVIOUS
<1> DEFINE S == 0..n
           U == {0..m : m \in T \cap S}
           R == StrictSubsetOrdering(S)
<1>2. n \in Nat /\ IsFiniteSet(S)
  BY <1>1, FS_Interval
<1>3. IsWellFoundedOn(R, SUBSET S)
  BY <1>2, FS_StrictSubsetOrderingWellFounded, FS_FiniteSubsetsOfFinite
<1>4. U \subseteq SUBSET S /\ U # {}
  BY <1>1, <1>2
<1>5. PICK u \in U : \A v \in U : ~(<<v, u>> \in R)
  <2> HIDE DEF R, U, S
  <2> QED
    BY <1>3, <1>4, WFMin
<1>6. PICK m \in T \cap S : u = 0..m
  OBVIOUS
<1>7. ASSUME NEW y \in T, ~(m <= y)
      PROVE  FALSE
  <2>1. y \in T \cap S /\ y \in Nat /\ m \in Nat /\ y < m
    BY <1>2, <1>6, <1>7
  <2>2. 0..y \in U /\ 0..y \subseteq 0..m /\ m \notin 0..y /\ m \in 0..m
    BY <2>1
  <2>3. <<0..y, u>> \in R
    BY <1>2, <1>6, <2>1, <2>2 DEF StrictSubsetOrdering
  <2> QED
    BY <1>5, <2>2, <2>3
<1>8. QED
  BY <1>6, <1>7

\* What Least chooses.
LEMMA LeastOf ==
  ASSUME NEW T, T \subseteq Nat, T # {}
  PROVE  Least(T) \in T /\ \A y \in T : Least(T) <= y
<1>1. \E x \in T : \A y \in T : x <= y
  BY LeastElement
<1>2. QED
  BY <1>1 DEF Least

\* What holds of each number if of all smaller (larger) ones holds of all.
LEMMA Upward ==
  ASSUME NEW a \in Nat, NEW n \in Nat, NEW G,
         \A i \in a..n : (\A j \in a .. i - 1 : j \in G) => i \in G
  PROVE  a..n \subseteq G
<1> SUFFICES ASSUME (a..n) \ G # {} PROVE FALSE
  OBVIOUS
<1> DEFINE T == (a..n) \ G
<1>1. T \subseteq Nat /\ T # {}
  OBVIOUS
<1>2. PICK x \in T : \A y \in T : x <= y
  <2> HIDE DEF T
  <2> QED
    BY <1>1, LeastElement
<1>3. \A j \in a .. x - 1 : j \in G
  BY <1>2
<1>4. QED
  BY <1>3

LEMMA Downward ==
  ASSUME NEW a \in Nat, NEW n \in Nat, NEW G,
         \A i \in a..n : (\A j \in i + 1 .. n : j \in G) => i \in G
  PROVE  a..n \subseteq G
<1> DEFINE H == {k \in 0..n : n - k \in a..n => n - k \in G}
<1>1. \A k \in 0..n : (\A j \in 0 .. k - 1 : j \in H) => k \in H
  <2> SUFFICES ASSUME NEW k \in 0..n, \A j \in 0 .. k - 1 : j \in H, n - k \in a..n
               PROVE  n - k \in G
    OBVIOUS
  <2>1. \A j \in (n - k) + 1 .. n : j \in G
    <3> SUFFICES ASSUME NEW j \in (n - k) + 1 .. n PROVE j \in G
      OBVIOUS
    <3>1. n - j \in 0 .. k - 1 /\ n - (n - j) = j /\ j \in a..n
      OBVIOUS
    <3>2. n - j \in H
      BY <3>1
    <3> QED
      BY <3>1, <3>2
  <2> QED
    BY <2>1
<1>2. 0..n \subseteq H
  <2> HIDE DEF H
  <2> QED
    BY <1>1, Upward
<1>3. \A i \in a..n : n - i \in 0..n /\ n - (n - i) = i
  OBVIOUS
<1>4. QED
  BY <1>2, <1>3

\* A scan is a function that, in D, goes on at a later position.
IsScan(n, D, s, g, f) == f = [i \in 1..n |-> IF i \in D THEN f[s[i]] ELSE g[i]]
\* There is such a function, and so what the scanner's LETs define is one.
LEMMA ScanExists ==
  ASSUME NEW n \in Nat, NEW D, NEW s, NEW g,
         \A i \in D \cap (1..n) : s[i] \in 1..n /\ s[i] > i
  PROVE  \E f : IsScan(n, D, s, g, f)
<1> DEFINE G == {k \in 0..n : \E f : f = [i \in n - k + 1 .. n |-> IF i \in D THEN f[s[i]] ELSE g[i]]}
<1>1. \A k \in 0..n : (\A j \in 0 .. k - 1 : j \in G) => k \in G
  <2> SUFFICES ASSUME NEW k \in 0..n, \A j \in 0 .. k - 1 : j \in G
               PROVE  \E f : f = [i \in n - k + 1 .. n |-> IF i \in D THEN f[s[i]] ELSE g[i]]
    OBVIOUS
  <2>1. CASE k = 0
    <3> DEFINE f == [i \in {} |-> 0]
    <3>1. n - k + 1 .. n = {}
      BY <2>1
    <3>2. f = [i \in n - k + 1 .. n |-> IF i \in D THEN f[s[i]] ELSE g[i]]
      BY <3>1
    <3> QED
      BY <3>2
  <2>2. CASE k # 0
    <3> DEFINE m == n - k + 1
    <3>1. m \in 1..n /\ k - 1 \in 0 .. k - 1 /\ n - (k - 1) + 1 = m + 1
      BY <2>2
    <3>2. PICK h : h = [i \in m + 1 .. n |-> IF i \in D THEN h[s[i]] ELSE g[i]]
      BY <3>1
    <3> DEFINE f == [i \in m..n |-> IF i = m THEN (IF m \in D THEN h[s[m]] ELSE g[m]) ELSE h[i]]
               e == [i \in m..n |-> IF i \in D THEN f[s[i]] ELSE g[i]]
    <3> HIDE DEF m
    <3>3. \A i \in m..n : i \in D => s[i] \in m + 1 .. n /\ f[s[i]] = h[s[i]]
      BY <3>1, SMTT(60)
    <3>4. \A i \in m..n : f[i] = e[i]
      <4> SUFFICES ASSUME NEW i \in m..n PROVE f[i] = e[i]
        OBVIOUS
      <4>1. CASE i = m
        BY <4>1, <3>1, <3>3
      <4>2. CASE i # m
        <5>1. i \in m + 1 .. n
          BY <4>2, <3>1
        <5>2. h[i] = IF i \in D THEN h[s[i]] ELSE g[i]
          BY <5>1, <3>2
        <5> QED
          BY <4>2, <5>2, <3>3
      <4> QED
        BY <4>1, <4>2
    <3>5. f = e
      BY <3>4
    <3> QED
      BY <3>5 DEF m
  <2> QED
    BY <2>1, <2>2
<1>2. 0..n \subseteq G
  <2> HIDE DEF G
  <2> QED
    BY <1>1, Upward
<1>3. n - n + 1 = 1 /\ n \in 0..n
  OBVIOUS
<1>4. QED
  BY <1>2, <1>3 DEF IsScan
-----------------------------------------------------------------------------
(* The blanks and comments in front of a token.                            *)

\* A character that is not the end stands in the text.
LEMMA AtEnd ==
  ASSUME NEW t, Len(t) \in Nat, NEW i \in Nat \ {0}, At(t, i) # "eof"
  PROVE  i \in 1..Len(t) /\ At(t, i) = t[i]
BY DEF At

\* A comment is passed, and only its last character ends a line.
LEMMA AfterCommentIs ==
  ASSUME NEW t, Len(t) \in Nat, NEW i \in 1..Len(t)
  PROVE  /\ AfterComment(t, i) \in i + 1 .. Len(t) + 1
         /\ \A k \in i .. AfterComment(t, i) - 2 : t[k] \notin {"newline", "return"}
<1> DEFINE E == {k \in i..Len(t) : t[k] \in {"newline", "return"}}
           S == {j + 1 : j \in E} \cup {Len(t) + 1}
<1>1. S \subseteq Nat /\ S # {}
  OBVIOUS
<1>2. Least(S) \in S /\ \A y \in S : Least(S) <= y
  <2> HIDE DEF S
  <2> QED
    BY <1>1, LeastOf
<1>3. AfterComment(t, i) = Least(S)
  BY DEF AfterComment
<1> DEFINE a == Least(S)
<1>4. a \in S /\ \A y \in S : a <= y
  BY <1>2
<1> HIDE DEF a
<1>5. a \in i + 1 .. Len(t) + 1
  BY <1>4
<1>6. ASSUME NEW k \in i .. a - 2, t[k] \in {"newline", "return"} PROVE FALSE
  <2>1. k \in E
    BY <1>5, <1>6
  <2>2. k + 1 \in S
    BY <2>1
  <2>3. a <= k + 1
    <3> HIDE DEF S
    <3> QED
      BY <2>2, <1>4
  <2> QED
    BY <2>3, <1>5, <1>6
<1>7. QED
  BY <1>3, <1>5, <1>6 DEF a

\* t[i] is white space, or stands in a comment that begins at or behind start.
Dropped(t, start, i) ==
  \/ t[i] \in Blanks
  \/ \E h \in start..i : /\ t[h] = "#"
                         /\ \A j \in h..i : t[j] \notin {"newline", "return"}
\* f is the recursive function in skip_whitespace_comments.
SkipIs(t, f) ==
  f = [i \in 1 .. Len(t) + 1 |->
        IF At(t, i) \in Blanks THEN f[i + 1]
        ELSE IF At(t, i) = "#" THEN f[AfterComment(t, i)]
        ELSE i]

LEMMA SkipExists ==
  ASSUME NEW t, Len(t) \in Nat
  PROVE  \E f : SkipIs(t, f)
<1> DEFINE n == Len(t) + 1
           D == {i \in 1..n : At(t, i) \in Blanks \cup {"#"}}
           s == [i \in 1..n |-> IF At(t, i) \in Blanks THEN i + 1 ELSE AfterComment(t, i)]
           g == [i \in 1..n |-> i]
<1>1. \A i \in D \cap (1..n) : s[i] \in 1..n /\ s[i] > i
  <2> SUFFICES ASSUME NEW i \in D \cap (1..n) PROVE s[i] \in 1..n /\ s[i] > i
    OBVIOUS
  <2>1. At(t, i) # "eof"
    BY DEF Blanks
  <2>2. i \in 1..Len(t)
    BY <2>1, AtEnd
  <2>3. AfterComment(t, i) \in i + 1 .. Len(t) + 1
    BY <2>2, AfterCommentIs
  <2> QED
    BY <2>2, <2>3
<1>2. n \in Nat
  OBVIOUS
<1>3. PICK f : IsScan(n, D, s, g, f)
  <2> HIDE DEF n, D, s, g
  <2> QED
    BY <1>1, <1>2, ScanExists
<1> DEFINE e == [i \in 1..n |-> IF At(t, i) \in Blanks THEN f[i + 1]
                               ELSE IF At(t, i) = "#" THEN f[AfterComment(t, i)]
                               ELSE i]
           h == [i \in 1..n |-> IF i \in D THEN f[s[i]] ELSE g[i]]
<1>4. \A i \in 1..n : h[i] = e[i]
  OBVIOUS
<1>5. h = e
  BY <1>4
<1>6. f = e
  BY <1>3, <1>5 DEF IsScan
<1>7. QED
  BY <1>6 DEF SkipIs

\* From from to p everything is dropped, and p is the first that is not.
SkippedTo(t, from, p) ==
  /\ p \in from .. Len(t) + 1 /\ At(t, p) \notin Blanks \cup {"#"}
  /\ \A i \in from .. p - 1 : Dropped(t, from, i)

LEMMA Skipped ==
  ASSUME NEW t, Len(t) \in Nat, NEW from \in 1 .. Len(t) + 1
  PROVE  SkippedTo(t, from, skip_whitespace_comments(t, from))
<1> DEFINE n == Len(t) + 1
<1>1. PICK f : SkipIs(t, f) /\ skip_whitespace_comments(t, from) = f[from]
  BY SkipExists DEF skip_whitespace_comments, SkipIs
<1> DEFINE G == {i \in 1..n : SkippedTo(t, i, f[i])}
<1>2. ASSUME NEW i \in 1..n, \A j \in i + 1 .. n : j \in G PROVE i \in G
  <2>1. f[i] = IF At(t, i) \in Blanks THEN f[i + 1]
               ELSE IF At(t, i) = "#" THEN f[AfterComment(t, i)]
               ELSE i
    BY <1>1 DEF SkipIs
  <2>2. CASE At(t, i) \notin Blanks \cup {"#"}
    BY <2>1, <2>2 DEF SkippedTo
  <2>3. CASE At(t, i) \in Blanks \cup {"#"}
    <3>1. i \in 1..Len(t) /\ At(t, i) = t[i]
      <4>1. At(t, i) # "eof"
        BY <2>3 DEF Blanks
      <4> QED
        BY <4>1, AtEnd
    <3> DEFINE a == IF At(t, i) \in Blanks THEN i + 1 ELSE AfterComment(t, i)
    <3>2. /\ AfterComment(t, i) \in i + 1 .. Len(t) + 1
          /\ \A k \in i .. AfterComment(t, i) - 2 : t[k] \notin {"newline", "return"}
      BY <3>1, AfterCommentIs
    <3>3. a \in i + 1 .. n /\ f[i] = f[a]
      BY <2>1, <2>3, <3>1, <3>2
    <3>4. ASSUME NEW k \in i .. a - 1 PROVE Dropped(t, i, k)
      <4>1. CASE At(t, i) \in Blanks
        BY <4>1, <3>1, <3>4 DEF Dropped
      <4>2. CASE At(t, i) \notin Blanks
        <5>1. t[i] = "#" /\ a = AfterComment(t, i)
          BY <4>2, <2>3, <3>1
        <5>2. CASE t[k] \in {"newline", "return"}
          BY <5>2 DEF Dropped, Blanks
        <5>3. CASE t[k] \notin {"newline", "return"}
          <6>1. \A j \in i..k : j \in i .. a - 2 \/ j = k
            BY <5>1, <3>2
          <6>2. \A j \in i..k : t[j] \notin {"newline", "return"}
            BY <6>1, <5>1, <5>3, <3>2
          <6>3. i \in i..k
            BY <3>2, <5>1
          <6> QED
            BY <5>1, <6>2, <6>3 DEF Dropped
        <5> QED
          BY <5>2, <5>3
      <4> QED
        BY <4>1, <4>2
    <3> DEFINE p == f[a]
    <3>5. SkippedTo(t, a, p)
      BY <1>2, <3>3
    <3> HIDE DEF a, p
    <3>6. p \in a..n /\ At(t, p) \notin Blanks \cup {"#"} /\ \A k \in a .. p - 1 : Dropped(t, a, k)
      BY <3>5 DEF SkippedTo
    <3>7. ASSUME NEW k \in i .. p - 1 PROVE Dropped(t, i, k)
      <4>1. CASE k \in i .. a - 1
        BY <4>1, <3>4
      <4>2. CASE k \in a .. p - 1
        <5>1. Dropped(t, a, k)
          BY <4>2, <3>6
        <5>2. \A h \in a..k : h \in i..k
          BY <3>3
        <5> QED
          BY <5>1, <5>2 DEF Dropped
      <4> QED
        BY <4>1, <4>2, <3>3, <3>6
    <3>8. p \in i..n
      BY <3>3, <3>6
    <3>9. SkippedTo(t, i, p)
      BY <3>6, <3>7, <3>8 DEF SkippedTo
    <3> QED
      BY <3>3, <3>9 DEF p
  <2> QED
    BY <2>2, <2>3
<1>3. 1..n \subseteq G
  <2>1. 1 \in Nat /\ n \in Nat
    OBVIOUS
  <2> HIDE DEF G, n
  <2> QED
    BY <1>2, <2>1, Downward
<1>4. QED
  BY <1>1, <1>3

\* The newlines of a text, counted one by one.
NewlinesIn(t, i, j) == {m \in i .. j - 1 : t[m] = "newline"}
\* f is the recursive function in Newlines.
CountIs(t, i, f) ==
  f = [k \in i - 1 .. Len(t) |->
        IF k < i THEN 0 ELSE f[k - 1] + (IF t[k] = "newline" THEN 1 ELSE 0)]

LEMMA OneNewlineMore ==
  ASSUME NEW t, Len(t) \in Nat, NEW i \in 1 .. Len(t) + 1, NEW k \in i - 1 .. Len(t)
  PROVE  /\ Cardinality(NewlinesIn(t, i, k + 1)) \in Nat /\ IsFiniteSet(NewlinesIn(t, i, k + 1))
         /\ Cardinality(NewlinesIn(t, i, k + 1)) =
              IF k < i THEN 0
              ELSE Cardinality(NewlinesIn(t, i, k)) + (IF t[k] = "newline" THEN 1 ELSE 0)
<1>1. \A a, b \in Int : IsFiniteSet(a..b)
  BY FS_Interval
<1>2. \A m \in Int : IsFiniteSet(NewlinesIn(t, i, m)) /\ Cardinality(NewlinesIn(t, i, m)) \in Nat
  <2> SUFFICES ASSUME NEW m \in Int
               PROVE  IsFiniteSet(NewlinesIn(t, i, m)) /\ Cardinality(NewlinesIn(t, i, m)) \in Nat
    OBVIOUS
  <2>1. NewlinesIn(t, i, m) \subseteq i .. m - 1 /\ IsFiniteSet(i .. m - 1)
    BY <1>1 DEF NewlinesIn
  <2> HIDE DEF NewlinesIn
  <2>2. IsFiniteSet(NewlinesIn(t, i, m))
    BY <2>1, FS_Subset
  <2> QED
    BY <2>2, FS_CardinalityType
<1>0. k \in Int /\ k + 1 \in Int
  OBVIOUS
<1> DEFINE c == Cardinality(NewlinesIn(t, i, k + 1))
           b == Cardinality(NewlinesIn(t, i, k))
<1>6. c \in Nat /\ b \in Nat /\ IsFiniteSet(NewlinesIn(t, i, k + 1)) /\ IsFiniteSet(NewlinesIn(t, i, k))
  BY <1>0, <1>2
<1>3. ASSUME k < i PROVE c = 0
  <2>1. NewlinesIn(t, i, k + 1) = {}
    BY <1>3 DEF NewlinesIn
  <2> QED
    BY <2>1, FS_EmptySet
<1>4. ASSUME ~(k < i) PROVE c = b + (IF t[k] = "newline" THEN 1 ELSE 0)
  <2>1. k \notin NewlinesIn(t, i, k)
    BY DEF NewlinesIn
  <2>2. NewlinesIn(t, i, k + 1) = IF t[k] = "newline" THEN NewlinesIn(t, i, k) \cup {k}
                                                     ELSE NewlinesIn(t, i, k)
    <3>1. \A m : m \in i .. (k + 1) - 1 <=> m \in i .. k - 1 \/ m = k
      BY <1>4
    <3> QED
      BY <3>1 DEF NewlinesIn
  <2>3. Cardinality(NewlinesIn(t, i, k) \cup {k}) = b + 1
    BY <1>6, <2>1, FS_AddElement
  <2>4. b + 0 = b
    BY <1>6
  <2> QED
    BY <2>2, <2>3, <2>4
<1>5. QED
  BY <1>3, <1>4, <1>6

\* Counting them one by one gives their number.
LEMMA NewlinesCounted ==
  ASSUME NEW t, Len(t) \in Nat, NEW i \in 1 .. Len(t) + 1, NEW j \in i .. Len(t) + 1
  PROVE  Newlines(t, i, j) = Cardinality(NewlinesIn(t, i, j))
<1> DEFINE c == [k \in i - 1 .. Len(t) |-> Cardinality(NewlinesIn(t, i, k + 1))]
           d == [k \in i - 1 .. Len(t) |->
                  IF k < i THEN 0 ELSE c[k - 1] + (IF t[k] = "newline" THEN 1 ELSE 0)]
<1>1. \A k \in i - 1 .. Len(t) : c[k] = d[k]
  <2> SUFFICES ASSUME NEW k \in i - 1 .. Len(t) PROVE c[k] = d[k]
    OBVIOUS
  <2>1. ~(k < i) => k - 1 \in i - 1 .. Len(t) /\ (k - 1) + 1 = k
    OBVIOUS
  <2>2. ~(k < i) => c[k - 1] = Cardinality(NewlinesIn(t, i, k))
    BY <2>1
  <2> QED
    BY <2>2, OneNewlineMore
<1>2. c = d
  BY <1>1
<1>3. CountIs(t, i, c)
  BY <1>2 DEF CountIs
<1>4. PICK f : CountIs(t, i, f) /\ Newlines(t, i, j) = f[j - 1]
  <2>1. \E f : CountIs(t, i, f)
    BY <1>3
  <2> QED
    BY <2>1 DEF Newlines, CountIs
<1> DEFINE G == {k \in i - 1 .. Len(t) : f[k] = Cardinality(NewlinesIn(t, i, k + 1))}
<1>5. ASSUME NEW k \in i - 1 .. Len(t), \A l \in i - 1 .. k - 1 : l \in G PROVE k \in G
  <2>1. f[k] = IF k < i THEN 0 ELSE f[k - 1] + (IF t[k] = "newline" THEN 1 ELSE 0)
    BY <1>4 DEF CountIs
  <2>2. ~(k < i) => f[k - 1] = Cardinality(NewlinesIn(t, i, k))
    <3> SUFFICES ASSUME ~(k < i) PROVE f[k - 1] = Cardinality(NewlinesIn(t, i, k))
      OBVIOUS
    <3>1. k - 1 \in i - 1 .. k - 1 /\ (k - 1) + 1 = k
      OBVIOUS
    <3> QED
      BY <3>1, <1>5
  <2>3. Cardinality(NewlinesIn(t, i, k + 1)) =
              IF k < i THEN 0
              ELSE Cardinality(NewlinesIn(t, i, k)) + (IF t[k] = "newline" THEN 1 ELSE 0)
    BY OneNewlineMore
  <2> QED
    BY <2>1, <2>2, <2>3
<1>6. i - 1 .. Len(t) \subseteq G
  <2>1. i - 1 \in Nat
    OBVIOUS
  <2> HIDE DEF G
  <2> QED
    BY <1>5, <2>1, Upward
<1>7. j - 1 \in i - 1 .. Len(t) /\ (j - 1) + 1 = j
  OBVIOUS
<1>8. QED
  BY <1>4, <1>6, <1>7

LEMMA CountNat ==
  ASSUME NEW t, NEW i \in Nat, NEW j \in Nat
  PROVE  IsFiniteSet(NewlinesIn(t, i, j)) /\ Cardinality(NewlinesIn(t, i, j)) \in Nat
<1>1. i \in Int /\ j - 1 \in Int
  OBVIOUS
<1>2. IsFiniteSet(i .. j - 1)
  BY <1>1, FS_Interval
<1>3. NewlinesIn(t, i, j) \subseteq i .. j - 1
  BY DEF NewlinesIn
<1>4. IsFiniteSet(NewlinesIn(t, i, j))
  BY <1>2, <1>3, FS_Subset
<1>5. QED
  BY <1>4, FS_CardinalityType
-----------------------------------------------------------------------------
(* Whatever the text, a token function ends at a position of it.           *)

\* f is of a known type and ends between p and the end of t.
Ends(t, p, f) == f.tt \in TokenTypes /\ f.to \in p .. Len(t) + 1

LEMMA CapIn ==
  ASSUME NEW t, Len(t) \in Nat, NEW p \in 1 .. Len(t) + 1, NEW i \in Nat, p <= i
  PROVE  Cap(t, i) \in p .. Len(t) + 1
BY DEF Cap

LEMMA FoundFields ==
  ASSUME NEW a, NEW b PROVE Found(a, b).tt = a /\ Found(a, b).to = b
BY DEF Found

\* f is the recursive function in handle_strings.
ReadIs(t, f) ==
  f = [i \in 1 .. Len(t) + 1 |->
        CASE At(t, i) = "eof" -> Found("ERROR", i)
          [] At(t, i) = "quote" -> Found("STRING_LITERAL", i + 1)
          [] At(t, i) = "backslash" -> IF At(t, i + 1) \in Escapes("quote")
                                THEN f[i + 2]
                                ELSE Found("ERROR", Cap(t, i + 2))
          [] OTHER -> f[i + 1]]

LEMMA ReadExists ==
  ASSUME NEW t, Len(t) \in Nat
  PROVE  \E f : ReadIs(t, f)
<1> DEFINE n == Len(t) + 1
           D == {i \in 1..n : /\ At(t, i) \notin {"eof", "quote"}
                              /\ At(t, i) = "backslash" => At(t, i + 1) \in Escapes("quote")}
           s == [i \in 1..n |-> IF At(t, i) = "backslash" THEN i + 2 ELSE i + 1]
           g == [i \in 1..n |-> CASE At(t, i) = "eof" -> Found("ERROR", i)
                                  [] At(t, i) = "quote" -> Found("STRING_LITERAL", i + 1)
                                  [] OTHER -> Found("ERROR", Cap(t, i + 2))]
<1>1. \A i \in D \cap (1..n) : s[i] \in 1..n /\ s[i] > i
  <2> SUFFICES ASSUME NEW i \in D \cap (1..n) PROVE s[i] \in 1..n /\ s[i] > i
    OBVIOUS
  <2>1. i \in 1..Len(t)
    BY AtEnd
  <2>2. At(t, i) = "backslash" => i + 1 \in 1..Len(t)
    <3>1. At(t, i) = "backslash" => At(t, i + 1) # "eof"
      BY DEF Escapes
    <3> QED
      BY <2>1, <3>1, AtEnd
  <2> QED
    BY <2>1, <2>2
<1>2. n \in Nat
  OBVIOUS
<1>3. PICK f : IsScan(n, D, s, g, f)
  <2> HIDE DEF n, D, s, g
  <2> QED
    BY <1>1, <1>2, ScanExists
<1> DEFINE h == [i \in 1..n |-> IF i \in D THEN f[s[i]] ELSE g[i]]
           e == [i \in 1..n |->
                  CASE At(t, i) = "eof" -> Found("ERROR", i)
                    [] At(t, i) = "quote" -> Found("STRING_LITERAL", i + 1)
                    [] At(t, i) = "backslash" -> IF At(t, i + 1) \in Escapes("quote")
                                          THEN f[i + 2]
                                          ELSE Found("ERROR", Cap(t, i + 2))
                    [] OTHER -> f[i + 1]]
<1>4. \A i \in 1..n : h[i] = e[i]
  OBVIOUS
<1>5. h = e
  BY <1>4
<1>6. f = e
  BY <1>3, <1>5 DEF IsScan
<1>7. QED
  BY <1>6 DEF ReadIs

LEMMA StringEnds ==
  ASSUME NEW t, Len(t) \in Nat, NEW from \in 1 .. Len(t) + 1
  PROVE  Ends(t, from, handle_strings(t, from))
<1> DEFINE n == Len(t) + 1
<1>1. PICK f : ReadIs(t, f) /\ handle_strings(t, from) = f[from]
  BY ReadExists DEF handle_strings, ReadIs
<1> DEFINE G == {i \in 1..n : Ends(t, i, f[i])}
<1>2. ASSUME NEW i \in 1..n, \A j \in i + 1 .. n : j \in G PROVE i \in G
  <2>1. f[i] = CASE At(t, i) = "eof" -> Found("ERROR", i)
                 [] At(t, i) = "quote" -> Found("STRING_LITERAL", i + 1)
                 [] At(t, i) = "backslash" -> IF At(t, i + 1) \in Escapes("quote")
                                       THEN f[i + 2]
                                       ELSE Found("ERROR", Cap(t, i + 2))
                 [] OTHER -> f[i + 1]
    BY <1>1 DEF ReadIs
  <2>2. At(t, i) # "eof" => i \in 1..Len(t)
    BY AtEnd
  <2>3. i \in 1..Len(t) /\ At(t, i + 1) \in Escapes("quote") => i + 1 \in 1..Len(t)
    <3>1. At(t, i + 1) \in Escapes("quote") => At(t, i + 1) # "eof"
      BY DEF Escapes
    <3> QED
      BY <3>1, AtEnd
  <2>4. {"ERROR", "STRING_LITERAL"} \subseteq TokenTypes
    BY DEF TokenTypes
  <2>5. ASSUME NEW j \in i + 1 .. n PROVE Ends(t, i, f[j])
    <3>1. Ends(t, j, f[j])
      BY <1>2, <2>5
    <3> QED
      BY <3>1 DEF Ends
  <2>6. CASE At(t, i) = "eof"
    BY <2>1, <2>4, <2>6, FoundFields DEF Ends
  <2>7. CASE At(t, i) = "quote"
    BY <2>1, <2>2, <2>4, <2>7, FoundFields DEF Ends
  <2>8. CASE At(t, i) = "backslash"
    <3>1. CASE At(t, i + 1) \in Escapes("quote")
      <4>1. f[i] = f[i + 2] /\ i + 2 \in i + 1 .. n
        BY <2>1, <2>2, <2>3, <2>8, <3>1
      <4> QED
        BY <4>1, <2>5
    <3>2. CASE At(t, i + 1) \notin Escapes("quote")
      <4>1. f[i] = Found("ERROR", Cap(t, i + 2))
        BY <2>1, <2>8, <3>2
      <4>2. Cap(t, i + 2) \in i .. n
        BY CapIn
      <4> QED
        BY <4>1, <4>2, <2>4, FoundFields DEF Ends
    <3> QED
      BY <3>1, <3>2
  <2>9. CASE At(t, i) \notin {"eof", "quote", "backslash"}
    <3>1. f[i] = f[i + 1] /\ i + 1 \in i + 1 .. n
      BY <2>1, <2>2, <2>9
    <3> QED
      BY <3>1, <2>5
  <2>10. Ends(t, i, f[i])
    BY <2>6, <2>7, <2>8, <2>9
  <2> QED
    BY <2>10
<1>3. 1..n \subseteq G
  <2>1. 1 \in Nat /\ n \in Nat
    OBVIOUS
  <2> HIDE DEF G, n
  <2> QED
    BY <1>2, <2>1, Downward
<1>4. QED
  BY <1>1, <1>3

LEMMA CharEnds ==
  ASSUME NEW t, Len(t) \in Nat, NEW from \in 1 .. Len(t) + 1
  PROVE  Ends(t, from, handle_char_literal(t, from))
<1>1. {"ERROR", "CHAR_LITERAL"} \subseteq TokenTypes
  BY DEF TokenTypes
<1>2. \A i \in from .. from + 3 : Cap(t, i) \in from .. Len(t) + 1
  BY CapIn
<1>3. PICK a \in {"ERROR", "CHAR_LITERAL"}, b \in from .. Len(t) + 1 :
        handle_char_literal(t, from) = Found(a, b)
  <2>1. CASE At(t, from) = "eof"
    BY <2>1 DEF handle_char_literal
  <2>2. CASE At(t, from) # "eof"
    <3> DEFINE next == IF At(t, from) = "backslash" THEN from + 2 ELSE from + 1
    <3>1. Cap(t, next) \in from .. Len(t) + 1 /\ Cap(t, next + 1) \in from .. Len(t) + 1
      BY <1>2
    <3>2. \/ handle_char_literal(t, from) = Found("ERROR", Cap(t, next))
          \/ \E a \in {"ERROR", "CHAR_LITERAL"} : handle_char_literal(t, from) = Found(a, Cap(t, next + 1))
      BY <2>2 DEF handle_char_literal
    <3> HIDE DEF next
    <3> QED
      BY <3>1, <3>2
  <2> QED
    BY <2>1, <2>2
<1>4. QED
  BY <1>1, <1>3, FoundFields DEF Ends

\* Where a run of word characters ends.
RunEnd(t, from) == Least({i \in from .. Len(t) + 1 : At(t, i) \notin Word})
LEMMA RunEnds ==
  ASSUME NEW t, Len(t) \in Nat, NEW from \in 1 .. Len(t) + 1
  PROVE  /\ RunEnd(t, from) \in from .. Len(t) + 1 /\ At(t, RunEnd(t, from)) \notin Word
         /\ \A i \in from .. RunEnd(t, from) - 1 : At(t, i) \in Word
<1> DEFINE S == {i \in from .. Len(t) + 1 : At(t, i) \notin Word}
<1>1. Len(t) + 1 \in S
  <2>1. At(t, Len(t) + 1) = "eof"
    BY DEF At
  <2>2. "eof" \notin Word
    BY DEF Word, Letters, Digits
  <2> QED
    BY <2>1, <2>2
<1>2. S \subseteq Nat /\ S # {}
  BY <1>1
<1>3. Least(S) \in S /\ \A y \in S : Least(S) <= y
  <2> HIDE DEF S
  <2> QED
    BY <1>2, LeastOf
<1> DEFINE a == RunEnd(t, from)
<1>4. a \in S /\ \A y \in S : a <= y
  BY <1>3 DEF RunEnd
<1> HIDE DEF a
<1>5. a \in from .. Len(t) + 1 /\ At(t, a) \notin Word
  BY <1>4
<1>6. \A i \in from .. a - 1 : At(t, i) \in Word
  <2> SUFFICES ASSUME NEW i \in from .. a - 1, At(t, i) \notin Word PROVE FALSE
    OBVIOUS
  <2>1. i \in S
    BY <1>5
  <2>2. a <= i
    BY <2>1, <1>4
  <2> QED
    BY <2>2, <1>5
<1>7. QED
  BY <1>5, <1>6 DEF a

LEMMA WordEnds ==
  ASSUME NEW t, Len(t) \in Nat, NEW from \in 1 .. Len(t) + 1
  PROVE  Ends(t, from, general_case(t, from))
<1>1. {"ERROR", "KEYWORD", "ID", "NUMBER"} \subseteq TokenTypes
  BY DEF TokenTypes
<1>2. PICK a \in {"ERROR", "KEYWORD", "ID", "NUMBER"} : general_case(t, from) = Found(a, RunEnd(t, from))
  <2> DEFINE w == SubSeq(t, from, RunEnd(t, from) - 1)
             a == CASE w \in Keywords -> "KEYWORD"
                    [] w # << >> /\ t[from] \in Word \ Digits -> "ID"
                    [] w # << >> /\ \A i \in 1..Len(w) : w[i] \in Digits -> "NUMBER"
                    [] OTHER -> "ERROR"
  <2>1. general_case(t, from) = Found(a, RunEnd(t, from))
    BY DEF general_case, RunEnd
  <2>2. a \in {"ERROR", "KEYWORD", "ID", "NUMBER"}
    <3> HIDE DEF w
    <3> QED
      OBVIOUS
  <2> QED
    BY <2>1, <2>2
<1>3. QED
  BY <1>1, <1>2, RunEnds, FoundFields DEF Ends

\* The two characters of a token of two.
LEMMA PairChars ==
  ASSUME NEW q \in Pairs
  PROVE  /\ q = <<q[1], q[2]>>
         /\ q[1] \in {"-", "&", "|", "=", "!", "<", ">"} /\ q[2] \in {">", "&", "|", "="}
<1>1. CASE q \in {<<"-", ">">>, <<"&", "&">>, <<"|", "|">>}
  BY <1>1
<1>2. CASE q \in {"=", "!", "<", ">"} \X {"="}
  BY <1>2
<1>3. QED
  BY <1>1, <1>2 DEF Pairs

LEMMA TokenEnds ==
  ASSUME NEW t, Len(t) \in Nat, NEW p \in 1 .. Len(t) + 1
  PROVE  Ends(t, p, lexer_gettoken_internal(t, p))
<1> DEFINE c1 == At(t, p)
           c2 == At(t, p + 1)
           pair == {q \in Pairs : q[1] = c1}
           f == lexer_gettoken_internal(t, p)
<1>1. c1 # "eof" => p \in 1..Len(t) /\ p + 1 \in p .. Len(t) + 1 /\ p + 1 \in 1 .. Len(t) + 1
  BY AtEnd
<1>2. c1 # "eof" /\ c2 # "eof" => p + 2 \in p .. Len(t) + 1
  BY <1>1, AtEnd
<1>3. /\ {"EOF", "ERROR", "PAIR"} \cup OneChar \subseteq TokenTypes /\ "eof" \notin OneChar
      /\ \A q \in Pairs : q[1] \in TokenTypes /\ q[1] # "eof" /\ q[2] # "eof"
  <2>1. {"EOF", "ERROR", "PAIR"} \cup OneChar \subseteq TokenTypes /\ "eof" \notin OneChar
    BY DEF TokenTypes, OneChar
  <2>2. \A q \in Pairs : q[1] \in TokenTypes
    BY DEF TokenTypes
  <2> QED
    BY <2>1, <2>2, PairChars
<1>4. /\ <<c1, c2>> \in pair => c1 # "eof" /\ c2 # "eof"
      /\ pair # {} => c1 # "eof" /\ c1 \in TokenTypes
  <2>1. <<c1, c2>>[1] = c1 /\ <<c1, c2>>[2] = c2
    OBVIOUS
  <2> QED
    BY <2>1, <1>3
<1>5. \/ f = Found("EOF", p)
      \/ c1 \in OneChar /\ f = Found(c1, p + 1)
      \/ c1 = "quote" /\ f = handle_strings(t, p + 1)
      \/ c1 = "'" /\ f = handle_char_literal(t, p + 1)
      \/ <<c1, c2>> \in pair /\ f = Found("PAIR", p + 2)
      \/ pair # {} /\ f \in {Found("ERROR", p + 1), Found(c1, p + 1)}
      \/ f = general_case(t, p)
  <2> DEFINE one == c1 \in OneChar
             two == <<c1, c2>> \in pair
             some == pair # {}
  <2>1. f = CASE c1 = "eof"        -> Found("EOF", p)
              [] one               -> Found(c1, p + 1)
              [] c1 = "quote"      -> handle_strings(t, p + 1)
              [] c1 = "'"          -> handle_char_literal(t, p + 1)
              [] two               -> Found("PAIR" , p + 2)
              [] some /\ <<c1, c2>> \notin pair ->
                   Found(IF c1 = "|" THEN "ERROR" ELSE c1, p + 1)
              [] OTHER             -> general_case(t, p)
    BY DEF lexer_gettoken_internal
  <2> HIDE DEF c1, c2, pair, f
  <2> QED
    BY <2>1
<1>6. ASSUME NEW g, p + 1 \in p .. Len(t) + 1, Ends(t, p + 1, g) PROVE Ends(t, p, g)
  BY <1>6 DEF Ends
<1> SUFFICES Ends(t, p, f)
  OBVIOUS
<1> HIDE DEF c1, c2, pair, f
<1>7. CASE f = Found("EOF", p)
  BY <1>3, <1>7, FoundFields DEF Ends
<1>8. CASE c1 \in OneChar /\ f = Found(c1, p + 1)
  BY <1>1, <1>3, <1>8, FoundFields DEF Ends
<1>9. CASE c1 = "quote" /\ f = handle_strings(t, p + 1)
  BY <1>1, <1>6, <1>9, StringEnds
<1>10. CASE c1 = "'" /\ f = handle_char_literal(t, p + 1)
  BY <1>1, <1>6, <1>10, CharEnds
<1>11. CASE <<c1, c2>> \in pair /\ f = Found("PAIR", p + 2)
  BY <1>2, <1>3, <1>4, <1>11, FoundFields DEF Ends
<1>12. CASE pair # {} /\ f \in {Found("ERROR", p + 1), Found(c1, p + 1)}
  BY <1>1, <1>3, <1>4, <1>12, FoundFields DEF Ends
<1>13. CASE f = general_case(t, p)
  BY <1>13, WordEnds
<1>14. QED
  BY <1>5, <1>7, <1>8, <1>9, <1>10, <1>11, <1>12, <1>13

\* One scan.
LEMMA TokenIs ==
  ASSUME NEW t, Len(t) \in Nat, NEW from \in 1 .. Len(t) + 1, NEW ln \in Nat
  PROVE  /\ Token(t, from, ln) \in TokenRecord
         /\ SkippedTo(t, from, Token(t, from, ln).from)
         /\ Token(t, from, ln).to \in Token(t, from, ln).from .. Len(t) + 1
         /\ Token(t, from, ln).line =
              ln + Cardinality(NewlinesIn(t, from, Token(t, from, ln).from))
<1> DEFINE p == skip_whitespace_comments(t, from)
           f == lexer_gettoken_internal(t, p)
           m == Newlines(t, from, p)
<1>1. SkippedTo(t, from, p)
  BY Skipped
<1>2. Token(t, from, ln) = [tt |-> f.tt, from |-> p, to |-> f.to, line |-> ln + m]
  BY DEF Token
<1> HIDE DEF p
<1>3. p \in from .. Len(t) + 1 /\ p \in 1 .. Len(t) + 1
  BY <1>1 DEF SkippedTo
<1>4. Ends(t, p, f)
  BY <1>3, TokenEnds
<1>5. m = Cardinality(NewlinesIn(t, from, p))
  BY <1>3, NewlinesCounted
<1>6. m \in Nat
  BY <1>3, <1>5, CountNat
<1> HIDE DEF f, m
<1>7. f.tt \in TokenTypes /\ f.to \in p .. Len(t) + 1 /\ f.to \in Nat /\ p \in Nat
  BY <1>3, <1>4 DEF Ends
<1>8. QED
  BY <1>1, <1>2, <1>5, <1>6, <1>7 DEF TokenRecord
-----------------------------------------------------------------------------
(* The token found is the longest text that is one.                        *)

LEMMA PrefixIs ==
  ASSUME NEW t \in Seq(Chars), NEW p \in 1..Len(t), NEW q \in p..Len(t)
  PROVE  /\ Len(SubSeq(t, p, q)) = q - p + 1
         /\ \A i \in 1 .. q - p + 1 : SubSeq(t, p, q)[i] = t[p + i - 1]
BY SubSeqProperties

\* t[i] is escaped: an odd number of backslashes from p on stands before it.
Esc(t, p, i) ==
  \E j \in p .. i - 1 : /\ (i - j) % 2 = 1
                        /\ \A k \in j .. i - 1 : t[k] = "backslash"
                        /\ j = p \/ t[j - 1] # "backslash"

LEMMA Parity ==
  ASSUME NEW i \in Int, NEW j \in Int
  PROVE  (i + 1 - j) % 2 = 1 <=> (i - j) % 2 # 1
BY SMT

\* The next character is escaped if this is a backslash that is not.
LEMMA EscNext ==
  ASSUME NEW t, NEW p \in Nat, NEW i \in Nat, p <= i
  PROVE  Esc(t, p, i + 1) <=> t[i] = "backslash" /\ ~Esc(t, p, i)
<1>1. ASSUME t[i] = "backslash", ~Esc(t, p, i) PROVE Esc(t, p, i + 1)
  <2> DEFINE T == {j \in p..i : \A k \in j..i : t[k] = "backslash"}
  <2>1. T \subseteq Nat /\ T # {}
    <3>1. i \in T
      BY <1>1
    <3> QED
      BY <3>1
  <2>2. PICK j \in T : \A m \in T : j <= m
    <3> HIDE DEF T
    <3> QED
      BY <2>1, LeastElement
  <2>3. j = p \/ t[j - 1] # "backslash"
    <3> SUFFICES ASSUME j # p, t[j - 1] = "backslash" PROVE FALSE
      OBVIOUS
    <3>1. \A k \in j - 1 .. i : k = j - 1 \/ k \in j..i
      OBVIOUS
    <3>2. j - 1 \in T
      BY <3>1
    <3> QED
      BY <3>2, <2>2
  <2>4. (i - j) % 2 # 1
    <3>1. CASE j = i
      <4>1. i - j = 0
        BY <3>1
      <4>2. 0 % 2 # 1
        BY SMT
      <4> QED
        BY <4>1, <4>2
    <3>2. CASE j # i
      <4>1. j \in p .. i - 1 /\ \A k \in j .. i - 1 : t[k] = "backslash"
        BY <3>2
      <4> QED
        BY <4>1, <2>3, <1>1 DEF Esc
    <3> QED
      BY <3>1, <3>2
  <2>5. (i + 1 - j) % 2 = 1
    BY <2>4, Parity
  <2>6. j \in p .. (i + 1) - 1 /\ \A k \in j .. (i + 1) - 1 : t[k] = "backslash"
    OBVIOUS
  <2> QED
    BY <2>3, <2>5, <2>6 DEF Esc
<1>2. ASSUME Esc(t, p, i + 1) PROVE t[i] = "backslash" /\ ~Esc(t, p, i)
  <2>1. PICK j \in p..i : /\ (i + 1 - j) % 2 = 1 /\ \A k \in j..i : t[k] = "backslash"
                          /\ j = p \/ t[j - 1] # "backslash"
    BY <1>2 DEF Esc
  <2>2. t[i] = "backslash"
    BY <2>1
  <2>3. ASSUME NEW l \in p .. i - 1, (i - l) % 2 = 1, \A k \in l .. i - 1 : t[k] = "backslash",
               l = p \/ t[l - 1] # "backslash"
        PROVE FALSE
    <3>1. l = j
      <4>1. ~(l < j)
        <5> SUFFICES ASSUME l < j PROVE FALSE
          OBVIOUS
        <5>1. j - 1 \in l .. i - 1 /\ j # p
          OBVIOUS
        <5> QED
          BY <5>1, <2>1, <2>3
      <4>2. ~(j < l)
        <5> SUFFICES ASSUME j < l PROVE FALSE
          OBVIOUS
        <5>1. l - 1 \in j..i /\ l # p
          OBVIOUS
        <5> QED
          BY <5>1, <2>1, <2>3
      <4> QED
        BY <4>1, <4>2
    <3> QED
      BY <3>1, <2>1, <2>3, Parity
  <2> QED
    BY <2>2, <2>3 DEF Esc
<1>3. QED
  BY <1>1, <1>2

LEMMA EscNextButOne ==
  ASSUME NEW t, NEW p \in Nat, NEW i \in Nat, p <= i
  PROVE  Esc(t, p, i + 2) <=> t[i + 1] = "backslash" /\ ~Esc(t, p, i + 1)
<1> DEFINE j == i + 1
<1>1. j \in Nat /\ p <= j /\ j + 1 = i + 2
  OBVIOUS
<1> HIDE DEF j
<1>2. Esc(t, p, j + 1) <=> t[j] = "backslash" /\ ~Esc(t, p, j)
  BY <1>1, EscNext
<1>3. QED
  BY <1>1, <1>2 DEF j

\* Which of the first characters after a quote are escaped.
LEMMA EscEarly ==
  ASSUME NEW t, NEW p \in Nat, t[p] # "backslash"
  PROVE  /\ ~Esc(t, p, p) /\ ~Esc(t, p, p + 1)
         /\ Esc(t, p, p + 2) <=> t[p + 1] = "backslash"
         /\ Esc(t, p, p + 3) <=> t[p + 2] = "backslash" /\ ~Esc(t, p, p + 2)
<1>1. ~Esc(t, p, p)
  BY DEF Esc
<1>2. Esc(t, p, p + 1) <=> t[p] = "backslash" /\ ~Esc(t, p, p)
  <2>1. p <= p
    OBVIOUS
  <2> QED
    BY <2>1, EscNext
<1>3. Esc(t, p, p + 2) <=> t[p + 1] = "backslash" /\ ~Esc(t, p, p + 1)
  <2>1. p <= p
    OBVIOUS
  <2> QED
    BY <2>1, EscNextButOne
<1>4. Esc(t, p, p + 3) <=> t[p + 2] = "backslash" /\ ~Esc(t, p, p + 2)
  <2> DEFINE j == p + 2
  <2>1. j \in Nat /\ p <= j /\ j + 1 = p + 3
    OBVIOUS
  <2> HIDE DEF j
  <2>2. Esc(t, p, j + 1) <=> t[j] = "backslash" /\ ~Esc(t, p, j)
    BY <2>1, EscNext
  <2> QED
    BY <2>1, <2>2 DEF j
<1>5. QED
  BY <1>1, <1>2, <1>3, <1>4, Zenon

\* Escapes in a text that begins at p are escapes there.
LEMMA EscShift ==
  ASSUME NEW t \in Seq(Chars), NEW p \in 1..Len(t), NEW q \in p..Len(t), NEW i \in 1 .. q - p + 1
  PROVE  EscapedIn(SubSeq(t, p, q), i) <=> Esc(t, p, p + i - 1)
<1> DEFINE w == SubSeq(t, p, q)
<1>1. \A k \in 1 .. q - p + 1 : w[k] = t[p + k - 1]
  BY PrefixIs
<1>0. Len(t) \in Nat
  OBVIOUS
<1> HIDE DEF w
<1>2. ASSUME NEW j \in 1 .. i - 1, (i - j) % 2 = 1, \A k \in j .. i - 1 : w[k] = "backslash",
             j = 1 \/ w[j - 1] # "backslash"
      PROVE Esc(t, p, p + i - 1)
  <2> DEFINE m == p + j - 1
  <2>1. m \in p .. (p + i - 1) - 1 /\ (p + i - 1) - m = i - j /\ (m = p <=> j = 1)
    BY <1>0
  <2>2. \A k \in m .. (p + i - 1) - 1 : k - p + 1 \in j .. i - 1 /\ k - p + 1 \in 1 .. q - p + 1 /\ p + (k - p + 1) - 1 = k
    BY <1>0
  <2>3. \A k \in m .. (p + i - 1) - 1 : t[k] = "backslash"
    BY <2>2, <1>1, <1>2
  <2>4. m = p \/ t[m - 1] # "backslash"
    <3>1. CASE j = 1
      BY <3>1, <2>1
    <3>2. CASE j # 1
      <4>1. j - 1 \in 1 .. q - p + 1 /\ p + (j - 1) - 1 = m - 1
        BY <3>2, <1>0
      <4> QED
        BY <4>1, <3>2, <1>1, <1>2
    <3> QED
      BY <3>1, <3>2
  <2> HIDE DEF m
  <2> QED
    BY <2>1, <2>3, <2>4, <1>2 DEF Esc
<1>3. ASSUME Esc(t, p, p + i - 1) PROVE EscapedIn(w, i)
  <2>1. PICK m \in p .. (p + i - 1) - 1 :
          /\ ((p + i - 1) - m) % 2 = 1
          /\ \A k \in m .. (p + i - 1) - 1 : t[k] = "backslash"
          /\ m = p \/ t[m - 1] # "backslash"
    BY <1>3 DEF Esc
  <2> DEFINE j == m - p + 1
  <2>2. j \in 1 .. i - 1 /\ (p + i - 1) - m = i - j /\ (m = p <=> j = 1)
    BY <1>0
  <2>3. \A k \in j .. i - 1 : p + k - 1 \in m .. (p + i - 1) - 1 /\ k \in 1 .. q - p + 1
    BY <1>0
  <2>4. \A k \in j .. i - 1 : w[k] = "backslash"
    BY <2>3, <1>1, <2>1
  <2>5. j = 1 \/ w[j - 1] # "backslash"
    <3>1. CASE j = 1
      BY <3>1
    <3>2. CASE j # 1
      <4>1. j - 1 \in 1 .. q - p + 1 /\ p + (j - 1) - 1 = m - 1
        BY <3>2, <1>0
      <4> QED
        BY <4>1, <3>2, <2>2, <1>1, <2>1
    <3> QED
      BY <3>1, <3>2
  <2> HIDE DEF j
  <2> QED
    BY <2>1, <2>2, <2>4, <2>5 DEF EscapedIn
<1>4. EscapedIn(w, i) => Esc(t, p, p + i - 1)
  BY <1>2 DEF EscapedIn
<1>5. QED
  BY <1>3, <1>4 DEF w

\* A literal in quotes c runs from p to q.
Closed(t, p, q, c) ==
  /\ t[p] = c /\ q > p /\ t[q] = c /\ ~Esc(t, p, q)
  /\ \A i \in p + 1 .. q - 1 : Esc(t, p, i) => t[i] \in Escapes(c)
CharClosed(t, p, q) == /\ Closed(t, p, q, "'")
                       /\ q = (IF t[p + 1] = "backslash" THEN p + 3 ELSE p + 2)
\* The text from p to q is a token: IsToken, said of the file.
Spelled(t, p, q) ==
  \/ q = p /\ t[p] \in OneChar \cup ({x[1] : x \in Pairs} \ {"|"})
  \/ q = p + 1 /\ <<t[p], t[p + 1]>> \in Pairs
  \/ \A i \in p..q : t[i] \in Word /\ (t[p] \in Digits => t[i] \in Digits)
  \/ Closed(t, p, q, "quote") /\ \A i \in p + 1 .. q - 1 : t[i] = "quote" => Esc(t, p, i)
  \/ CharClosed(t, p, q)

LEMMA QuotedIs ==
  ASSUME NEW t \in Seq(Chars), NEW p \in 1..Len(t), NEW q \in p..Len(t), NEW c
  PROVE  Quoted(SubSeq(t, p, q), c) <=> Closed(t, p, q, c)
<1> DEFINE w == SubSeq(t, p, q)
           n == q - p + 1
<1>0. Len(t) \in Nat
  OBVIOUS
<1>1. Len(w) = n /\ \A i \in 1..n : w[i] = t[p + i - 1]
  BY PrefixIs
<1>2. \A i \in 1..n : EscapedIn(w, i) <=> Esc(t, p, p + i - 1)
  BY EscShift
<1> HIDE DEF w
<1>3. n \in Nat /\ n \in 1..n /\ 1 \in 1..n /\ p + 1 - 1 = p /\ p + n - 1 = q /\ (n >= 2 <=> q > p)
  BY <1>0
<1>4. \A i \in 2 .. n - 1 : i \in 1..n /\ p + i - 1 \in p + 1 .. q - 1
  BY <1>0
<1>5. \A k \in p + 1 .. q - 1 : k - p + 1 \in 2 .. n - 1 /\ p + (k - p + 1) - 1 = k
  BY <1>0
<1> HIDE DEF n
<1>6. (w[1] = c /\ w[Len(w)] = c) <=> (t[p] = c /\ t[q] = c)
  BY <1>1, <1>3
<1>7. EscapedIn(w, Len(w)) <=> Esc(t, p, q)
  BY <1>1, <1>2, <1>3
<1>8. (\A i \in 2 .. Len(w) - 1 : EscapedIn(w, i) => w[i] \in Escapes(c))
        <=> \A i \in p + 1 .. q - 1 : Esc(t, p, i) => t[i] \in Escapes(c)
  <2>1. ASSUME \A i \in 2 .. n - 1 : EscapedIn(w, i) => w[i] \in Escapes(c), NEW k \in p + 1 .. q - 1, Esc(t, p, k)
        PROVE  t[k] \in Escapes(c)
    <3> DEFINE i == k - p + 1
    <3>1. i \in 2 .. n - 1 /\ p + i - 1 = k /\ i \in 1..n
      BY <1>4, <1>5
    <3> HIDE DEF i
    <3> QED
      BY <2>1, <3>1, <1>1, <1>2
  <2>2. ASSUME \A i \in p + 1 .. q - 1 : Esc(t, p, i) => t[i] \in Escapes(c), NEW i \in 2 .. n - 1, EscapedIn(w, i)
        PROVE  w[i] \in Escapes(c)
    BY <2>2, <1>1, <1>2, <1>4
  <2> QED
    BY <2>1, <2>2, <1>1
<1>9. QED
  BY <1>1, <1>3, <1>6, <1>7, <1>8 DEF Quoted, Closed, w

LEMMA TokenText ==
  ASSUME NEW t \in Seq(Chars), NEW p \in 1..Len(t), NEW q \in p..Len(t)
  PROVE  IsToken(SubSeq(t, p, q)) <=> Spelled(t, p, q)
<1> DEFINE w == SubSeq(t, p, q)
           n == q - p + 1
<1>0. Len(t) \in Nat
  OBVIOUS
<1>1. Len(w) = n /\ \A i \in 1..n : w[i] = t[p + i - 1]
  BY PrefixIs
<1>2. w \in Seq(Chars)
  BY <1>0, SubSeqProperties
<1>3. \A i \in 1..n : EscapedIn(w, i) <=> Esc(t, p, p + i - 1)
  BY EscShift
<1>4. Quoted(w, "quote") <=> Closed(t, p, q, "quote")
  BY QuotedIs
<1>5. Quoted(w, "'") <=> Closed(t, p, q, "'")
  BY QuotedIs
<1> HIDE DEF w
<1>6. n \in Nat /\ n >= 1 /\ 1 \in 1..n /\ p + 1 - 1 = p /\ w[1] = t[p]
  BY <1>0, <1>1
<1>7. \A k \in p..q : k - p + 1 \in 1..n /\ p + (k - p + 1) - 1 = k
  BY <1>0
<1>8. \A i \in 1..n : p + i - 1 \in p..q
  BY <1>0
<1>9. (Len(w) = 1 /\ w[1] \in OneChar \cup ({x[1] : x \in Pairs} \ {"|"}))
        <=> (q = p /\ t[p] \in OneChar \cup ({x[1] : x \in Pairs} \ {"|"}))
  <2>1. Len(w) = 1 <=> q = p
    BY <1>0, <1>1
  <2> QED
    BY <2>1, <1>6
<1>10. w \in Pairs <=> (q = p + 1 /\ <<t[p], t[p + 1]>> \in Pairs)
  <2>1. ASSUME w \in Pairs PROVE q = p + 1 /\ <<t[p], t[p + 1]>> \in Pairs
    <3>1. w = <<w[1], w[2]>>
      BY <2>1, PairChars
    <3>2. n = 2
      BY <3>1, <1>1
    <3>3. w[2] = t[p + 1] /\ q = p + 1
      BY <3>2, <1>1, <1>0
    <3> QED
      BY <3>1, <3>3, <1>6, <2>1
  <2>2. ASSUME q = p + 1, <<t[p], t[p + 1]>> \in Pairs PROVE w \in Pairs
    <3>1. Len(w) = 2 /\ w[1] = t[p] /\ w[2] = t[p + 1]
      BY <2>2, <1>1, <1>6
    <3>2. w = <<t[p], t[p + 1]>>
      BY <3>1, <1>2
    <3> QED
      BY <2>2, <3>2
  <2> QED
    BY <2>1, <2>2
<1>11. (w # << >> /\ \A i \in 1..Len(w) : w[i] \in Word /\ (w[1] \in Digits => w[i] \in Digits))
         <=> \A i \in p..q : t[i] \in Word /\ (t[p] \in Digits => t[i] \in Digits)
  <2>1. w # << >>
    BY <1>1, <1>6
  <2>2. ASSUME \A i \in 1..n : w[i] \in Word /\ (w[1] \in Digits => w[i] \in Digits), NEW k \in p..q
        PROVE  t[k] \in Word /\ (t[p] \in Digits => t[k] \in Digits)
    <3> DEFINE i == k - p + 1
    <3>1. i \in 1..n /\ p + i - 1 = k
      BY <1>7
    <3> HIDE DEF i
    <3> QED
      BY <2>2, <3>1, <1>1, <1>6
  <2>3. ASSUME \A k \in p..q : t[k] \in Word /\ (t[p] \in Digits => t[k] \in Digits), NEW i \in 1..n
        PROVE  w[i] \in Word /\ (w[1] \in Digits => w[i] \in Digits)
    BY <2>3, <1>1, <1>6, <1>8
  <2> HIDE DEF n
  <2> QED
    BY <2>1, <2>2, <2>3, <1>1
<1>12. (\A i \in 2 .. Len(w) - 1 : w[i] = "quote" => EscapedIn(w, i))
         <=> \A i \in p + 1 .. q - 1 : t[i] = "quote" => Esc(t, p, i)
  <2>1. ASSUME \A i \in 2 .. n - 1 : w[i] = "quote" => EscapedIn(w, i), NEW k \in p + 1 .. q - 1, t[k] = "quote"
        PROVE  Esc(t, p, k)
    <3> DEFINE i == k - p + 1
    <3>1. i \in 2 .. n - 1 /\ i \in 1..n /\ p + i - 1 = k
      BY <1>0
    <3> HIDE DEF i
    <3> QED
      BY <2>1, <3>1, <1>1, <1>3
  <2>2. ASSUME \A k \in p + 1 .. q - 1 : t[k] = "quote" => Esc(t, p, k), NEW i \in 2 .. n - 1, w[i] = "quote"
        PROVE  EscapedIn(w, i)
    <3>1. i \in 1..n /\ p + i - 1 \in p + 1 .. q - 1
      BY <1>0
    <3> HIDE DEF n
    <3> QED
      BY <2>2, <3>1, <1>1, <1>3
  <2> HIDE DEF n
  <2> QED
    BY <2>1, <2>2, <1>1
<1>13. Closed(t, p, q, "'") =>
         (Len(w) = (IF w[2] = "backslash" THEN 4 ELSE 3) <=> q = (IF t[p + 1] = "backslash" THEN p + 3 ELSE p + 2))
  <2> SUFFICES ASSUME q > p
               PROVE  Len(w) = (IF w[2] = "backslash" THEN 4 ELSE 3)
                        <=> q = (IF t[p + 1] = "backslash" THEN p + 3 ELSE p + 2)
    BY DEF Closed
  <2>1. w[2] = t[p + 1]
    BY <1>0, <1>1
  <2>2. \A x \in Nat : Len(w) = x <=> q = p + x - 1
    BY <1>0, <1>1
  <2>3. 3 \in Nat /\ 4 \in Nat /\ p + 3 - 1 = p + 2 /\ p + 4 - 1 = p + 3
    BY <1>0
  <2> QED
    BY <2>1, <2>2, <2>3
<1>14. IsToken(w) <=> Spelled(t, p, q)
  BY <1>4, <1>5, <1>9, <1>10, <1>11, <1>12, <1>13, Zenon DEF IsToken, Spelled, CharClosed
<1>15. QED
  BY <1>14 DEF w

PairStarts == {"-", "&", "|", "=", "!", "<", ">"}
\* The characters a token of two begins with.
LEMMA PairFirst == {x[1] : x \in Pairs} = PairStarts
<1>1. \A x \in Pairs : x[1] \in PairStarts
  BY PairChars DEF PairStarts
<1>2. ASSUME NEW c \in PairStarts PROVE \E x \in Pairs : x[1] = c
  <2>1. CASE c \in {"=", "!", "<", ">"}
    <3>1. <<c, "=">> \in Pairs /\ <<c, "=">>[1] = c
      BY <2>1 DEF Pairs
    <3> QED
      BY <3>1
  <2>2. CASE c \in {"-", "&", "|"}
    <3>1. <<"-", ">">>[1] = "-" /\ <<"&", "&">>[1] = "&" /\ <<"|", "|">>[1] = "|"
      OBVIOUS
    <3>2. <<"-", ">">> \in Pairs /\ <<"&", "&">> \in Pairs /\ <<"|", "|">> \in Pairs
      BY DEF Pairs
    <3> QED
      BY <3>1, <3>2, <2>2
  <2> QED
    BY <2>1, <2>2 DEF PairStarts
<1>3. QED
  BY <1>1, <1>2

\* The kinds of first characters.
LEMMA Kinds ==
  /\ \A c \in Word : c \notin OneChar /\ c \notin PairStarts /\ c # "quote" /\ c # "'"
  /\ \A c \in OneChar : c \notin PairStarts /\ c # "quote" /\ c # "'"
  /\ \A c \in PairStarts : c # "quote" /\ c # "'"
BY DEF Word, Letters, Digits, OneChar, PairStarts

\* The first character says which kind of token can begin with it.
LEMMA SpelledByFirst ==
  ASSUME NEW t \in Seq(Chars), NEW p \in 1..Len(t), NEW q \in p..Len(t)
  PROVE  /\ t[p] \in OneChar => (Spelled(t, p, q) <=> q = p)
         /\ t[p] \in PairStarts =>
              (Spelled(t, p, q) <=> \/ q = p /\ t[p] # "|"
                                    \/ q = p + 1 /\ <<t[p], t[p + 1]>> \in Pairs)
         /\ t[p] \in Word =>
              (Spelled(t, p, q) <=> \A i \in p..q : t[i] \in Word /\ (t[p] \in Digits => t[i] \in Digits))
         /\ t[p] = "quote" =>
              (Spelled(t, p, q) <=> /\ Closed(t, p, q, "quote")
                                    /\ \A i \in p + 1 .. q - 1 : t[i] = "quote" => Esc(t, p, i))
         /\ t[p] = "'" =>
              (Spelled(t, p, q) <=> CharClosed(t, p, q))
         /\ Spelled(t, p, q) => t[p] \in OneChar \cup PairStarts \cup Word \cup {"quote", "'"}
<1> DEFINE c == t[p]
           one == q = p /\ c \in OneChar \cup ({x[1] : x \in Pairs} \ {"|"})
           two == q = p + 1 /\ <<c, t[p + 1]>> \in Pairs
           run == \A i \in p..q : t[i] \in Word /\ (t[p] \in Digits => t[i] \in Digits)
           str == Closed(t, p, q, "quote") /\ \A i \in p + 1 .. q - 1 : t[i] = "quote" => Esc(t, p, i)
           chr == CharClosed(t, p, q)
<1>1. Spelled(t, p, q) <=> one \/ two \/ run \/ str \/ chr
  BY DEF Spelled
<1>2. one <=> q = p /\ (c \in OneChar \/ (c \in PairStarts /\ c # "|"))
  BY PairFirst
<1>3. two => c \in PairStarts
  <2>1. two => <<c, t[p + 1]>>[1] = c
    OBVIOUS
  <2> QED
    BY <2>1, PairFirst
<1>4. run => c \in Word
  <2>1. p \in p..q
    OBVIOUS
  <2> QED
    BY <2>1
<1>5. (str => c = "quote") /\ (chr => c = "'")
  BY DEF Closed, CharClosed
<1>6. two <=> q = p + 1 /\ <<t[p], t[p + 1]>> \in Pairs
  OBVIOUS
<1> HIDE DEF one, two, run, str, chr
<1>7. /\ c \in OneChar => (Spelled(t, p, q) <=> q = p)
      /\ c \in PairStarts => (Spelled(t, p, q) <=> (q = p /\ c # "|") \/ two)
      /\ c \in Word => (Spelled(t, p, q) <=> run)
      /\ c = "quote" => (Spelled(t, p, q) <=> str)
      /\ c = "'" => (Spelled(t, p, q) <=> chr)
      /\ Spelled(t, p, q) => c \in OneChar \cup PairStarts \cup Word \cup {"quote", "'"}
  <2> HIDE DEF c
  <2>1. "quote" \notin OneChar \cup PairStarts \cup Word /\ "'" \notin OneChar \cup PairStarts \cup Word
    BY DEF Word, Letters, Digits, OneChar, PairStarts
  <2> QED
    BY <2>1, <1>1, <1>2, <1>3, <1>4, <1>5, Kinds
<1>8. QED
  BY <1>7, Zenon DEF two, run, str, chr

TokenEndsAt(t, p) == {q \in p..Len(t) : IsToken(SubSeq(t, p, q))}
\* What LongestToken says of one token, of type and end f, at p.
Longest(t, p, f) ==
  CASE f.tt = "EOF"   -> p = Len(t) + 1
    [] f.tt = "ERROR" -> \A q \in TokenEndsAt(t, p) : t[q] \in Word /\ At(t, q + 1) \in Word
    [] OTHER          -> f.to - 1 \in TokenEndsAt(t, p) /\ \A q \in TokenEndsAt(t, p) : q < f.to

LEMMA TokensSpelled ==
  ASSUME NEW t \in Seq(Chars), NEW p \in 1..Len(t)
  PROVE  TokenEndsAt(t, p) = {q \in p..Len(t) : Spelled(t, p, q)}
BY TokenText DEF TokenEndsAt

\* A token that is the longest, and an error where there is none.
LEMMA LongestIs ==
  ASSUME NEW t, NEW p, NEW a, NEW b, a \notin {"EOF", "ERROR"},
         b - 1 \in TokenEndsAt(t, p), \A q \in TokenEndsAt(t, p) : q < b
  PROVE  Longest(t, p, Found(a, b))
BY FoundFields DEF Longest

LEMMA NoToken ==
  ASSUME NEW t, NEW p, NEW b, TokenEndsAt(t, p) = {}
  PROVE  Longest(t, p, Found("ERROR", b))
<1>1. Found("ERROR", b).tt = "ERROR" /\ "ERROR" # "EOF"
  BY FoundFields
<1>2. QED
  BY <1>1 DEF Longest

\* Tokens of one character, of two, and the first of two alone.
LEMMA OneCharLongest ==
  ASSUME NEW t \in Seq(Chars), NEW p \in 1..Len(t), t[p] \in OneChar
  PROVE  Longest(t, p, Found(t[p], p + 1))
<1>1. TokenEndsAt(t, p) = {p}
  <2>1. \A q \in p..Len(t) : Spelled(t, p, q) <=> q = p
    BY SpelledByFirst
  <2>2. p \in p..Len(t)
    OBVIOUS
  <2> QED
    BY <2>1, <2>2, TokensSpelled
<1>2. (p + 1) - 1 = p /\ p < p + 1
  OBVIOUS
<1>3. t[p] \notin {"EOF", "ERROR"}
  BY DEF OneChar
<1>4. QED
  BY <1>1, <1>2, <1>3, LongestIs

LEMMA PairLongest ==
  ASSUME NEW t \in Seq(Chars), NEW p \in 1..Len(t), <<t[p], At(t, p + 1)>> \in Pairs
  PROVE  Longest(t, p, Found("PAIR", p + 2))
<1>0. Len(t) \in Nat
  OBVIOUS
<1>1. t[p] \in PairStarts /\ At(t, p + 1) # "eof"
  <2>1. <<t[p], At(t, p + 1)>>[1] = t[p] /\ <<t[p], At(t, p + 1)>>[2] = At(t, p + 1)
    OBVIOUS
  <2> QED
    BY <2>1, PairFirst, PairChars
<1>2. p + 1 \in p..Len(t) /\ At(t, p + 1) = t[p + 1]
  BY <1>0, <1>1, AtEnd
<1>3. \A q \in TokenEndsAt(t, p) : q = p \/ q = p + 1
  <2>1. ASSUME NEW q \in p..Len(t), Spelled(t, p, q) PROVE q = p \/ q = p + 1
    <3>1. Spelled(t, p, q) <=> \/ q = p /\ t[p] # "|"
                               \/ q = p + 1 /\ <<t[p], t[p + 1]>> \in Pairs
      BY <1>1, SpelledByFirst, Zenon
    <3> QED
      BY <2>1, <3>1, Zenon
  <2> QED
    BY <2>1, TokensSpelled
<1>4. p + 1 \in TokenEndsAt(t, p)
  BY <1>1, <1>2, SpelledByFirst, TokensSpelled
<1>5. (p + 2) - 1 = p + 1 /\ p < p + 2 /\ p + 1 < p + 2
  OBVIOUS
<1>6. QED
  BY <1>3, <1>4, <1>5, LongestIs

LEMMA PairStartLongest ==
  ASSUME NEW t \in Seq(Chars), NEW p \in 1..Len(t), t[p] \in PairStarts,
         <<t[p], At(t, p + 1)>> \notin Pairs
  PROVE  Longest(t, p, Found(IF t[p] = "|" THEN "ERROR" ELSE t[p], p + 1))
<1>1. \A q \in p..Len(t) : Spelled(t, p, q) <=> q = p /\ t[p] # "|"
  <2>1. \A q \in p..Len(t) : q = p + 1 => At(t, p + 1) = t[p + 1]
    BY DEF At
  <2> QED
    BY <2>1, SpelledByFirst
<1>2. p \in p..Len(t) /\ (p + 1) - 1 = p /\ p < p + 1
  OBVIOUS
<1>3. CASE t[p] = "|"
  <2>1. TokenEndsAt(t, p) = {}
    BY <1>1, <1>3, TokensSpelled
  <2> QED
    BY <2>1, <1>3, NoToken
<1>4. CASE t[p] # "|"
  <2>1. TokenEndsAt(t, p) = {p}
    BY <1>1, <1>2, <1>4, TokensSpelled
  <2>2. t[p] \notin {"EOF", "ERROR"}
    BY DEF PairStarts
  <2> QED
    BY <2>1, <2>2, <1>2, <1>4, LongestIs
<1>5. QED
  BY <1>3, <1>4

\* A run of word characters is the longest word, or a number with letters.
LEMMA WordLongest ==
  ASSUME NEW t \in Seq(Chars), NEW p \in 1..Len(t), t[p] \in Word
  PROVE  Longest(t, p, general_case(t, p))
<1>0. Len(t) \in Nat
  OBVIOUS
<1> DEFINE to == RunEnd(t, p)
           w  == SubSeq(t, p, to - 1)
           digits == \A i \in 1..Len(w) : w[i] \in Digits
<1>1. to \in p .. Len(t) + 1 /\ At(t, to) \notin Word /\ \A i \in p .. to - 1 : At(t, i) \in Word
  BY RunEnds
<1>2. At(t, p) = t[p] /\ to # p
  BY <1>0, <1>1 DEF At
<1>3. to - 1 \in p..Len(t) /\ (to - 1) - p + 1 = to - p
  BY <1>0, <1>1, <1>2
<1>4. Len(w) = to - p /\ \A i \in 1 .. to - p : w[i] = t[p + i - 1]
  <2> DEFINE q == to - 1
  <2>1. q \in p..Len(t) /\ q - p + 1 = to - p
    BY <1>3
  <2> HIDE DEF q
  <2>2. Len(SubSeq(t, p, q)) = q - p + 1 /\ \A i \in 1 .. q - p + 1 : SubSeq(t, p, q)[i] = t[p + i - 1]
    BY <2>1, PrefixIs
  <2> QED
    BY <2>1, <2>2 DEF q
<1>5. general_case(t, p) = Found(CASE w \in Keywords -> "KEYWORD"
                                   [] w # << >> /\ t[p] \in Word \ Digits -> "ID"
                                   [] w # << >> /\ digits -> "NUMBER"
                                   [] OTHER -> "ERROR", to)
  BY DEF general_case, RunEnd
<1> HIDE DEF w, to
<1>6. w # << >> /\ w[1] = t[p]
  <2>1. 1 \in 1 .. to - p /\ p + 1 - 1 = p
    BY <1>0, <1>1, <1>2
  <2>2. Len(w) # 0
    BY <1>0, <1>1, <1>2, <1>4
  <2> QED
    BY <1>4, <2>1, <2>2
<1>7. w \in Keywords => t[p] \notin Digits
  BY <1>6 DEF Keywords, Digits
<1>8. \A i \in p .. to - 1 : At(t, i) = t[i] /\ t[i] \in Word
  BY <1>0, <1>1 DEF At
<1>9. digits <=> \A i \in p .. to - 1 : t[i] \in Digits
  <2>1. ASSUME digits, NEW k \in p .. to - 1 PROVE t[k] \in Digits
    <3> DEFINE i == k - p + 1
    <3>1. i \in 1 .. to - p /\ p + i - 1 = k
      BY <1>0, <1>1
    <3> HIDE DEF i
    <3> QED
      BY <2>1, <3>1, <1>4
  <2>2. ASSUME \A i \in p .. to - 1 : t[i] \in Digits, NEW i \in 1 .. Len(w) PROVE w[i] \in Digits
    <3>1. i \in 1 .. to - p /\ p + i - 1 \in p .. to - 1
      BY <1>0, <1>1, <1>4
    <3> QED
      BY <2>2, <3>1, <1>4
  <2> QED
    BY <2>1, <2>2
<1>10. \A q \in p..Len(t) : q \in TokenEndsAt(t, p) <=>
          \A i \in p..q : t[i] \in Word /\ (t[p] \in Digits => t[i] \in Digits)
  <2>1. \A q \in p..Len(t) : Spelled(t, p, q) <=>
          \A i \in p..q : t[i] \in Word /\ (t[p] \in Digits => t[i] \in Digits)
    BY SpelledByFirst
  <2> QED
    BY <2>1, TokensSpelled
<1>11. \A q \in TokenEndsAt(t, p) : q \in p..Len(t) /\ q < to
  <2> SUFFICES ASSUME NEW q \in TokenEndsAt(t, p) PROVE q \in p..Len(t) /\ q < to
    OBVIOUS
  <2>1. q \in p..Len(t)
    BY DEF TokenEndsAt
  <2>2. CASE q < to
    BY <2>1, <2>2
  <2>3. CASE ~(q < to)
    <3>1. to \in p..q /\ to \in 1..Len(t)
      BY <2>1, <2>3, <1>0, <1>1
    <3>2. t[to] \in Word
      BY <2>1, <3>1, <1>10
    <3>3. At(t, to) = t[to]
      BY <3>1 DEF At
    <3> QED
      BY <3>2, <3>3, <1>1
  <2> QED
    BY <2>2, <2>3
<1>12. ASSUME t[p] \in Digits => digits PROVE to - 1 \in TokenEndsAt(t, p)
  BY <1>12, <1>3, <1>8, <1>9, <1>10
<1> HIDE DEF digits
<1>13. CASE t[p] \in Digits => digits
  <2>1. PICK a \in {"KEYWORD", "ID", "NUMBER"} : general_case(t, p) = Found(a, to)
    BY <1>5, <1>6, <1>13
  <2>2. a \notin {"EOF", "ERROR"}
    OBVIOUS
  <2> QED
    BY <2>1, <2>2, <1>11, <1>12, <1>13, LongestIs
<1>14. CASE t[p] \in Digits /\ ~digits
  <2>1. general_case(t, p) = Found("ERROR", to)
    BY <1>5, <1>7, <1>14
  <2>2. PICK k \in p .. to - 1 : t[k] \notin Digits
    BY <1>9, <1>14
  <2>3. ASSUME NEW q \in TokenEndsAt(t, p) PROVE t[q] \in Word /\ At(t, q + 1) \in Word
    <3>1. q \in p..Len(t) /\ q < to
      BY <1>11, <2>3
    <3>2. ~(k \in p..q)
      BY <3>1, <2>2, <2>3, <1>10, <1>14
    <3>3. q \in p .. to - 1 /\ q + 1 \in p .. to - 1
      BY <3>1, <3>2, <1>0, <1>1
    <3> QED
      BY <3>3, <1>8
  <2>4. Found("ERROR", to).tt = "ERROR"
    BY FoundFields
  <2> QED
    BY <2>1, <2>3, <2>4 DEF Longest
<1>15. QED
  BY <1>13, <1>14

\* The character at a position is the end exactly behind the text.
LEMMA EofIsEnd ==
  ASSUME NEW t \in Seq(Chars), NEW i \in 1 .. Len(t) + 1
  PROVE  At(t, i) = "eof" <=> i = Len(t) + 1
<1>1. i # Len(t) + 1 => i \in 1..Len(t) /\ t[i] \in Chars /\ At(t, i) = t[i]
  BY DEF At
<1>2. i = Len(t) + 1 => At(t, i) = "eof"
  BY DEF At
<1>3. QED
  BY <1>1, <1>2, CharsAssumption

\* A character literal has one length: the scan finds it or there is none.
LEMMA CharLongest ==
  ASSUME NEW t \in Seq(Chars), NEW p \in 1..Len(t), t[p] = "'"
  PROVE  Longest(t, p, handle_char_literal(t, p + 1))
<1>0. Len(t) \in Nat
  OBVIOUS
<1> DEFINE escaped == At(t, p + 1) = "backslash"
           end == IF escaped THEN p + 3 ELSE p + 2
<1>1. \A q \in p..Len(t) : q \in TokenEndsAt(t, p) <=>
         Closed(t, p, q, "'") /\ q = (IF t[p + 1] = "backslash" THEN p + 3 ELSE p + 2)
  <2>1. \A q \in p..Len(t) : Spelled(t, p, q) <=> CharClosed(t, p, q)
    BY SpelledByFirst, Zenon
  <2> QED
    BY <2>1, TokensSpelled DEF CharClosed
<1>2. ~Esc(t, p, p) /\ ~Esc(t, p, p + 1)
  <2>1. p \in Nat /\ t[p] # "backslash"
    OBVIOUS
  <2> QED
    BY <2>1, EscEarly, Zenon
<1>3. \A i \in 1..Len(t) : At(t, i) = t[i]
  BY DEF At
<1>4. \A i \in Nat : i > Len(t) => At(t, i) = "eof"
  BY <1>0 DEF At
<1>5. \A q \in TokenEndsAt(t, p) : q \in p..Len(t)
  BY DEF TokenEndsAt
<1>6. ASSUME end \in 1..Len(t) PROVE end \in p..Len(t) /\ p + 1 \in 1..Len(t)
  BY <1>0, <1>6
<1>7. \A q \in TokenEndsAt(t, p) : q = end /\ Closed(t, p, end, "'") /\ end \in 1..Len(t)
  <2> SUFFICES ASSUME NEW q \in TokenEndsAt(t, p) PROVE q = end /\ Closed(t, p, end, "'") /\ end \in 1..Len(t)
    OBVIOUS
  <2>1. Closed(t, p, q, "'") /\ q = (IF t[p + 1] = "backslash" THEN p + 3 ELSE p + 2) /\ q \in p..Len(t)
    BY <1>1, <1>5
  <2>2. p + 1 \in 1..Len(t)
    BY <2>1, <1>0
  <2> QED
    BY <2>1, <2>2, <1>3
<1>8. ASSUME end \in 1..Len(t), Closed(t, p, end, "'") PROVE end \in TokenEndsAt(t, p)
  BY <1>1, <1>3, <1>6, <1>8
<1>9. Closed(t, p, end, "'") => At(t, end) = "'" \/ ~(end \in 1..Len(t))
  BY <1>3 DEF Closed
<1>10. escaped => Esc(t, p, p + 2) /\ ~Esc(t, p, p + 3)
  <2> SUFFICES ASSUME escaped PROVE Esc(t, p, p + 2) /\ ~Esc(t, p, p + 3)
    OBVIOUS
  <2>1. t[p + 1] = "backslash"
    BY <1>0 DEF At
  <2>2. p \in Nat /\ t[p] # "backslash"
    OBVIOUS
  <2> QED
    BY <2>1, <2>2, EscEarly, Zenon
<1>11. CASE At(t, p + 1) = "eof"
  <2>1. handle_char_literal(t, p + 1) = Found("ERROR", p + 1)
    BY <1>11 DEF handle_char_literal
  <2>2. ~(end \in 1..Len(t))
    <3>1. p + 1 \in 1 .. Len(t) + 1
      BY <1>0
    <3> QED
      BY <3>1, <1>11, <1>0, EofIsEnd
  <2> QED
    BY <2>1, <2>2, <1>7, NoToken
<1>12. CASE At(t, p + 1) # "eof" /\ escaped /\ At(t, p + 2) \notin Escapes("'")
  <2>1. (p + 1) + 1 = p + 2 /\ (p + 1) + 2 = p + 3
    OBVIOUS
  <2>2. handle_char_literal(t, p + 1) = Found("ERROR", Cap(t, p + 3))
    BY <2>1, <1>12 DEF handle_char_literal
  <2>3. ASSUME Closed(t, p, end, "'"), end \in 1..Len(t) PROVE FALSE
    <3>1. p + 2 \in p + 1 .. end - 1 /\ p + 2 \in 1..Len(t)
      BY <1>12, <2>3, <1>0
    <3>2. t[p + 2] \in Escapes("'")
      BY <3>1, <2>3, <1>10, <1>12 DEF Closed
    <3> QED
      BY <3>1, <3>2, <1>3, <1>12
  <2>4. TokenEndsAt(t, p) = {}
    BY <2>3, <1>7
  <2> QED
    BY <2>2, <2>4, NoToken
<1>13. CASE At(t, p + 1) # "eof" /\ (escaped => At(t, p + 2) \in Escapes("'"))
  <2>1. (p + 1) + 1 = p + 2 /\ (p + 1) + 2 = p + 3
    OBVIOUS
  <2>2. handle_char_literal(t, p + 1) =
          Found(IF At(t, end) = "'" THEN "CHAR_LITERAL" ELSE "ERROR", Cap(t, end + 1))
    BY <2>1, <1>13 DEF handle_char_literal
  <2>3. CASE At(t, end) = "'"
    <3>1. end \in 1..Len(t) /\ t[end] = "'"
      <4>1. end \in Nat \ {0} /\ At(t, end) # "eof"
        BY <2>3
      <4> QED
        BY <4>1, <2>3, AtEnd
    <3>2. Cap(t, end + 1) = end + 1 /\ (end + 1) - 1 = end /\ end < end + 1
      BY <3>1, <1>0 DEF Cap
    <3>3. Closed(t, p, end, "'")
      <4>1. CASE escaped
        <5>1. end = p + 3 /\ \A i \in p + 1 .. end - 1 : i = p + 1 \/ i = p + 2
          BY <4>1
        <5>2. t[p + 2] \in Escapes("'")
          BY <4>1, <3>1, <5>1, <1>13, <1>0, <1>3
        <5> HIDE DEF end
        <5> QED
          BY <5>1, <5>2, <3>1, <4>1, <1>2, <1>10 DEF Closed
      <4>2. CASE ~escaped
        <5>1. end = p + 2 /\ \A i \in p + 1 .. end - 1 : i = p + 1
          BY <4>2
        <5>2. p + 1 \in 1..Len(t) /\ t[p + 1] # "backslash"
          BY <4>2, <3>1, <5>1, <1>0, <1>3
        <5>3. ~Esc(t, p, p + 2)
          <6>1. p \in Nat /\ t[p] # "backslash"
            OBVIOUS
          <6> QED
            BY <6>1, <5>2, EscEarly, Zenon
        <5> HIDE DEF end
        <5> QED
          BY <5>1, <5>3, <3>1, <1>2 DEF Closed
      <4> QED
        BY <4>1, <4>2
    <3>4. end \in TokenEndsAt(t, p)
      BY <3>1, <3>3, <1>8
    <3> HIDE DEF end
    <3>5. "CHAR_LITERAL" \notin {"EOF", "ERROR"} /\ handle_char_literal(t, p + 1) = Found("CHAR_LITERAL", end + 1)
      BY <2>2, <2>3, <3>2
    <3>6. \A q \in TokenEndsAt(t, p) : q < end + 1
      BY <1>7, <3>2
    <3> QED
      BY <3>2, <3>4, <3>5, <3>6, LongestIs
  <2>4. CASE At(t, end) # "'"
    <3>1. TokenEndsAt(t, p) = {}
      BY <1>7, <1>9, <2>4
    <3> HIDE DEF end
    <3> QED
      BY <2>2, <2>4, <3>1, NoToken
  <2> QED
    BY <2>3, <2>4
<1>14. QED
  BY <1>11, <1>12, <1>13

\* A string literal from p closes at e, as seen from i in it.
ClosesAt(t, p, i, e) ==
  /\ e \in i..Len(t) /\ t[e] = "quote" /\ ~Esc(t, p, e)
  /\ \A k \in i .. e - 1 : /\ Esc(t, p, k) => t[k] \in Escapes("quote")
                           /\ t[k] = "quote" => Esc(t, p, k)
\* What the scan of a string finds from i on.
ReadRight(t, p, i, f) ==
  \/ f.tt = "STRING_LITERAL" /\ ClosesAt(t, p, i, f.to - 1)
  \/ f.tt = "ERROR" /\ \A e : ~ClosesAt(t, p, i, e)

\* A string closes where it does as seen from any later position in it.
LEMMA ClosesOn ==
  ASSUME NEW t \in Seq(Chars), NEW p \in 1..Len(t), NEW i \in p..Len(t), NEW j \in i + 1 .. Len(t) + 1,
         ~(t[i] = "quote" /\ ~Esc(t, p, i)),
         \A k \in i .. j - 1 : /\ Esc(t, p, k) => t[k] \in Escapes("quote")
                               /\ t[k] = "quote" => Esc(t, p, k)
  PROVE  \A e : ClosesAt(t, p, i, e) <=> ClosesAt(t, p, j, e)
<1>0. Len(t) \in Nat
  OBVIOUS
<1> SUFFICES ASSUME NEW e PROVE ClosesAt(t, p, i, e) <=> ClosesAt(t, p, j, e)
  OBVIOUS
<1>1. ASSUME ClosesAt(t, p, j, e) PROVE ClosesAt(t, p, i, e)
  <2>1. e \in i..Len(t)
    BY <1>0, <1>1 DEF ClosesAt
  <2>2. \A k \in i .. e - 1 : k \in i .. j - 1 \/ k \in j .. e - 1
    BY <1>0, <2>1
  <2> QED
    BY <1>1, <2>1, <2>2 DEF ClosesAt
<1>2. ASSUME ClosesAt(t, p, i, e) PROVE ClosesAt(t, p, j, e)
  <2>1. e \in i..Len(t) /\ t[e] = "quote" /\ ~Esc(t, p, e)
    BY <1>2 DEF ClosesAt
  <2>2. ~(e \in i .. j - 1)
    BY <2>1
  <2>3. e \in j..Len(t) /\ \A k \in j .. e - 1 : k \in i .. e - 1
    BY <1>0, <2>1, <2>2
  <2> QED
    BY <1>2, <2>1, <2>3 DEF ClosesAt
<1>3. QED
  BY <1>1, <1>2

\* The scan of a string keeps in step with the backslashes: where it reads on,
\* the character is not escaped.
LEMMA StringRead ==
  ASSUME NEW t \in Seq(Chars), NEW p \in 1..Len(t), t[p] = "quote"
  PROVE  ReadRight(t, p, p + 1, handle_strings(t, p + 1))
<1>0. Len(t) \in Nat
  OBVIOUS
<1> DEFINE n == Len(t) + 1
<1>1. PICK f : ReadIs(t, f) /\ handle_strings(t, p + 1) = f[p + 1]
  BY <1>0, ReadExists DEF handle_strings, ReadIs
<1> DEFINE G == {i \in p + 1 .. n : ~Esc(t, p, i) => ReadRight(t, p, i, f[i])}
<1>2. ASSUME NEW i \in p + 1 .. n, \A j \in i + 1 .. n : j \in G PROVE i \in G
  <2> SUFFICES ASSUME ~Esc(t, p, i) PROVE ReadRight(t, p, i, f[i])
    OBVIOUS
  <2>0. i \in 1..n /\ i \in Nat /\ p \in Nat /\ p <= i
    BY <1>0
  <2>1. f[i] = CASE At(t, i) = "eof" -> Found("ERROR", i)
                 [] At(t, i) = "quote" -> Found("STRING_LITERAL", i + 1)
                 [] At(t, i) = "backslash" -> IF At(t, i + 1) \in Escapes("quote")
                                       THEN f[i + 2]
                                       ELSE Found("ERROR", Cap(t, i + 2))
                 [] OTHER -> f[i + 1]
    BY <1>1, <2>0 DEF ReadIs
  <2>2. ASSUME NEW j \in i + 1 .. n, f[i] = f[j], ~Esc(t, p, j),
               \A e : ClosesAt(t, p, i, e) <=> ClosesAt(t, p, j, e)
        PROVE  ReadRight(t, p, i, f[i])
    <3>1. ReadRight(t, p, j, f[j])
      BY <1>2, <2>2
    <3> QED
      BY <3>1, <2>2 DEF ReadRight
  <2>3. CASE At(t, i) = "eof"
    <3>1. f[i] = Found("ERROR", i) /\ i = n
      BY <2>0, <2>1, <2>3, EofIsEnd
    <3>2. \A e : ~ClosesAt(t, p, i, e)
      BY <3>1, <1>0 DEF ClosesAt
    <3> QED
      BY <3>1, <3>2, FoundFields DEF ReadRight
  <2>4. CASE At(t, i) # "eof"
    <3>1. i \in p..Len(t) /\ i \in 1..Len(t) /\ At(t, i) = t[i] /\ i + 1 \in 1..n /\ i + 1 \in i + 1 .. n
      BY <2>0, <2>4, <1>0, AtEnd
    <3>2. Esc(t, p, i + 1) <=> t[i] = "backslash"
      <4>1. Esc(t, p, i + 1) <=> t[i] = "backslash" /\ ~Esc(t, p, i)
        BY <2>0, EscNext, Zenon
      <4> QED
        BY <4>1
    <3>3. CASE t[i] = "quote"
      <4>1. f[i] = Found("STRING_LITERAL", i + 1) /\ (i + 1) - 1 = i
        BY <2>0, <2>1, <3>1, <3>3
      <4>2. ClosesAt(t, p, i, i)
        BY <3>1, <3>3 DEF ClosesAt
      <4> QED
        BY <4>1, <4>2, FoundFields DEF ReadRight
    <3>4. CASE t[i] = "backslash"
      <4>1. CASE At(t, i + 1) \in Escapes("quote")
        <5>1. f[i] = f[i + 2]
          BY <2>1, <3>1, <3>4, <4>1
        <5>2. i + 1 \in 1..Len(t) /\ t[i + 1] \in Escapes("quote") /\ i + 2 \in i + 1 .. n
          <6>1. At(t, i + 1) # "eof"
            BY <4>1 DEF Escapes
          <6>2. i + 1 \in Nat \ {0}
            BY <2>0
          <6> QED
            BY <4>1, <6>1, <6>2, <2>0, <1>0, AtEnd
        <5>3. ~Esc(t, p, i + 2)
          <6>1. Esc(t, p, i + 2) <=> t[i + 1] = "backslash" /\ ~Esc(t, p, i + 1)
            BY <2>0, EscNextButOne, Zenon
          <6> QED
            BY <6>1, <3>2, <3>4
        <5>4. \A e : ClosesAt(t, p, i, e) <=> ClosesAt(t, p, i + 2, e)
          <6>1. \A k \in i .. (i + 2) - 1 : k = i \/ k = i + 1
            BY <2>0
          <6> QED
            BY <6>1, <3>1, <3>2, <3>4, <5>2, ClosesOn
        <5> QED
          BY <5>1, <5>2, <5>3, <5>4, <2>2
      <4>2. CASE At(t, i + 1) \notin Escapes("quote")
        <5>1. f[i] = Found("ERROR", Cap(t, i + 2))
          BY <2>1, <3>1, <3>4, <4>2
        <5>2. ASSUME NEW e, ClosesAt(t, p, i, e) PROVE FALSE
          <6>1. e \in i..Len(t) /\ t[e] = "quote" /\ ~Esc(t, p, e)
            BY <5>2 DEF ClosesAt
          <6>2. e # i /\ e # i + 1
            BY <6>1, <3>2, <3>4
          <6>3. i + 1 \in i .. e - 1 /\ i + 1 \in 1..Len(t)
            BY <6>1, <6>2, <2>0, <1>0
          <6>4. t[i + 1] \in Escapes("quote")
            BY <5>2, <6>3, <3>2, <3>4 DEF ClosesAt
          <6>5. At(t, i + 1) = t[i + 1]
            BY <6>3 DEF At
          <6> QED
            BY <6>4, <6>5, <4>2
        <5> QED
          BY <5>1, <5>2, FoundFields DEF ReadRight
      <4> QED
        BY <4>1, <4>2
    <3>5. CASE t[i] \notin {"quote", "backslash"}
      <4>1. f[i] = f[i + 1]
        BY <2>1, <2>4, <3>1, <3>5
      <4>2. \A e : ClosesAt(t, p, i, e) <=> ClosesAt(t, p, i + 1, e)
        <5>1. \A k \in i .. (i + 1) - 1 : k = i
          BY <2>0
        <5> QED
          BY <5>1, <3>1, <3>5, ClosesOn
      <4> QED
        BY <4>1, <4>2, <3>1, <3>2, <3>5, <2>2
    <3> QED
      BY <3>3, <3>4, <3>5
  <2> QED
    BY <2>3, <2>4
<1>3. p + 1 .. n \subseteq G
  <2>1. p + 1 \in Nat /\ n \in Nat
    BY <1>0
  <2> HIDE DEF G, n
  <2> QED
    BY <1>2, <2>1, Downward
<1>4. ~Esc(t, p, p + 1)
  <2>1. p \in Nat /\ t[p] # "backslash"
    OBVIOUS
  <2> QED
    BY <2>1, EscEarly, Zenon
<1>5. p + 1 \in p + 1 .. n
  BY <1>0
<1>6. QED
  BY <1>1, <1>3, <1>4, <1>5

\* A string literal closes in one place, which the scan finds.
LEMMA StringLongest ==
  ASSUME NEW t \in Seq(Chars), NEW p \in 1..Len(t), t[p] = "quote"
  PROVE  Longest(t, p, handle_strings(t, p + 1))
<1>0. Len(t) \in Nat
  OBVIOUS
<1> DEFINE f == handle_strings(t, p + 1)
<1>1. ReadRight(t, p, p + 1, f) /\ f.to \in 1 .. Len(t) + 1
  <2>1. p + 1 \in 1 .. Len(t) + 1
    BY <1>0
  <2>2. Ends(t, p + 1, f)
    BY <2>1, <1>0, StringEnds
  <2>3. f.to \in p + 1 .. Len(t) + 1
    BY <2>2 DEF Ends
  <2> QED
    BY <2>3, <1>0, StringRead
<1> HIDE DEF f
<1>2. \A q \in p..Len(t) : q \in TokenEndsAt(t, p) <=> ClosesAt(t, p, p + 1, q)
  <2>1. ASSUME NEW q \in p..Len(t)
        PROVE  Spelled(t, p, q) <=> ClosesAt(t, p, p + 1, q)
    <3>1. Spelled(t, p, q) <=> /\ Closed(t, p, q, "quote")
                               /\ \A i \in p + 1 .. q - 1 : t[i] = "quote" => Esc(t, p, i)
      BY SpelledByFirst, Zenon
    <3>2. q \in p + 1 .. Len(t) <=> q > p
      BY <1>0
    <3> QED
      BY <3>1, <3>2 DEF Closed, ClosesAt
  <2> QED
    BY <2>1, TokensSpelled
<1>3. \A e : ClosesAt(t, p, p + 1, e) => e \in p..Len(t)
  BY <1>0 DEF ClosesAt
<1>4. \A q : q \in TokenEndsAt(t, p) <=> ClosesAt(t, p, p + 1, q)
  BY <1>2, <1>3 DEF TokenEndsAt
<1>5. CASE f.tt = "STRING_LITERAL" /\ ClosesAt(t, p, p + 1, f.to - 1)
  <2> DEFINE e == f.to - 1
  <2>1. ClosesAt(t, p, p + 1, e) /\ e \in TokenEndsAt(t, p)
    BY <1>4, <1>5
  <2> HIDE DEF e
  <2>2. ASSUME NEW q \in TokenEndsAt(t, p) PROVE q <= e
    <3>1. ClosesAt(t, p, p + 1, q)
      BY <1>4, <2>2
    <3>2. e \in p + 1 .. Len(t) /\ q \in p + 1 .. Len(t) /\ t[e] = "quote" /\ ~Esc(t, p, e)
      BY <2>1, <3>1 DEF ClosesAt
    <3>3. ~(e \in p + 1 .. q - 1)
      BY <3>1, <3>2 DEF ClosesAt
    <3> QED
      BY <3>2, <3>3, <1>0
  <2>3. e \in Nat /\ \A q \in TokenEndsAt(t, p) : q < f.to
    <3>1. \A q \in TokenEndsAt(t, p) : q \in Nat
      BY DEF TokenEndsAt
    <3> QED
      BY <3>1, <2>1, <2>2, <1>0, <1>1 DEF e, ClosesAt
  <2>4. "STRING_LITERAL" # "EOF" /\ "STRING_LITERAL" # "ERROR"
    OBVIOUS
  <2>5. Longest(t, p, f)
    BY <1>5, <2>1, <2>3, <2>4 DEF Longest, e
  <2> QED
    BY <2>5 DEF f
<1>6. CASE f.tt = "ERROR" /\ \A e : ~ClosesAt(t, p, p + 1, e)
  <2>1. Longest(t, p, f)
    BY <1>4, <1>6 DEF Longest
  <2> QED
    BY <2>1 DEF f
<1>7. QED
  BY <1>1, <1>5, <1>6 DEF ReadRight, f

\* A character no token begins with is an error, and is not passed.
LEMMA OtherLongest ==
  ASSUME NEW t \in Seq(Chars), NEW p \in 1..Len(t),
         t[p] \notin OneChar \cup PairStarts \cup Word \cup {"quote", "'"}
  PROVE  Longest(t, p, general_case(t, p))
<1>0. Len(t) \in Nat /\ p \in 1 .. Len(t) + 1
  OBVIOUS
<1> DEFINE to == RunEnd(t, p)
           w == SubSeq(t, p, to - 1)
<1>1. to \in p .. Len(t) + 1 /\ \A i \in p .. to - 1 : At(t, i) \in Word
  BY <1>0, RunEnds
<1>2. to = p
  <2> SUFFICES ASSUME to # p PROVE FALSE
    OBVIOUS
  <2>1. p \in p .. to - 1
    BY <1>0, <1>1
  <2>2. At(t, p) = t[p]
    BY <1>0 DEF At
  <2> QED
    BY <1>1, <2>1, <2>2
<1>3. w = << >>
  BY <1>0, <1>2, SubSeqProperties
<1>4. general_case(t, p) = Found(CASE w \in Keywords -> "KEYWORD"
                                   [] w # << >> /\ t[p] \in Word \ Digits -> "ID"
                                   [] w # << >> /\ \A i \in 1..Len(w) : w[i] \in Digits -> "NUMBER"
                                   [] OTHER -> "ERROR", to)
  BY DEF general_case, RunEnd
<1> HIDE DEF w, to
<1>5. << >> \notin Keywords
  <2>1. Len(<<"i", "f">>) = 2 /\ Len(<< >>) = 0
    OBVIOUS
  <2> QED
    BY <2>1 DEF Keywords
<1>6. general_case(t, p) = Found("ERROR", to)
  BY <1>3, <1>4, <1>5
<1>7. TokenEndsAt(t, p) = {}
  <2>1. \A q \in p..Len(t) : ~Spelled(t, p, q)
    BY SpelledByFirst, Zenon
  <2> QED
    BY <2>1, TokensSpelled
<1>8. QED
  BY <1>6, <1>7, NoToken

\* Each first character leads to the function for its kind of token.
LEMMA TokenLongest ==
  ASSUME NEW t \in Seq(Chars), NEW p \in 1 .. Len(t) + 1
  PROVE  Longest(t, p, lexer_gettoken_internal(t, p))
<1> DEFINE c1 == At(t, p)
           c2 == At(t, p + 1)
           pair == {q \in Pairs : q[1] = c1}
           f == lexer_gettoken_internal(t, p)
<1>1. CASE c1 = "eof"
  <2>1. f = Found("EOF", p)
    <3>1. c1 \notin OneChar /\ c1 # "quote" /\ c1 # "'" /\ c1 \notin PairStarts
      BY <1>1 DEF OneChar, PairStarts
    <3>2. pair = {}
      BY <3>1, PairFirst
    <3> DEFINE two == <<c1, c2>> \in pair
               some == pair # {}
               e == Found(IF c1 = "|" THEN "ERROR" ELSE c1, p + 1)
    <3>3. f = CASE c1 = "eof"        -> Found("EOF", p)
                [] c1 \in OneChar    -> Found(c1, p + 1)
                [] c1 = "quote"      -> handle_strings(t, p + 1)
                [] c1 = "'"          -> handle_char_literal(t, p + 1)
                [] two               -> Found("PAIR" , p + 2)
                [] some /\ <<c1, c2>> \notin pair -> e
                [] OTHER             -> general_case(t, p)
      BY DEF lexer_gettoken_internal
    <3>4. ~two /\ ~some
      BY <3>2
    <3> HIDE DEF c1, pair, f, two, some, e
    <3> QED
      BY <1>1, <3>1, <3>3, <3>4
  <2>2. p = Len(t) + 1
    BY <1>1, EofIsEnd
  <2> QED
    BY <2>1, <2>2, FoundFields DEF Longest
<1>2. CASE c1 # "eof"
  <2>1. p \in 1..Len(t) /\ c1 = t[p]
    <3>1. Len(t) \in Nat /\ p \in Nat \ {0}
      OBVIOUS
    <3> QED
      BY <3>1, <1>2, AtEnd
  <2>2. pair # {} <=> c1 \in PairStarts
    BY PairFirst
  <2>3. <<c1, c2>> \in pair <=> <<c1, c2>> \in Pairs
    OBVIOUS
  <2> DEFINE some == pair # {}
             two == <<c1, c2>> \in pair
             e == Found(IF c1 = "|" THEN "ERROR" ELSE c1, p + 1)
  <2>4. f = CASE c1 = "eof"        -> Found("EOF", p)
              [] c1 \in OneChar    -> Found(c1, p + 1)
              [] c1 = "quote"      -> handle_strings(t, p + 1)
              [] c1 = "'"          -> handle_char_literal(t, p + 1)
              [] two               -> Found("PAIR" , p + 2)
              [] some /\ <<c1, c2>> \notin pair -> e
              [] OTHER             -> general_case(t, p)
    BY DEF lexer_gettoken_internal
  <2>5. two => some
    OBVIOUS
  <2>6. "quote" \notin OneChar \cup PairStarts \cup Word /\ "'" \notin OneChar \cup PairStarts \cup Word
    BY DEF Word, Letters, Digits, OneChar, PairStarts
  <2> HIDE DEF c1, pair, f, two, some, e
  <2>7. CASE c1 \in OneChar
    <3>1. f = Found(c1, p + 1)
      BY <2>2, <2>4, <2>5, <2>6, <2>7, <1>2, Kinds DEF two, some
    <3> QED
      BY <3>1, <2>1, <2>7, OneCharLongest DEF f
  <2>8. CASE c1 = "quote"
    <3>1. f = handle_strings(t, p + 1)
      BY <2>2, <2>4, <2>5, <2>6, <2>8, <1>2 DEF two, some
    <3> QED
      BY <3>1, <2>1, <2>8, StringLongest DEF f
  <2>9. CASE c1 = "'"
    <3>1. f = handle_char_literal(t, p + 1)
      BY <2>2, <2>4, <2>5, <2>6, <2>9, <1>2 DEF two, some
    <3> QED
      BY <3>1, <2>1, <2>9, CharLongest DEF f
  <2>10. CASE c1 \in PairStarts
    <3>1. ~(c1 \in OneChar) /\ c1 # "quote" /\ c1 # "'"
      BY <2>10, Kinds
    <3>2. CASE two
      <4>1. f = Found("PAIR", p + 2)
        BY <3>1, <3>2, <2>4, <1>2 DEF two
      <4> QED
        BY <4>1, <3>2, <2>1, <2>3, PairLongest DEF f, two
    <3>3. CASE ~two
      <4>1. f = e
        BY <3>1, <3>3, <2>2, <2>4, <2>10, <1>2 DEF two, some
      <4>2. <<t[p], At(t, p + 1)>> \notin Pairs
        BY <3>3, <2>1, <2>3 DEF two
      <4>3. Longest(t, p, Found(IF t[p] = "|" THEN "ERROR" ELSE t[p], p + 1))
        BY <4>2, <2>1, <2>10, PairStartLongest
      <4> QED
        BY <4>1, <4>3, <2>1 DEF f, e
    <3> QED
      BY <3>2, <3>3
  <2>11. CASE c1 \notin OneChar \cup PairStarts \cup {"quote", "'"}
    <3>1. f = general_case(t, p)
      BY <2>2, <2>4, <2>5, <2>11, <1>2 DEF two, some
    <3>2. CASE t[p] \in Word
      BY <3>1, <3>2, <2>1, WordLongest DEF f
    <3>3. CASE t[p] \notin Word
      BY <3>1, <3>3, <2>1, <2>11, OtherLongest DEF f
    <3> QED
      BY <3>2, <3>3
  <2> QED
    BY <2>7, <2>8, <2>9, <2>10, <2>11
<1>3. QED
  BY <1>1, <1>2

\* One scan finds the longest token behind the blanks.
LEMMA ScanLongest ==
  ASSUME NEW t \in Seq(Chars), NEW from \in 1 .. Len(t) + 1, NEW ln
  PROVE  Longest(t, Token(t, from, ln).from, Token(t, from, ln))
<1> DEFINE p == skip_whitespace_comments(t, from)
           f == lexer_gettoken_internal(t, p)
           m == Newlines(t, from, p)
<1>0. Len(t) \in Nat
  OBVIOUS
<1>1. SkippedTo(t, from, p)
  BY <1>0, Skipped
<1>2. Token(t, from, ln) = [tt |-> f.tt, from |-> p, to |-> f.to, line |-> ln + m]
  BY DEF Token
<1> HIDE DEF p
<1>3. p \in 1 .. Len(t) + 1
  BY <1>0, <1>1 DEF SkippedTo
<1>4. Longest(t, p, f)
  BY <1>3, TokenLongest
<1> HIDE DEF f, m
<1>5. Token(t, from, ln).from = p /\ Token(t, from, ln).tt = f.tt /\ Token(t, from, ln).to = f.to
  BY <1>2
<1>6. QED
  BY <1>4, <1>5 DEF Longest
-----------------------------------------------------------------------------
(* Each token delivered is what one scan finds behind the one before.      *)

\* d is what a scan from s on line l finds.
Scanned(s, l, d) ==
  /\ SkippedTo(text, s, d.from)
  /\ d.to \in d.from .. Len(text) + 1
  /\ d.line = l + Cardinality(NewlinesIn(text, s, d.from))
  /\ Longest(text, d.from, d)
\* Where the scan for the k-th token began, and on which line.
StartOf(k) == IF k = 1 THEN 1 ELSE delivered[k - 1].to
LineAt(k) == IF k = 1 THEN 1 ELSE delivered[k - 1].line

Chain ==
  /\ text \in Seq(Chars) /\ delivered \in Seq(TokenRecord)
  /\ \A k \in 1..Len(delivered) : delivered[k].to \in 1 .. Len(text) + 1
  /\ \A k \in 1..Len(delivered) : Scanned(StartOf(k), LineAt(k), delivered[k])

LEMMA NextToken ==
  ASSUME text \in Seq(Chars), NEW from \in 1 .. Len(text) + 1, NEW l \in Nat
  PROVE  /\ Token(text, from, l) \in TokenRecord
         /\ Token(text, from, l).to \in 1 .. Len(text) + 1 /\ Token(text, from, l).line \in Nat
         /\ Scanned(from, l, Token(text, from, l))
<1> DEFINE d == Token(text, from, l)
<1>1. /\ d \in TokenRecord /\ SkippedTo(text, from, d.from) /\ d.to \in d.from .. Len(text) + 1
      /\ d.line = l + Cardinality(NewlinesIn(text, from, d.from))
  <2>1. Len(text) \in Nat
    OBVIOUS
  <2> QED
    BY <2>1, TokenIs
<1> HIDE DEF d
<1>2. d.from \in from .. Len(text) + 1 /\ d.line \in Nat
  BY <1>1 DEF SkippedTo, TokenRecord
<1>3. d.to \in 1 .. Len(text) + 1
  BY <1>1, <1>2
<1>4. Scanned(from, l, d)
  <2>1. Longest(text, d.from, d)
    BY ScanLongest DEF d
  <2> QED
    BY <1>1, <2>1 DEF Scanned
<1>5. QED
  BY <1>1, <1>2, <1>3, <1>4 DEF d

\* The stream goes on behind the last token.
LEMMA StreamPosition ==
  ASSUME Chain
  PROVE  /\ Stream!From \in 1 .. Len(text) + 1 /\ Stream!Line \in Nat
         /\ Stream!From = (IF Len(delivered) = 0 THEN 1 ELSE delivered[Len(delivered)].to)
         /\ Stream!Line = (IF Len(delivered) = 0 THEN 1 ELSE delivered[Len(delivered)].line)
<1>1. delivered \in Seq(TokenRecord) /\ text \in Seq(Chars) /\ Len(text) \in Nat
  BY DEF Chain
<1>2. CASE delivered = << >>
  BY <1>1, <1>2 DEF Stream!From, Stream!Line
<1>3. CASE delivered # << >>
  <2>1. Len(delivered) \in 1..Len(delivered)
    BY <1>1, <1>3
  <2>2. delivered[Len(delivered)] \in TokenRecord
    BY <1>1, <2>1
  <2> QED
    BY <1>1, <1>3, <2>1, <2>2 DEF Chain, Stream!From, Stream!Line, Stream!Last, TokenRecord
<1>4. QED
  BY <1>2, <1>3

LEMMA ChainGet ==
  ASSUME Chain, IInv, lexer_gettoken PROVE Chain'
<1> DEFINE d == Token(text, Stream!From, Stream!Line)
           n == Len(delivered)
<1>1. delivered' = Append(delivered, d) /\ text' = text
  BY GetIInv DEF lexer_gettoken
<1>2. delivered \in Seq(TokenRecord) /\ text \in Seq(Chars) /\ n \in Nat
  BY DEF Chain
<1>3. d \in TokenRecord /\ d.to \in 1 .. Len(text) + 1 /\ Scanned(Stream!From, Stream!Line, d)
  BY <1>2, StreamPosition, NextToken
<1>4. Stream!From = StartOf(n + 1) /\ Stream!Line = LineAt(n + 1)
  <2>1. (n + 1) - 1 = n /\ (n + 1 = 1 <=> n = 0)
    BY <1>2
  <2> QED
    BY <2>1, StreamPosition DEF StartOf, LineAt
<1> HIDE DEF d
<1>5. /\ delivered' \in Seq(TokenRecord) /\ Len(delivered') = n + 1 /\ delivered'[n + 1] = d
      /\ \A k \in 1..n : delivered'[k] = delivered[k]
  BY <1>1, <1>2, <1>3
<1>6. \A k \in 1 .. n + 1 : k = n + 1 \/ k \in 1..n
  BY <1>2
<1>7. \A k \in 1 .. n + 1 : StartOf(k)' = StartOf(k) /\ LineAt(k)' = LineAt(k)
  <2> SUFFICES ASSUME NEW k \in 1 .. n + 1 PROVE StartOf(k)' = StartOf(k) /\ LineAt(k)' = LineAt(k)
    OBVIOUS
  <2>1. k = 1 \/ k - 1 \in 1..n
    BY <1>2
  <2> QED
    BY <2>1, <1>5 DEF StartOf, LineAt
<1> HIDE DEF n
<1>8. \A k \in 1..Len(delivered') : delivered'[k].to \in 1 .. Len(text') + 1
  BY <1>1, <1>3, <1>5, <1>6, <1>2 DEF Chain, n
<1>9. \A k \in 1..Len(delivered') : Scanned(StartOf(k), LineAt(k), delivered'[k])
  BY <1>3, <1>4, <1>5, <1>6 DEF Chain, n
<1>10. \A k \in 1..Len(delivered') : Scanned(StartOf(k), LineAt(k), delivered[k])'
  BY <1>1, <1>5, <1>7, <1>9 DEF Scanned
<1>11. QED
  BY <1>1, <1>2, <1>5, <1>8, <1>10 DEF Chain

LEMMA ChainNext ==
  ASSUME Chain, IInv, [Next]_vars PROVE Chain'
<1>1. CASE lexer_gettoken
  BY <1>1, ChainGet
<1>2. CASE UNCHANGED <<text, delivered>>
  BY <1>2 DEF Chain, Scanned, StartOf, LineAt
<1>3. QED
  BY <1>1, <1>2 DEF Next, Exit, vars, lexer_peek

LEMMA ChainInit == Init => Chain
<1> SUFFICES ASSUME Init PROVE Chain
  OBVIOUS
<1>1. PICK n \in 0..MaxLength : text \in [1..n -> Chars]
  BY DEF Init, Files
<1>2. text \in Seq(Chars)
  BY <1>1
<1>3. delivered = << >>
  BY DEF Init
<1>4. QED
  BY <1>2, <1>3 DEF Chain

\* The chain is kept: it begins empty and every token continues it.
LEMMA AlwaysChain == Spec => [](Chain /\ IInv)
BY ChainInit, ChainNext, InitIInv, StepIInv, PTL DEF Spec

\* Positions stay in the text, and what is delivered or waits in the buffer are
\* tokens, at most two of them there (lexer.c:36-50).
THEOREM LexerTyped == Spec => []TypeOK
<1>1. Chain /\ IInv => TypeOK
  <2> SUFFICES ASSUME Chain, IInv PROVE TypeOK
    OBVIOUS
  <2> DEFINE first  == Token(text, Stream!From, Stream!Line)
             second == Token(text, first.to, first.line)
  <2>1. text \in Seq(Chars) /\ delivered \in Seq(TokenRecord)
    BY DEF Chain
  <2>2. first \in TokenRecord /\ first.to \in 1 .. Len(text) + 1 /\ first.line \in Nat
    BY <2>1, StreamPosition, NextToken
  <2>3. \/ peeked = << >> /\ pos = Stream!From /\ line = Stream!Line
        \/ peeked = <<first>> /\ pos = first.to /\ line = first.line
        \/ peeked = <<first, second>> /\ pos = second.to /\ line = second.line
    BY DEF IInv, Buffered
  <2> HIDE DEF first
  <2>4. second \in TokenRecord /\ second.to \in 1 .. Len(text) + 1 /\ second.line \in Nat
    BY <2>1, <2>2, NextToken
  <2> HIDE DEF second
  <2>5. pos \in 1 .. Len(text) + 1 /\ line \in Nat /\ peeked \in Seq(TokenRecord) /\ Len(peeked) <= 2
    <3>1. Stream!From \in 1 .. Len(text) + 1 /\ Stream!Line \in Nat
      BY StreamPosition
    <3>2. CASE peeked = << >> /\ pos = Stream!From /\ line = Stream!Line
      BY <3>1, <3>2
    <3>3. CASE peeked = <<first>> /\ pos = first.to /\ line = first.line
      <4>1. <<first>> \in Seq(TokenRecord) /\ Len(<<first>>) = 1
        BY <2>2
      <4> QED
        BY <2>2, <3>3, <4>1
    <3>4. CASE peeked = <<first, second>> /\ pos = second.to /\ line = second.line
      <4>1. <<first, second>> \in Seq(TokenRecord) /\ Len(<<first, second>>) = 2
        BY <2>2, <2>4
      <4> QED
        BY <2>4, <3>4, <4>1
    <3> QED
      BY <2>3, <3>2, <3>3, <3>4
  <2> QED
    BY <2>1, <2>5 DEF TypeOK
<1>2. QED
  BY <1>1, AlwaysChain, PTL

\* The scanner drops nothing between two tokens but white space and comments
\* that end with their line (lexer.c:108-131).
THEOREM NothingElseDropped == Spec => []OnlyBlanksDropped
<1>1. Chain => OnlyBlanksDropped
  <2> SUFFICES ASSUME Chain, NEW k \in 1..Len(delivered)
               PROVE  /\ At(text, delivered[k].from) \notin Blanks \cup {"#"}
                      /\ \A i \in StartOf(k) .. delivered[k].from - 1 :
                           \/ text[i] \in Blanks
                           \/ \E h \in StartOf(k)..i :
                                /\ text[h] = "#"
                                /\ \A j \in h..i : text[j] \notin {"newline", "return"}
    BY DEF OnlyBlanksDropped, StartOf
  <2>1. SkippedTo(text, StartOf(k), delivered[k].from)
    BY DEF Chain, Scanned
  <2> QED
    BY <2>1 DEF SkippedTo, Dropped
<1>2. QED
  BY <1>1, AlwaysChain, PTL

\* A token is the longest text that is one, as the token language says apart
\* from the scanner; an error is where none is, or in a run of word characters
\* that is none (lexer.c:272-411).
THEOREM TokensAreLongest == Spec => []LongestToken
<1>1. Chain => LongestToken
  <2> SUFFICES ASSUME Chain PROVE LongestToken
    OBVIOUS
  <2>1. \A k \in 1..Len(delivered) : Longest(text, delivered[k].from, delivered[k])
    BY DEF Chain, Scanned
  <2> QED
    BY <2>1 DEF LongestToken, Longest, TokenEndsAt
<1>2. QED
  BY <1>1, AlwaysChain, PTL
-----------------------------------------------------------------------------
(* The newlines in front of a token that stand in no token.                *)

\* Position i is in a token before the k-th.
InLiteral(i, k) == \E j \in 1 .. k - 1 : i \in delivered[j].from .. delivered[j].to - 1
Counted(k) == {i \in 1 .. delivered[k].from - 1 : text[i] = "newline" /\ ~InLiteral(i, k)}

\* In a chain the tokens lie one behind the other.
LEMMA InOrder ==
  ASSUME Chain, NEW k \in 1..Len(delivered)
  PROVE  /\ delivered[k].from \in 1 .. Len(text) + 1 /\ StartOf(k) \in 1..delivered[k].from
         /\ delivered[k].to \in delivered[k].from .. Len(text) + 1
         /\ \A j \in 1 .. k - 1 : delivered[j].to <= StartOf(k)
<1>1. Len(text) \in Nat /\ Len(delivered) \in Nat /\ delivered \in Seq(TokenRecord)
  BY DEF Chain
<1>2. \A l \in 1..Len(delivered) :
        /\ StartOf(l) \in 1 .. Len(text) + 1 /\ delivered[l].from \in StartOf(l) .. Len(text) + 1
        /\ delivered[l].to \in delivered[l].from .. Len(text) + 1
  <2> SUFFICES ASSUME NEW l \in 1..Len(delivered)
               PROVE  /\ StartOf(l) \in 1 .. Len(text) + 1 /\ delivered[l].from \in StartOf(l) .. Len(text) + 1
                      /\ delivered[l].to \in delivered[l].from .. Len(text) + 1
    OBVIOUS
  <2>1. l = 1 \/ l - 1 \in 1..Len(delivered)
    BY <1>1
  <2>2. StartOf(l) \in 1 .. Len(text) + 1
    BY <1>1, <2>1 DEF Chain, StartOf
  <2> QED
    BY <2>2 DEF Chain, Scanned, SkippedTo
<1> DEFINE G == {l \in 1..Len(delivered) : \A j \in 1 .. l - 1 : delivered[j].to <= StartOf(l)}
<1>3. ASSUME NEW l \in 1..Len(delivered), \A m \in 1 .. l - 1 : m \in G PROVE l \in G
  <2> SUFFICES ASSUME NEW j \in 1 .. l - 1 PROVE delivered[j].to <= StartOf(l)
    OBVIOUS
  <2>1. l - 1 \in 1..Len(delivered) /\ l - 1 \in 1 .. l - 1 /\ StartOf(l) = delivered[l - 1].to
    BY <1>1 DEF StartOf
  <2>2. CASE j = l - 1
    BY <2>1, <2>2, <1>2
  <2>3. CASE j # l - 1
    <3>1. j \in 1 .. (l - 1) - 1 /\ j \in 1..Len(delivered)
      BY <2>3, <1>1
    <3>2. delivered[j].to <= StartOf(l - 1)
      BY <3>1, <2>1, <1>3
    <3> DEFINE m == l - 1
               x == delivered[j].to
               y == StartOf(m)
               z == delivered[m].from
               u == delivered[m].to
    <3>3. y \in 1 .. Len(text) + 1 /\ z \in y .. Len(text) + 1 /\ u \in z .. Len(text) + 1
      <4>1. m \in 1..Len(delivered)
        BY <2>1
      <4> HIDE DEF m
      <4> QED
        BY <4>1, <1>2
    <3>4. x \in Nat
      <4>1. delivered[j] \in TokenRecord
        BY <3>1, <1>1
      <4> QED
        BY <4>1 DEF TokenRecord
    <3>5. x <= y /\ StartOf(l) = u
      BY <3>2, <2>1
    <3> HIDE DEF m, x, y, z, u
    <3>6. x <= u
      BY <3>3, <3>4, <3>5, <1>1
    <3> QED
      BY <3>6, <3>5 DEF x
  <2> QED
    BY <2>2, <2>3
<1>4. 1..Len(delivered) \subseteq G
  <2>1. 1 \in Nat
    OBVIOUS
  <2> HIDE DEF G
  <2> QED
    BY <1>1, <1>3, <2>1, Upward
<1>5. \A j \in 1 .. k - 1 : delivered[j].to <= StartOf(k)
  BY <1>4
<1>6. /\ StartOf(k) \in 1 .. Len(text) + 1 /\ delivered[k].from \in StartOf(k) .. Len(text) + 1
      /\ delivered[k].to \in delivered[k].from .. Len(text) + 1
  BY <1>2
<1>7. delivered[k].from \in 1 .. Len(text) + 1 /\ StartOf(k) \in 1..delivered[k].from
  <2> DEFINE x == StartOf(k)
             y == delivered[k].from
  <2>1. x \in 1 .. Len(text) + 1 /\ y \in x .. Len(text) + 1
    BY <1>6
  <2> HIDE DEF x, y
  <2>2. y \in 1 .. Len(text) + 1 /\ x \in 1..y
    BY <2>1, <1>1
  <2> QED
    BY <2>2 DEF x, y
<1>8. QED
  BY <1>5, <1>6, <1>7

LEMMA FirstCounted ==
  ASSUME Chain, 1 \in 1..Len(delivered)
  PROVE  Counted(1) = NewlinesIn(text, 1, delivered[1].from)
BY DEF Counted, InLiteral, NewlinesIn

\* To what is counted for one token, those between it and the next are added.
LEMMA NextCounted ==
  ASSUME Chain, NEW k \in 1..Len(delivered), k + 1 \in 1..Len(delivered)
  PROVE  /\ Counted(k + 1) = Counted(k) \cup NewlinesIn(text, StartOf(k + 1), delivered[k + 1].from)
         /\ Counted(k) \cap NewlinesIn(text, StartOf(k + 1), delivered[k + 1].from) = {}
<1> DEFINE a == delivered[k].from
           b == delivered[k].to
           c == delivered[k + 1].from
           gap == NewlinesIn(text, StartOf(k + 1), c)
<1>1. (k + 1) - 1 = k /\ k \in Nat /\ Len(text) \in Nat
  BY DEF Chain
<1>2. StartOf(k + 1) = b
  BY <1>1 DEF StartOf
<1>3. a \in Nat /\ b \in Nat /\ c \in Nat /\ 1 <= a /\ a <= b /\ b <= c
  <2>1. a \in 1 .. Len(text) + 1 /\ b \in a .. Len(text) + 1
    BY InOrder
  <2>2. c \in 1 .. Len(text) + 1 /\ StartOf(k + 1) \in 1..c
    BY InOrder
  <2> QED
    BY <2>1, <2>2, <1>1, <1>2
<1>4. \A j \in 1..k : delivered[j].to <= b
  BY <1>1, <1>2, InOrder
<1>5. \A i \in Nat : InLiteral(i, k + 1) <=> InLiteral(i, k) \/ i \in a .. b - 1
  <2>1. \A j : j \in 1 .. (k + 1) - 1 <=> j \in 1 .. k - 1 \/ j = k
    BY <1>1
  <2> QED
    BY <2>1 DEF InLiteral
<1>6. \A i \in Nat : i >= b => ~InLiteral(i, k + 1)
  <2> SUFFICES ASSUME NEW i \in Nat, i >= b, NEW j \in 1 .. (k + 1) - 1,
                      i \in delivered[j].from .. delivered[j].to - 1
               PROVE  FALSE
    BY DEF InLiteral
  <2>1. j \in 1..k /\ j \in 1..Len(delivered)
    BY <1>1 DEF Chain
  <2>2. delivered[j].to \in delivered[j].from .. Len(text) + 1
    BY <2>1, InOrder
  <2> QED
    BY <2>1, <2>2, <1>3, <1>4
<1> HIDE DEF a, b, c
<1>7. Counted(k) = {i \in 1 .. a - 1 : text[i] = "newline" /\ ~InLiteral(i, k)}
  BY DEF Counted, a
<1>8. Counted(k + 1) = {i \in 1 .. c - 1 : text[i] = "newline" /\ ~InLiteral(i, k + 1)}
  BY DEF Counted, c
<1>9. gap = {i \in b .. c - 1 : text[i] = "newline"}
  BY <1>2 DEF NewlinesIn
<1> HIDE DEF gap
<1>10. ASSUME NEW i \in Counted(k + 1) PROVE i \in Counted(k) \/ i \in gap
  <2>1. i \in 1 .. c - 1 /\ text[i] = "newline" /\ ~InLiteral(i, k + 1) /\ i \in Nat
    BY <1>3, <1>8
  <2>2. CASE i >= b
    BY <2>1, <2>2, <1>3, <1>9
  <2>3. CASE ~(i >= b)
    BY <2>1, <2>3, <1>3, <1>5, <1>7
  <2> QED
    BY <2>2, <2>3
<1>11. ASSUME NEW i \in Counted(k) PROVE i \in Counted(k + 1) /\ i \notin gap
  BY <1>3, <1>5, <1>7, <1>8, <1>9
<1>12. ASSUME NEW i \in gap PROVE i \in Counted(k + 1)
  BY <1>3, <1>6, <1>8, <1>9
<1>13. QED
  BY <1>10, <1>11, <1>12 DEF gap, c

\* The line of a token is the one it stands on, but for the newlines in
\* literals, however far the caller has looked ahead (lexer.c:108-131, 262-271).
THEOREM LineIsRight == Spec => []LineOfToken
<1>1. Chain => LineOfToken
  <2> SUFFICES ASSUME Chain PROVE LineOfToken
    OBVIOUS
  <2>1. Len(delivered) \in Nat /\ Len(text) \in Nat /\ 1 \in Nat
    BY DEF Chain
  <2>2. \A k \in 1..Len(delivered) :
          delivered[k].line = LineAt(k) + Cardinality(NewlinesIn(text, StartOf(k), delivered[k].from))
    BY DEF Chain, Scanned
  <2> DEFINE G == {k \in 1..Len(delivered) : /\ IsFiniteSet(Counted(k)) /\ Cardinality(Counted(k)) \in Nat
                                             /\ delivered[k].line = 1 + Cardinality(Counted(k))}
  <2>3. ASSUME NEW k \in 1..Len(delivered), \A j \in 1 .. k - 1 : j \in G PROVE k \in G
    <3> DEFINE gap == NewlinesIn(text, StartOf(k), delivered[k].from)
    <3>1. IsFiniteSet(gap) /\ Cardinality(gap) \in Nat
      <4>1. StartOf(k) \in Nat /\ delivered[k].from \in Nat
        BY <2>1, InOrder
      <4> QED
        BY <4>1, CountNat
    <3>2. delivered[k].line = LineAt(k) + Cardinality(gap)
      BY <2>2
    <3>3. CASE k = 1
      <4>1. Counted(k) = gap /\ LineAt(k) = 1
        BY <3>3, FirstCounted DEF StartOf, LineAt
      <4> QED
        BY <4>1, <3>1, <3>2
    <3>4. CASE k # 1
      <4> DEFINE l == k - 1
      <4>1. l \in 1..Len(delivered) /\ l + 1 = k /\ l \in 1 .. k - 1 /\ LineAt(k) = delivered[l].line
        BY <3>4, <2>1 DEF LineAt
      <4>2. Counted(k) = Counted(l) \cup gap /\ Counted(l) \cap gap = {}
        BY <4>1, NextCounted
      <4>3. /\ IsFiniteSet(Counted(l)) /\ Cardinality(Counted(l)) \in Nat
            /\ delivered[l].line = 1 + Cardinality(Counted(l))
        BY <4>1, <2>3
      <4> HIDE DEF gap, l
      <4>4. IsFiniteSet(Counted(k)) /\ Cardinality(Counted(k)) = Cardinality(Counted(l)) + Cardinality(gap)
        <5>1. /\ IsFiniteSet(Counted(l) \cup gap)
              /\ Cardinality(Counted(l) \cup gap) =
                   Cardinality(Counted(l)) + Cardinality(gap) - Cardinality(Counted(l) \cap gap)
          BY <3>1, <4>3, FS_Union
        <5>2. Cardinality({}) = 0
          BY FS_EmptySet
        <5>3. IsFiniteSet(Counted(k)) /\ Cardinality(Counted(k)) =
                Cardinality(Counted(l)) + Cardinality(gap) - Cardinality({})
          BY <5>1, <4>2, Zenon
        <5> DEFINE x == Cardinality(Counted(l))
                   y == Cardinality(gap)
        <5>4. x + y - 0 = x + y
          <6>1. x \in Nat /\ y \in Nat
            BY <3>1, <4>3
          <6> HIDE DEF x, y
          <6> QED
            BY <6>1
        <5> QED
          BY <5>2, <5>3, <5>4, Zenon
      <4> QED
        BY <3>1, <3>2, <4>1, <4>3, <4>4
    <3> QED
      BY <3>3, <3>4
  <2>4. 1..Len(delivered) \subseteq G
    <3> HIDE DEF G
    <3> QED
      BY <2>1, <2>3, Upward
  <2>5. \A k \in 1..Len(delivered) : delivered[k].line = 1 + Cardinality(Counted(k))
    BY <2>4
  <2> QED
    BY <2>5 DEF LineOfToken, Counted, InLiteral
<1>2. QED
  BY <1>1, AlwaysChain, PTL
=============================================================================
