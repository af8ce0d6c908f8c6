----------------------------- MODULE ScriptProofs ------------------------------
(***************************************************************************)
(* The two scripts of the repository.  What the test runner reports is so, *)
(* for every suite and any number of workers: the commands of a test that  *)
(* passed were in time and printed what they should (as far as             *)
(* PassedIsRight says), and a run that passed passed all of them and       *)
(* leaves no output.  Whatever the number of builds of the release script  *)
(* and of its runs that die between two steps, every tagged revision is    *)
(* complete, the compiler is never lost to git, and the script can be run  *)
(* again unless it died before the move, the commit or the tag.            *)
(***************************************************************************)
EXTENDS TestRunner, MakeRevision, SequenceTheorems, FiniteSetTheorems, TLAPS

Stages == {"idle", "exists", "remove", "open", "run", "judge", "discard"}
Holding == {"run", "judge", "discard"}   \* where a worker has its output open, or has just closed it
Words == ({"text"} \X STRING) \cup {Message, Undecodable}
Faults == Visible \cup {"failed", "foreign"}
WorkerRecords == [at : Stages, test : Nat, config : Nat, cmd : Nat, fd : Nat]
Files == {suite[i].file : i \in Tests}
Names == UNION {{OutName(i, c) : c \in Configs(i)} : i \in Tests}

TypeOK ==
  /\ suite \in Suites /\ next \in Nat \ {0}
  /\ worker \in [Workers -> WorkerRecords]
  /\ text \in Seq(Seq(Words)) /\ names \in [Names -> 0 .. Len(text)]
  /\ built \in [Files -> Nat \X Nat]
  /\ futures \in [Tests -> {"pending", "raised", "done"}]
  /\ results \in [Tests -> Seq(BOOLEAN)] /\ faults \in [Tests -> Seq(SUBSET Faults)]

\* A worker at a test is the one that took it, and reports its configurations in their order.
Placed(w) ==
  worker[w].at # "idle" =>
    /\ worker[w].test \in Tests /\ worker[w].test < next /\ futures[worker[w].test] = "pending"
    /\ worker[w].config \in Configs(worker[w].test)
    /\ Len(results[worker[w].test]) = worker[w].config - 1
    /\ Len(faults[worker[w].test]) = worker[w].config
    /\ worker[w].at # "exists" => Cmds(w) # << >>
    /\ worker[w].at = "run" => worker[w].cmd \in 1 .. Len(Cmds(w))
    /\ worker[w].at = "judge" => worker[w].cmd = Len(Cmds(w)) + 1
    /\ worker[w].at \in Holding => worker[w].fd \in 1 .. Len(text)

Apart == \A v, w \in Workers :
  v # w /\ worker[v].at # "idle" /\ worker[w].at # "idle" => worker[v].test # worker[w].test

\* An output of the test holds bytes that are no text.
Garbled(i) == \E c \in 1 .. Len(faults[i]) : "undecodable" \in faults[i][c]

Counted(i) ==
  /\ i >= next => futures[i] = "pending" /\ results[i] = << >> /\ faults[i] = << >>
  /\ futures[i] = "done" => Len(results[i]) = Len(suite[i].configs)
  /\ Len(results[i]) <= Len(faults[i])
  /\ futures[i] = "raised" => Clashes(i) \/ Garbled(i)

\* A file is open under one name only, whoever opened it.
Owned ==
  /\ \A n, m \in Names : names[n] = names[m] /\ n # m => names[n] = 0
  /\ \A w \in Workers : worker[w].at \in Holding =>
       \A n \in Names : names[n] = worker[w].fd => n = Name(w)

\* Without a clash the name of its output is the worker's own.
Held(w) ==
  worker[w].at # "idle" /\ ~Clashes(worker[w].test) =>
    /\ worker[w].at = "remove" => names[Name(w)] # 0
    /\ worker[w].at = "open" => names[Name(w)] = 0
    /\ worker[w].at \in Holding => names[Name(w)] = worker[w].fd

HasError(lines) == \E k \in 1 .. Len(lines) : lines[k][1] = "error"

HasBytes(lines) == \E k \in 1 .. Len(lines) : lines[k] = Undecodable

\* An output of commands that should print due texts: what went wrong shows in it, as a line
\* that should not be there or as one too few.
Tells(lines, due, went) ==
  /\ HasError(lines) \/ Len(lines) <= due
  /\ went \cap Visible # {} => HasError(lines) \/ Len(lines) < due
  /\ HasBytes(lines) => "undecodable" \in went

\* The texts the first k commands of a configuration should print.
Due(i, c, k) == Cardinality({l \in 1 .. k : suite[i].configs[c][l] \in Printing})

\* What went wrong in a configuration shows in its output, until it is judged; and the
\* program it runs is its own, unless a compiler failed or was killed.
Told(w) ==
  LET i == worker[w].test   c == worker[w].config   at == worker[w].at
  IN at # "idle" /\ ~Clashes(i) =>
       /\ at \in {"run", "judge"} => Tells(text[worker[w].fd], Due(i, c, worker[w].cmd - 1), faults[i][c])
       /\ at \notin {"run", "judge"} => faults[i][c] \cap Visible = {}
       /\ "foreign" \in faults[i][c] => Unsure(i, c)
       /\ at = "run" /\ ~Unsure(i, c) /\ (\E l \in 1 .. worker[w].cmd - 1 : Cmds(w)[l] = "compile") =>
            built[File(w)] \in {NotBuilt, <<i, c>>}

\* What may be said of a configuration that is reported as passed.
Sound(i, c) == ~Clashes(i) => /\ faults[i][c] \cap Visible = {}
                              /\ "foreign" \in faults[i][c] => Unsure(i, c)

\* A compiler outlives only a configuration it was too late for.
StrayOf(s) ==
  /\ s.by = <<s.by[1], s.by[2]>> /\ s.by[1] \in Tests /\ s.file = suite[s.by[1]].file
  /\ s.by[2] \in 1 .. Len(faults[s.by[1]]) /\ "killed" \in faults[s.by[1]][s.by[2]]

\* An output that is there is being made, or was kept for a failure or a traceback.
Kept(n) ==
  names[n] # 0 =>
    \/ \E w \in Workers : worker[w].at \in Holding /\ Name(w) = n
    \/ \E i \in Tests : \E c \in 1 .. Len(results[i]) : OutName(i, c) = n /\ ~results[i][c]
    \/ \E i \in Tests : futures[i] = "raised"

Passed == exit = "passed" => \A i \in Tests : futures[i] = "done" /\ \A c \in Configs(i) : results[i][c]

IInv ==
  /\ TypeOK /\ Apart /\ Owned /\ Passed /\ PassedIsRight
  /\ \A w \in Workers : Placed(w) /\ Held(w) /\ Told(w)
  /\ \A i \in Tests : Counted(i)
  /\ \A s \in strays : StrayOf(s)
  /\ \A n \in Names : Kept(n)
-----------------------------------------------------------------------------
(* Suites and what is said of them alone.                                  *)

LEMMA SuiteIs ==
  ASSUME TypeOK
  PROVE  /\ Len(suite) \in Nat
         /\ \A i \in Tests : /\ i \in Nat \ {0} /\ suite[i].file \in STRING /\ suite[i].base \in STRING
                             /\ Len(suite[i].configs) \in Nat
                             /\ suite[i].file \in Files
                             /\ \A c \in Configs(i) : /\ c \in Nat \ {0}
                                                      /\ suite[i].configs[c] \in Seq(Commands)
                                                      /\ OutName(i, c) \in Names
         /\ \A i, j \in Tests : suite[i].file = suite[j].file => suite[i].base = suite[j].base
<1>1. suite \in Seq([file : STRING, base : STRING, configs : Seq(Seq(Commands))])
  BY RunnerAssumption DEF TypeOK
<1>2. Len(suite) \in Nat
  BY <1>1
<1>3. ASSUME NEW i \in Tests
      PROVE  /\ i \in Nat \ {0} /\ suite[i].file \in STRING /\ suite[i].base \in STRING
             /\ suite[i].configs \in Seq(Seq(Commands)) /\ suite[i].file \in Files
  <2>1. suite[i] \in [file : STRING, base : STRING, configs : Seq(Seq(Commands))]
    BY <1>1, ElementOfSeq DEF Tests
  <2>2. QED
    BY <1>2, <2>1 DEF Tests, Files
<1>4. ASSUME NEW i \in Tests, NEW c \in Configs(i)
      PROVE  c \in Nat \ {0} /\ suite[i].configs[c] \in Seq(Commands) /\ OutName(i, c) \in Names
  <2>1. suite[i].configs \in Seq(Seq(Commands))
    BY <1>3
  <2>2. OutName(i, c) \in Names
    BY DEF Names
  <2>3. QED
    BY <2>1, <2>2 DEF Configs
<1>5. \A i \in Tests : Len(suite[i].configs) \in Nat
  BY <1>3
<1>6. \A i, j \in Tests : suite[i].file = suite[j].file => suite[i].base = suite[j].base
  BY RunnerAssumption DEF TypeOK, Tests
<1>7. QED
  BY <1>2, <1>3, <1>4, <1>5, <1>6

\* A program is built by the configuration that runs it, before it is run.
LEMMA BuildsFirst ==
  ASSUME TypeOK, NEW i \in Tests, NEW c \in Configs(i), NEW k \in 1 .. Len(suite[i].configs[c]),
         suite[i].configs[c][k] = "exec"
  PROVE  \E l \in 1 .. k - 1 : suite[i].configs[c][l] = "compile"
<1>1. suite \in Suites /\ i \in 1 .. Len(suite) /\ c \in 1 .. Len(suite[i].configs)
  BY DEF TypeOK, Tests, Configs
<1>2. \A m \in 1 .. Len(suite[i].configs[c]) :
        suite[i].configs[c][m] = "exec" => \E l \in 1 .. m - 1 : suite[i].configs[c][l] = "compile"
  BY <1>1, RunnerAssumption
<1>3. QED
  BY <1>2

LEMMA SuiteKeeps ==
  ASSUME suite' = suite
  PROVE  /\ Tests' = Tests /\ Names' = Names /\ Files' = Files
         /\ \A i : Configs(i)' = Configs(i) /\ Clashes(i)' = Clashes(i)
         /\ \A i, c : OutName(i, c)' = OutName(i, c)
BY DEF Tests, Names, Files, Configs, Clashes, OutName

\* What was said of a configuration holds as long as what went wrong up to it is the same.
LEMMA SoundKeeps ==
  ASSUME suite' = suite, NEW i \in Nat, NEW c \in Nat \ {0}, \A k \in 1 .. c : faults'[i][k] = faults[i][k]
  PROVE  Sound(i, c)' <=> Sound(i, c)
<1>1. Clashes(i)' <=> Clashes(i)
  BY SuiteKeeps
<1>2. faults'[i][c] = faults[i][c]
  OBVIOUS
<1>3. Unsure(i, c)' <=> Unsure(i, c)
  BY <1>2 DEF Unsure
<1>4. QED
  BY <1>1, <1>2, <1>3 DEF Sound, Visible

LEMMA TypesKeep ==
  ASSUME suite \in Suites, suite' = suite, next' \in Nat \ {0}, worker' \in [Workers -> WorkerRecords],
         text' \in Seq(Seq(Words)), names' \in [Names -> 0 .. Len(text')], built' \in [Files -> Nat \X Nat],
         futures' \in [Tests -> {"pending", "raised", "done"}],
         results' \in [Tests -> Seq(BOOLEAN)], faults' \in [Tests -> Seq(SUBSET Faults)]
  PROVE  TypeOK'
BY SuiteKeeps DEF TypeOK

\* The worker, its test and its configuration, and what they name.
LEMMA AtTest ==
  ASSUME IInv, NEW w \in Workers, worker[w].at # "idle"
  PROVE  /\ worker[w] \in WorkerRecords
         /\ worker[w].test \in Tests /\ worker[w].config \in Configs(worker[w].test)
         /\ worker[w].test \in Nat \ {0} /\ worker[w].config \in Nat \ {0}
         /\ Name(w) = <<suite[worker[w].test].base, worker[w].config>> /\ Name(w) \in Names
         /\ File(w) = suite[worker[w].test].file /\ File(w) \in Files
         /\ Cmds(w) \in Seq(Commands)
<1>1. TypeOK /\ Placed(w)
  BY DEF IInv
<1>2. worker[w] \in WorkerRecords
  BY <1>1 DEF TypeOK
<1>3. worker[w].test \in Tests /\ worker[w].config \in Configs(worker[w].test)
  BY <1>1 DEF Placed
<1>4. QED
  BY <1>1, <1>2, <1>3, SuiteIs DEF Name, OutName, File, Cmds

\* Another worker that is at a test without a clash has other names than those of j.
LEMMA NamesApart ==
  ASSUME TypeOK, NEW i \in Tests, NEW j \in Tests, i # j, ~Clashes(i)
  PROVE  suite[i].base # suite[j].base /\ suite[i].file # suite[j].file
BY SuiteIs DEF Clashes

\* Writing to a file takes no line away.
LEMMA LinesOf ==
  ASSUME NEW lines \in Seq(Words), NEW words \in Seq(Words)
  PROVE  /\ lines \o words \in Seq(Words)
         /\ Len(lines \o words) = Len(lines) + Len(words) /\ Len(lines) \in Nat /\ Len(words) \in Nat
         /\ HasError(lines) \/ HasError(words) => HasError(lines \o words)
         /\ HasBytes(lines \o words) => HasBytes(lines) \/ HasBytes(words)
<1>1. /\ lines \o words \in Seq(Words) /\ Len(lines \o words) = Len(lines) + Len(words)
      /\ Len(lines) \in Nat /\ Len(words) \in Nat
  OBVIOUS
<1>2. ASSUME HasError(lines)
      PROVE  HasError(lines \o words)
  <2>1. PICK k \in 1 .. Len(lines) : lines[k][1] = "error"
    BY <1>2 DEF HasError
  <2>2. k \in 1 .. Len(lines \o words) /\ (lines \o words)[k] = lines[k]
    BY <1>1
  <2>3. QED
    BY <2>1, <2>2 DEF HasError
<1>3. ASSUME HasError(words)
      PROVE  HasError(lines \o words)
  <2>1. PICK k \in 1 .. Len(words) : words[k][1] = "error"
    BY <1>3 DEF HasError
  <2>2. Len(lines) + k \in 1 .. Len(lines \o words) /\ (lines \o words)[Len(lines) + k] = words[k]
    BY <1>1
  <2>3. QED
    BY <2>1, <2>2 DEF HasError
<1>4. ASSUME HasBytes(lines \o words)
      PROVE  HasBytes(lines) \/ HasBytes(words)
  <2>1. PICK k \in 1 .. Len(lines \o words) : (lines \o words)[k] = Undecodable
    BY <1>4 DEF HasBytes
  <2>2. CASE k <= Len(lines)
    <3>1. k \in 1 .. Len(lines) /\ lines[k] = (lines \o words)[k]
      BY <1>1, <2>2
    <3>2. QED
      BY <2>1, <3>1 DEF HasBytes
  <2>3. CASE ~(k <= Len(lines))
    <3>1. k - Len(lines) \in 1 .. Len(words) /\ words[k - Len(lines)] = (lines \o words)[k]
      BY <1>1, <2>3
    <3>2. QED
      BY <2>1, <3>1 DEF HasBytes
  <2>4. QED
    BY <2>2, <2>3
<1>5. QED
  BY <1>1, <1>2, <1>3, <1>4

\* What one more command writes tells of it, and takes nothing away from what is told.
LEMMA TellsMore ==
  ASSUME NEW lines \in Seq(Words), NEW words \in Seq(Words), NEW due \in Nat, NEW more \in Nat,
         NEW went \in SUBSET Faults, NEW flaws \in SUBSET Faults,
         Tells(lines, due, went), Tells(words, more, flaws)
  PROVE  Tells(lines \o words, due + more, went \cup flaws)
<1>1. /\ Len(lines \o words) = Len(lines) + Len(words) /\ Len(lines) \in Nat /\ Len(words) \in Nat
      /\ HasError(lines) \/ HasError(words) => HasError(lines \o words)
      /\ HasBytes(lines \o words) => HasBytes(lines) \/ HasBytes(words)
  BY LinesOf
<1>2. HasError(lines \o words) \/ Len(lines \o words) <= due + more
  BY <1>1 DEF Tells
<1>3. ASSUME (went \cup flaws) \cap Visible # {}
      PROVE  HasError(lines \o words) \/ Len(lines \o words) < due + more
  <2>1. went \cap Visible # {} \/ flaws \cap Visible # {}
    BY <1>3
  <2>2. QED
    BY <1>1, <2>1 DEF Tells
<1>4. HasBytes(lines \o words) => "undecodable" \in went \cup flaws
  BY <1>1 DEF Tells
<1>5. QED
  BY <1>2, <1>3, <1>4 DEF Tells

LEMMA DueNat ==
  ASSUME TypeOK, NEW i \in Tests, NEW c \in Configs(i), NEW k \in Nat
  PROVE  Due(i, c, k) \in Nat
<1> DEFINE P == {l \in 1 .. k : suite[i].configs[c][l] \in Printing}
<1>1. IsFiniteSet(1 .. k) /\ P \subseteq 1 .. k
  BY FS_Interval
<1>2. Cardinality(P) \in Nat
  BY <1>1, FS_Subset, FS_CardinalityType
<1>3. QED
  BY <1>2 DEF Due

\* One more command is due one more text, if it prints.
LEMMA DueMore ==
  ASSUME TypeOK, NEW i \in Tests, NEW c \in Configs(i), NEW k \in Nat \ {0}
  PROVE  /\ Due(i, c, k - 1) \in Nat
         /\ Due(i, c, k) = Due(i, c, k - 1) + (IF suite[i].configs[c][k] \in Printing THEN 1 ELSE 0)
<1> DEFINE P(m) == {l \in 1 .. m : suite[i].configs[c][l] \in Printing}
<1>1. IsFiniteSet(P(k - 1)) /\ Cardinality(P(k - 1)) \in Nat
  <2>1. IsFiniteSet(1 .. k - 1) /\ P(k - 1) \subseteq 1 .. k - 1
    BY FS_Interval
  <2>2. QED
    BY <2>1, FS_Subset, FS_CardinalityType
<1>2. 1 .. k = (1 .. k - 1) \cup {k} /\ k \notin 1 .. k - 1
  OBVIOUS
<1>3. CASE suite[i].configs[c][k] \in Printing
  <2>1. P(k) = P(k - 1) \cup {k} /\ k \notin P(k - 1)
    BY <1>2, <1>3
  <2> HIDE DEF P
  <2>2. Cardinality(P(k)) = Cardinality(P(k - 1)) + 1
    BY <1>1, <2>1, FS_AddElement
  <2>3. QED
    BY <1>1, <1>3, <2>2 DEF Due, P
<1>4. CASE suite[i].configs[c][k] \notin Printing
  <2>1. P(k) = P(k - 1)
    BY <1>2, <1>4
  <2>2. Due(i, c, k) = Cardinality(P(k)) /\ Due(i, c, k - 1) = Cardinality(P(k - 1))
    BY DEF Due
  <2> HIDE DEF P
  <2>3. Due(i, c, k) = Due(i, c, k - 1) /\ Due(i, c, k - 1) \in Nat
    BY <1>1, <2>1, <2>2
  <2>4. QED
    BY <1>4, <2>3
<1>5. QED
  BY <1>3, <1>4
-----------------------------------------------------------------------------
(* A step at test j leaves the workers at other tests what they were.      *)

WorkerRight(w) == Placed(w) /\ Held(w) /\ Told(w)

LEMMA OthersKeep ==
  ASSUME IInv, NEW w \in Workers, NEW j \in Tests, suite' = suite, next' \in Nat, next' >= next,
         \A v \in Workers \ {w} : /\ worker'[v] = worker[v]
                                  /\ worker[v].at # "idle" => worker[v].test # j,
         \A i \in Tests \ {j} : futures'[i] = futures[i] /\ results'[i] = results[i] /\ faults'[i] = faults[i],
         Len(text') \in Nat, Len(text') >= Len(text),
         \A fd \in 1 .. Len(text) : \/ text'[fd] = text[fd]
                                    \/ worker[w].at \in Holding /\ worker[w].test = j /\ fd = worker[w].fd,
         \A n \in Names : n[1] # suite[j].base => names'[n] = names[n],
         \A f \in Files : f # suite[j].file => built'[f] = built[f]
  PROVE  \A v \in Workers \ {w} : WorkerRight(v)'
<1> SUFFICES ASSUME NEW v \in Workers \ {w}
             PROVE  WorkerRight(v)'
  OBVIOUS
<1>1. CASE worker[v].at = "idle"
  BY <1>1 DEF WorkerRight, Placed, Held, Told
<1>2. CASE worker[v].at # "idle"
  <2> DEFINE i == worker[v].test
             c == worker[v].config
  <2>1. Placed(v) /\ Held(v) /\ Told(v) /\ TypeOK
    BY DEF IInv
  <2>2. /\ worker'[v] = worker[v] /\ i \in Tests /\ i # j
        /\ futures'[i] = futures[i] /\ results'[i] = results[i] /\ faults'[i] = faults[i]
    BY <1>2, AtTest
  <2>3. Name(v)' = Name(v) /\ File(v)' = File(v) /\ Cmds(v)' = Cmds(v)
    BY <2>2 DEF Name, OutName, File, Cmds
  <2>4. Placed(v)'
    <3>1. next \in Nat /\ Len(text) \in Nat /\ i \in Nat
      BY <2>1, <1>2, AtTest DEF TypeOK
    <3>2. QED
      BY <1>2, <2>1, <2>2, <2>3, <3>1, SuiteKeeps DEF Placed
  <2>5. ~Clashes(i) => names'[Name(v)] = names[Name(v)] /\ built'[File(v)] = built[File(v)]
    BY <1>2, <2>1, <2>2, AtTest, NamesApart
  <2>6. Held(v)'
    BY <1>2, <2>1, <2>2, <2>3, <2>5, SuiteKeeps DEF Held
  <2>7. Clashes(i)' = Clashes(i) /\ Unsure(i, c)' = Unsure(i, c) /\ \A k : Due(i, c, k)' = Due(i, c, k)
    BY <2>2 DEF Clashes, Tests, Unsure, Due
  <2>8. ASSUME worker[v].at \in Holding, ~Clashes(i)
        PROVE  text'[worker[v].fd] = text[worker[v].fd]
    <3>1. worker[v].fd \in 1 .. Len(text) /\ names[Name(v)] = worker[v].fd /\ Name(v) \in Names
      BY <1>2, <2>1, <2>8, AtTest DEF Placed, Held
    <3>2. ASSUME worker[w].at \in Holding, worker[w].test = j, worker[v].fd = worker[w].fd
          PROVE  FALSE
      <4>1. Name(v) = Name(w) /\ worker[w].at # "idle"
        BY <3>1, <3>2 DEF IInv, Owned, Holding
      <4>2. suite[i].base = suite[j].base
        BY <1>2, <3>2, <4>1, AtTest
      <4>3. QED
        BY <2>1, <2>2, <2>8, <4>2, NamesApart
    <3>3. QED
      BY <3>1, <3>2
  <2>9. Told(v)'
    <3> DEFINE lines == text[worker[v].fd]
               due == Due(i, c, worker[v].cmd - 1)
    <3>1. SUFFICES ASSUME ~Clashes(i)
                   PROVE  /\ worker[v].at \in {"run", "judge"} => Tells(text'[worker[v].fd], due, faults[i][c])
                          /\ worker[v].at \notin {"run", "judge"} => faults[i][c] \cap Visible = {}
                          /\ "foreign" \in faults[i][c] => Unsure(i, c)
                          /\ worker[v].at = "run" /\ ~Unsure(i, c)
                             /\ (\E l \in 1 .. worker[v].cmd - 1 : Cmds(v)[l] = "compile") =>
                               built'[File(v)] \in {NotBuilt, <<i, c>>}
      <4>1. /\ i' = i /\ c' = c /\ worker[v]' = worker[v] /\ faults[i][c]' = faults[i][c]
            /\ due' = due /\ lines' = text'[worker[v].fd]
        BY <2>2, <2>7
      <4>2. Tells(lines, due, faults[i][c])' <=> Tells(text'[worker[v].fd], due, faults[i][c])
        BY <4>1 DEF Tells, HasError, HasBytes, Undecodable, Visible
      <4>3. QED
        BY <2>3, <2>7, <4>1, <4>2 DEF Told, NotBuilt, Visible
    <3>2. /\ worker[v].at \in {"run", "judge"} => Tells(lines, due, faults[i][c])
          /\ worker[v].at \notin {"run", "judge"} => faults[i][c] \cap Visible = {}
          /\ "foreign" \in faults[i][c] => Unsure(i, c)
          /\ worker[v].at = "run" /\ ~Unsure(i, c)
             /\ (\E l \in 1 .. worker[v].cmd - 1 : Cmds(v)[l] = "compile") =>
               built[File(v)] \in {NotBuilt, <<i, c>>}
      BY <1>2, <2>1, <3>1 DEF Told
    <3>3. worker[v].at \in {"run", "judge"} => text'[worker[v].fd] = lines
      BY <2>8, <3>1 DEF Holding
    <3>4. QED
      BY <2>5, <3>1, <3>2, <3>3
  <2>10. QED
    BY <2>4, <2>6, <2>9 DEF WorkerRight
<1>3. QED
  BY <1>1, <1>2

\* What is known of the tests alone, where nothing is reported.
LEMMA TestsKeep ==
  ASSUME IInv, UNCHANGED <<suite, next, futures, results, faults, strays, exit>>
  PROVE  /\ \A i \in Tests : Counted(i)'
         /\ \A s \in strays' : StrayOf(s)'
         /\ Passed' /\ PassedIsRight'
<1>1. \A i \in Tests : Counted(i)'
  BY SuiteKeeps DEF IInv, Counted, Garbled
<1>2. \A s \in strays' : StrayOf(s)'
  BY SuiteKeeps DEF IInv, StrayOf
<1>3. Passed'
  BY SuiteKeeps DEF IInv, Passed
<1>4. PassedIsRight'
  BY SuiteKeeps DEF IInv, PassedIsRight, Unsure, Visible
<1>5. QED
  BY <1>1, <1>2, <1>3, <1>4

-----------------------------------------------------------------------------
(* Opening the output, and finding it good.                                *)

\* Workers that keep their test stay apart.
LEMMA ApartKeeps ==
  ASSUME Apart, \A v \in Workers : worker'[v].at # "idle" => /\ worker[v].at # "idle"
                                                             /\ worker'[v].test = worker[v].test
  PROVE  Apart'
BY DEF Apart

LEMMA Stays ==
  ASSUME IInv, NEW w \in Workers, worker[w].at # "idle", suite' = suite,
         NEW r \in WorkerRecords, r.test = worker[w].test, r.config = worker[w].config,
         worker' = [worker EXCEPT ![w] = r]
  PROVE  /\ worker'[w] = r /\ worker' \in [Workers -> WorkerRecords]
         /\ \A v \in Workers \ {w} : /\ worker'[v] = worker[v]
                                     /\ worker[v].at # "idle" => worker[v].test # worker[w].test
         /\ r.at # "idle" => Apart'
         /\ \A v \in Workers : Name(v)' = Name(v) /\ File(v)' = File(v) /\ Cmds(v)' = Cmds(v)
         /\ Clashes(worker[w].test)' = Clashes(worker[w].test)
<1>1. TypeOK /\ Apart /\ worker[w] \in WorkerRecords
  BY AtTest DEF IInv
<1>2. worker'[w] = r /\ worker' \in [Workers -> WorkerRecords] /\ \A v \in Workers \ {w} : worker'[v] = worker[v]
  BY <1>1 DEF TypeOK
<1>3. r.at # "idle" => Apart'
  BY <1>1, <1>2, ApartKeeps
<1>4. \A v \in Workers \ {w} : worker[v].at # "idle" => worker[v].test # worker[w].test
  BY <1>1 DEF Apart
<1>5. \A v \in Workers : worker'[v].test = worker[v].test /\ worker'[v].config = worker[v].config
  BY <1>2
<1>6. \A v \in Workers : Name(v)' = Name(v) /\ File(v)' = File(v) /\ Cmds(v)' = Cmds(v)
  BY <1>5 DEF Name, OutName, File, Cmds
<1>7. Clashes(worker[w].test)' = Clashes(worker[w].test)
  BY <1>5 DEF Clashes, Tests
<1>8. QED
  BY <1>2, <1>3, <1>4, <1>6, <1>7

\* The steps from the test that exists to the output that is open: nothing is reported.
LEMMA MoveStep ==
  ASSUME IInv, NEW w \in Workers, worker[w].at # "idle", Cmds(w) # << >>,
         NEW to \in {"remove", "open", "discard"}, worker' = [worker EXCEPT ![w].at = to],
         UNCHANGED <<suite, next, text, built, strays, futures, results, faults, exit>>,
         names' = names \/ (to = "open" /\ names' = [names EXCEPT ![Name(w)] = 0]),
         to = "remove" => names[Name(w)] # 0,
         to = "open" => names'[Name(w)] = 0,
         to = "discard" => worker[w].at = "judge",
         Sound(worker[w].test, worker[w].config),
         worker[w].at \in Holding => to = "discard"
  PROVE  IInv'
<1> DEFINE r == [worker[w] EXCEPT !.at = to]
<1>1. TypeOK /\ Owned /\ Placed(w) /\ Held(w) /\ worker[w] \in WorkerRecords /\ Name(w) \in Names
  BY AtTest DEF IInv
<1>2. /\ r \in WorkerRecords /\ r.at = to /\ r.test = worker[w].test /\ r.config = worker[w].config
      /\ r.fd = worker[w].fd /\ worker' = [worker EXCEPT ![w] = r]
  BY <1>1 DEF WorkerRecords, Stages
<1> HIDE DEF r
<1>3. /\ worker'[w] = r /\ worker' \in [Workers -> WorkerRecords]
      /\ \A v \in Workers \ {w} : /\ worker'[v] = worker[v]
                                  /\ worker[v].at # "idle" => worker[v].test # worker[w].test
      /\ Apart'
      /\ \A v \in Workers : Name(v)' = Name(v) /\ File(v)' = File(v) /\ Cmds(v)' = Cmds(v)
      /\ Clashes(worker[w].test)' = Clashes(worker[w].test)
  BY <1>2, Stays
<1>4. names' \in [Names -> 0 .. Len(text)] /\ \A n \in Names \ {Name(w)} : names'[n] = names[n]
  <2>1. names \in [Names -> 0 .. Len(text)] /\ Len(text) \in Nat /\ 0 \in 0 .. Len(text)
    BY <1>1 DEF TypeOK
  <2>2. CASE names' = names
    BY <2>1, <2>2
  <2>3. CASE names' = [names EXCEPT ![Name(w)] = 0]
    BY <2>1, <2>3
  <2>4. QED
    BY <2>2, <2>3
<1>5. TypeOK'
  <2>1. /\ suite' = suite /\ next' = next /\ text' = text /\ built' = built
        /\ futures' = futures /\ results' = results /\ faults' = faults
    OBVIOUS
  <2>2. /\ suite \in Suites /\ next \in Nat \ {0} /\ text \in Seq(Seq(Words)) /\ built \in [Files -> Nat \X Nat]
        /\ futures \in [Tests -> {"pending", "raised", "done"}]
        /\ results \in [Tests -> Seq(BOOLEAN)] /\ faults \in [Tests -> Seq(SUBSET Faults)]
    BY <1>1 DEF TypeOK
  <2>3. QED
    BY <1>3, <1>4, <2>1, <2>2, TypesKeep
<1>6. Unsure(worker[w].test, worker[w].config)' = Unsure(worker[w].test, worker[w].config)
  BY <1>2, <1>3 DEF Unsure
<1>7. Placed(w)' /\ Held(w)' /\ Told(w)'
  <2>1. Placed(w)'
    BY <1>1, <1>2, <1>3, SuiteKeeps DEF Placed, Holding
  <2>2. Held(w)'
    BY <1>1, <1>2, <1>3 DEF Held, Holding
  <2>3. Told(w)'
    BY <1>2, <1>3, <1>6 DEF Told, Sound, Visible
  <2>4. QED
    BY <2>1, <2>2, <2>3
<1>8. Owned'
  <2>1. \A n, m \in Names : names'[n] = names'[m] /\ n # m => names'[n] = 0
    BY <1>1, <1>4 DEF Owned
  <2>2. ASSUME NEW v \in Workers, worker'[v].at \in Holding, NEW n \in Names, names'[n] = worker'[v].fd
        PROVE  n = Name(v)
    <3>1. worker[v].at \in Holding /\ worker'[v].fd = worker[v].fd
      BY <1>2, <1>3, <2>2 DEF Holding
    <3>2. worker[v].fd # 0
      <4>1. Placed(v) /\ worker[v].at # "idle"
        BY <3>1 DEF IInv, Holding
      <4>2. QED
        BY <3>1, <4>1 DEF Placed
    <3>3. names[n] = worker[v].fd
      BY <1>1, <2>2, <3>1, <3>2 DEF TypeOK
    <3>4. QED
      BY <1>1, <3>1, <3>3 DEF Owned
  <2>3. QED
    BY <1>3, <2>1, <2>2, SuiteKeeps DEF Owned
<1>9. \A n \in Names : Kept(n)'
  <2> SUFFICES ASSUME NEW n \in Names, names'[n] # 0
               PROVE  \/ \E v \in Workers : worker'[v].at \in Holding /\ Name(v) = n
                      \/ \E i \in Tests : \E c \in 1 .. Len(results[i]) : OutName(i, c) = n /\ ~results[i][c]
                      \/ \E i \in Tests : futures'[i] = "raised"
    BY <1>3, SuiteKeeps DEF Kept
  <2>1. names[n] # 0
    BY <1>1, <1>4 DEF TypeOK
  <2>2. Kept(n)
    BY DEF IInv
  <2>3. \A v \in Workers : worker[v].at \in Holding => worker'[v].at \in Holding
    BY <1>2, <1>3 DEF Holding
  <2>4. QED
    BY <2>1, <2>2, <2>3 DEF Kept
<1>10. \A v \in Workers \ {w} : WorkerRight(v)'
  <2>1. worker[w].test \in Tests /\ next \in Nat /\ Len(text) \in Nat
    BY <1>1, AtTest DEF TypeOK
  <2>2. \A n \in Names : n[1] # suite[worker[w].test].base => names'[n] = names[n]
    BY <1>4, AtTest
  <2>3. QED
    BY <1>3, <2>1, <2>2, OthersKeep
<1>11. QED
  BY <1>3, <1>5, <1>7, <1>8, <1>9, <1>10, TestsKeep, SuiteKeeps DEF IInv, WorkerRight

LEMMA ExistsStep == ASSUME IInv, NEW w \in Workers, Exists(w) PROVE IInv'
<1> DEFINE to == IF names[Name(w)] # 0 THEN "remove" ELSE "open"
<1>1. worker[w].at = "exists" /\ Told(w)
  BY DEF Exists, IInv
<1>2. to \in {"remove", "open"} /\ worker' = [worker EXCEPT ![w].at = to]
  BY DEF Exists, Goes
<1>3. to = "remove" <=> names[Name(w)] # 0
  OBVIOUS
<1> HIDE DEF to
<1>4. QED
  BY <1>1, <1>2, <1>3, MoveStep DEF Exists, Told, Sound, Holding

LEMMA RemoveStep ==
  ASSUME IInv, NEW w \in Workers, Remove(w), names[Name(w)] # 0
  PROVE  IInv'
<1>1. worker[w].at = "remove" /\ Told(w) /\ Placed(w)
  BY DEF Remove, IInv
<1>2. /\ worker' = [worker EXCEPT ![w].at = "open"] /\ names' = [names EXCEPT ![Name(w)] = 0]
      /\ UNCHANGED <<suite, next, text, built, strays, futures, results, faults, exit>>
  BY DEF Remove, Goes
<1>3. names'[Name(w)] = 0
  BY <1>1, <1>2, AtTest DEF IInv, TypeOK
<1>4. QED
  BY <1>1, <1>2, <1>3, MoveStep DEF Told, Sound, Placed, Holding

\* The good file holds no error, and one text for each command that prints.
LEMMA GoodHasNone ==
  ASSUME TypeOK, NEW i \in Tests, NEW c \in Configs(i)
  PROVE  ~HasError(Good(i, c)) /\ Len(Good(i, c)) = Due(i, c, Len(suite[i].configs[c]))
<1> DEFINE n == Cardinality({l \in 1 .. Len(suite[i].configs[c]) : suite[i].configs[c][l] \in Printing})
<1>1. Good(i, c) = [k \in 1 .. n |-> <<"text", suite[i].file>>]
  BY DEF Good
<1>2. n \in Nat
  <2>1. Len(suite[i].configs[c]) \in Nat
    BY SuiteIs
  <2>2. IsFiniteSet(1 .. Len(suite[i].configs[c]))
    BY <2>1, FS_Interval
  <2>3. QED
    BY <2>2, FS_Subset, FS_CardinalityType
<1>3. Due(i, c, Len(suite[i].configs[c])) = n
  BY DEF Due
<1> HIDE DEF n
<1>4. QED
  BY <1>1, <1>2, <1>3 DEF HasError

LEMMA FoundGoodStep ==
  ASSUME IInv, NEW w \in Workers, Judge(w), Goes(w, "discard"), UNCHANGED <<results, futures, faults>>,
         (IF names[Name(w)] = 0 THEN << >> ELSE text[names[Name(w)]]) = Good(worker[w].test, worker[w].config)
  PROVE  IInv'
<1> DEFINE i == worker[w].test
           c == worker[w].config
<1>1. worker[w].at = "judge" /\ Told(w) /\ Placed(w) /\ Held(w)
  BY DEF Judge, IInv
<1>2. /\ worker' = [worker EXCEPT ![w].at = "discard"]
      /\ UNCHANGED <<suite, next, names, text, built, strays, futures, results, faults, exit>>
  BY DEF Judge, Goes
<1>3. Sound(i, c)
  <2> SUFFICES ASSUME ~Clashes(i)
               PROVE  faults[i][c] \cap Visible = {} /\ ("foreign" \in faults[i][c] => Unsure(i, c))
    BY DEF Sound
  <2>1. names[Name(w)] = worker[w].fd /\ worker[w].fd # 0
    BY <1>1 DEF Held, Placed, Holding
  <2>2. text[worker[w].fd] = Good(i, c)
    BY <2>1
  <2>3. worker[w].cmd - 1 = Len(suite[i].configs[c])
    <3>1. worker[w].cmd = Len(Cmds(w)) + 1 /\ Cmds(w) \in Seq(Commands)
      BY <1>1, AtTest DEF Placed
    <3>2. QED
      BY <3>1 DEF Cmds
  <2>4. Tells(Good(i, c), Due(i, c, Len(suite[i].configs[c])), faults[i][c])
    BY <1>1, <2>2, <2>3 DEF Told
  <2>5. ~HasError(Good(i, c)) /\ Len(Good(i, c)) = Due(i, c, Len(suite[i].configs[c]))
    BY <1>1, AtTest, GoodHasNone DEF IInv
  <2>6. Due(i, c, Len(suite[i].configs[c])) \in Nat
    <3>1. TypeOK /\ i \in Tests /\ c \in Configs(i)
      BY <1>1, AtTest DEF IInv
    <3>2. Len(suite[i].configs[c]) \in Nat
      <4>1. suite[i].configs[c] \in Seq(Commands)
        BY <3>1, SuiteIs
      <4>2. \A q \in Seq(Commands) : Len(q) \in Nat
        OBVIOUS
      <4>3. QED
        BY <4>1, <4>2
    <3>3. QED
      BY <3>1, <3>2, DueNat
  <2>7. faults[i][c] \cap Visible = {}
    BY <2>4, <2>5, <2>6 DEF Tells
  <2>8. QED
    BY <1>1, <2>7 DEF Told
<1>4. QED
  BY <1>1, <1>2, <1>3, MoveStep DEF Placed

\* The output is open: a file of its own, and empty, unless the name is taken.
LEMMA OpenStep == ASSUME IInv, NEW w \in Workers, Open(w) PROVE IInv'
<1> DEFINE fresh == names[Name(w)] = 0
           fd == IF fresh THEN Len(text) + 1 ELSE names[Name(w)]
           r == [worker[w] EXCEPT !.at = "run", !.cmd = 1, !.fd = fd]
<1>1. /\ worker[w].at = "open"
      /\ UNCHANGED <<suite, next, built, strays, futures, results, faults, exit>>
  BY DEF Open
<1>2. /\ TypeOK /\ Owned /\ Placed(w) /\ Held(w) /\ Told(w)
      /\ worker[w] \in WorkerRecords /\ Name(w) \in Names /\ Cmds(w) \in Seq(Commands)
  BY <1>1, AtTest DEF IInv
<1>3. Len(text) \in Nat /\ names[Name(w)] \in 0 .. Len(text)
  BY <1>2 DEF TypeOK
<1>4. /\ text' = IF fresh THEN Append(text, << >>) ELSE text
      /\ names' = [names EXCEPT ![Name(w)] = fd]
  BY <1>2, <1>3 DEF Open, TypeOK
<1>5. fd \in Nat \ {0} /\ names'[Name(w)] = fd /\ \A n \in Names \ {Name(w)} : names'[n] = names[n]
  BY <1>2, <1>3, <1>4 DEF TypeOK
<1>6. worker' = [worker EXCEPT ![w] = r]
  <2>1. worker' = [worker EXCEPT ![w].at = "run", ![w].cmd = 1, ![w].fd = names'[Name(w)]]
    BY DEF Open
  <2>2. QED
    BY <1>5, <2>1
<1> HIDE DEF fd
<1>7. /\ r \in WorkerRecords /\ r.at = "run" /\ r.test = worker[w].test /\ r.config = worker[w].config
      /\ r.cmd = 1 /\ r.fd = fd
  BY <1>2, <1>5 DEF WorkerRecords, Stages
<1> HIDE DEF r
<1>8. /\ worker'[w] = r /\ worker' \in [Workers -> WorkerRecords]
      /\ \A v \in Workers \ {w} : /\ worker'[v] = worker[v]
                                  /\ worker[v].at # "idle" => worker[v].test # worker[w].test
      /\ Apart'
      /\ \A v \in Workers : Name(v)' = Name(v) /\ File(v)' = File(v) /\ Cmds(v)' = Cmds(v)
      /\ Clashes(worker[w].test)' = Clashes(worker[w].test)
  BY <1>1, <1>6, <1>7, Stays
<1>9. /\ text' \in Seq(Seq(Words)) /\ Len(text') \in Nat /\ Len(text') >= Len(text)
      /\ fd \in 1 .. Len(text') /\ (fresh => text'[fd] = << >>)
      /\ \A k \in 1 .. Len(text) : text'[k] = text[k]
  <2>1. text \in Seq(Seq(Words)) /\ << >> \in Seq(Words)
    BY <1>2 DEF TypeOK
  <2>2. CASE fresh
    BY <1>3, <1>4, <2>1, <2>2 DEF fd
  <2>3. CASE ~fresh
    BY <1>3, <1>4, <2>1, <2>3 DEF fd
  <2>4. QED
    BY <2>2, <2>3
<1>10. names' \in [Names -> 0 .. Len(text')]
  BY <1>2, <1>3, <1>4, <1>5, <1>9 DEF TypeOK
<1>11. TypeOK'
  <2>1. /\ suite \in Suites /\ suite' = suite /\ next' \in Nat \ {0} /\ built' \in [Files -> Nat \X Nat]
        /\ futures' \in [Tests -> {"pending", "raised", "done"}]
        /\ results' \in [Tests -> Seq(BOOLEAN)] /\ faults' \in [Tests -> Seq(SUBSET Faults)]
    BY <1>1, <1>2 DEF TypeOK
  <2>2. QED
    BY <1>8, <1>9, <1>10, <2>1, TypesKeep
<1>12. Unsure(worker[w].test, worker[w].config)' = Unsure(worker[w].test, worker[w].config)
  BY <1>1, <1>7, <1>8 DEF Unsure
<1>13. Placed(w)' /\ Held(w)' /\ Told(w)'
  <2>1. Placed(w)'
    <3>1. 1 \in 1 .. Len(Cmds(w)) /\ Cmds(w) # << >>
      <4>1. Cmds(w) # << >>
        BY <1>1, <1>2 DEF Placed
      <4>2. QED
        BY <1>2, <4>1
    <3>2. /\ worker[w].test \in Tests /\ worker[w].test < next /\ futures[worker[w].test] = "pending"
          /\ worker[w].config \in Configs(worker[w].test)
          /\ Len(results[worker[w].test]) = worker[w].config - 1
          /\ Len(faults[worker[w].test]) = worker[w].config
      BY <1>1, <1>2 DEF Placed
    <3>3. Tests' = Tests /\ \A i : Configs(i)' = Configs(i)
      BY <1>1, SuiteKeeps
    <3>4. Configs(worker[w].test)' = Configs(worker[w].test)
      BY <1>1, <1>7, <1>8 DEF Configs
    <3>5. QED
      BY <1>1, <1>7, <1>8, <1>9, <3>1, <3>2, <3>3, <3>4 DEF Placed
  <2>2. Held(w)'
    BY <1>5, <1>7, <1>8 DEF Held, Holding
  <2>3. Told(w)'
    <3> DEFINE i == worker[w].test
               c == worker[w].config
    <3>1. 1 .. 1 - 1 = {}
      OBVIOUS
    <3>2. /\ i' = i /\ c' = c /\ worker'[w].at = "run" /\ worker'[w].fd = fd /\ worker'[w].cmd = 1
          /\ faults[i][c]' = faults[i][c] /\ Clashes(i)' = Clashes(i)
      BY <1>1, <1>7, <1>8
    <3>3. SUFFICES ASSUME ~Clashes(i)
                   PROVE  /\ Tells(text'[fd], Due(i, c, 0), faults[i][c])
                          /\ "foreign" \in faults[i][c] => Unsure(i, c)
      <4>1. Due(i, c, worker[w].cmd - 1)' = Due(i, c, 0)
        BY <1>1, <3>2 DEF Due
      <4>2. Tells(text[worker[w].fd], Due(i, c, worker[w].cmd - 1), faults[i][c])' <=>
              Tells(text'[fd], Due(i, c, 0), faults[i][c])
        BY <3>2, <4>1 DEF Tells, HasError, HasBytes, Undecodable, Visible
      <4>3. QED
        BY <1>12, <3>1, <3>2, <4>2 DEF Told
    <3>4. faults[i][c] \cap Visible = {} /\ ("foreign" \in faults[i][c] => Unsure(i, c))
      BY <1>1, <1>2, <3>3 DEF Told
    <3>5. text'[fd] = << >>
      BY <1>1, <1>2, <1>9, <3>3 DEF Held
    <3>6. Due(i, c, 0) \in Nat
      <4>1. TypeOK /\ i \in Tests /\ c \in Configs(i)
        BY <1>1, AtTest DEF IInv
      <4>2. QED
        BY <4>1, DueNat
    <3>7. QED
      BY <3>4, <3>5, <3>6 DEF Tells, HasError, HasBytes
  <2>4. QED
    BY <2>1, <2>2, <2>3
<1>14. Owned'
  <2>1. \A n, m \in Names : names'[n] = names'[m] /\ n # m => names'[n] = 0
    <3>1. \A n \in Names : names[n] \in 0 .. Len(text)
      BY <1>2 DEF TypeOK
    <3>2. \A n \in Names \ {Name(w)} : names'[n] = fd => FALSE
      <4>1. CASE fresh
        BY <1>3, <1>5, <3>1, <4>1 DEF fd
      <4>2. CASE ~fresh
        BY <1>2, <1>5, <4>2 DEF fd, Owned
      <4>3. QED
        BY <4>1, <4>2
    <3>3. QED
      BY <1>2, <1>5, <3>2 DEF Owned
  <2>2. ASSUME NEW v \in Workers, worker'[v].at \in Holding, NEW n \in Names, names'[n] = worker'[v].fd
        PROVE  n = Name(v)
    <3>1. CASE v = w
      BY <1>2, <1>5, <1>7, <1>8, <2>1, <2>2, <3>1
    <3>2. CASE v # w
      <4>1. worker[v].at \in Holding /\ worker'[v].fd = worker[v].fd /\ worker[v].fd \in 1 .. Len(text)
        <5>1. worker[v].at \in Holding /\ worker'[v] = worker[v]
          BY <1>8, <2>2, <3>2
        <5>2. Placed(v) /\ worker[v].at # "idle"
          BY <5>1 DEF IInv, Holding
        <5>3. QED
          BY <5>1, <5>2 DEF Placed
      <4>2. names[n] = worker[v].fd
        <5>1. CASE n = Name(w) /\ fresh
          BY <1>3, <1>5, <2>2, <4>1, <5>1 DEF fd
        <5>2. CASE n = Name(w) /\ ~fresh
          BY <1>5, <2>2, <4>1, <5>2 DEF fd
        <5>3. CASE n # Name(w)
          BY <1>5, <2>2, <4>1, <5>3
        <5>4. QED
          BY <5>1, <5>2, <5>3
      <4>3. QED
        BY <1>2, <4>1, <4>2 DEF Owned
    <3>3. QED
      BY <3>1, <3>2
  <2>3. QED
    BY <1>1, <1>8, <2>1, <2>2, SuiteKeeps DEF Owned
<1>15. \A n \in Names : Kept(n)'
  <2> SUFFICES ASSUME NEW n \in Names, names'[n] # 0
               PROVE  \/ \E v \in Workers : worker'[v].at \in Holding /\ Name(v) = n
                      \/ \E i \in Tests : \E c \in 1 .. Len(results[i]) : OutName(i, c) = n /\ ~results[i][c]
                      \/ \E i \in Tests : futures'[i] = "raised"
    BY <1>1, <1>8, SuiteKeeps DEF Kept
  <2>1. CASE n = Name(w)
    BY <1>7, <1>8, <2>1 DEF Holding
  <2>2. CASE n # Name(w)
    <3>1. Kept(n) /\ names[n] # 0
      BY <1>5, <2>2 DEF IInv
    <3>2. \A v \in Workers : worker[v].at \in Holding => worker'[v].at \in Holding
      BY <1>1, <1>8 DEF Holding
    <3>3. \A i \in Tests : results'[i] = results[i] /\ futures'[i] = futures[i]
      BY <1>1, <1>8
    <3>4. \A v \in Workers : worker[v].at \in Holding => Name(v)' = Name(v)
      BY <1>1, <1>8, SuiteKeeps DEF Name, OutName, Holding
    <3>5. CASE \E v \in Workers : worker[v].at \in Holding /\ Name(v) = n
      BY <3>2, <3>4, <3>5
    <3>6. CASE ~\E v \in Workers : worker[v].at \in Holding /\ Name(v) = n
      BY <3>1, <3>3, <3>6 DEF Kept
    <3>7. QED
      BY <3>5, <3>6
  <2>3. QED
    BY <2>1, <2>2
<1>16. \A v \in Workers \ {w} : WorkerRight(v)'
  <2>1. worker[w].test \in Tests /\ next \in Nat
    BY <1>1, <1>2, AtTest DEF TypeOK
  <2>2. \A n \in Names : n[1] # suite[worker[w].test].base => names'[n] = names[n]
    BY <1>1, <1>5, AtTest
  <2>3. \A k \in 1 .. Len(text) : text'[k] = text[k]
    BY <1>9
  <2>4. /\ suite' = suite /\ next' \in Nat /\ next' >= next
        /\ futures' = futures /\ results' = results /\ faults' = faults /\ built' = built
    BY <1>1, <2>1
  <2>5. QED
    BY <1>8, <1>9, <2>1, <2>2, <2>3, <2>4, OthersKeep
<1>17. QED
  BY <1>1, <1>8, <1>11, <1>13, <1>14, <1>15, <1>16, TestsKeep, SuiteKeeps DEF IInv, WorkerRight
-----------------------------------------------------------------------------
(* The commands.                                                           *)

\* A command writes to the output the worker has open, and what went wrong shows there.
LEMMA RunStep ==
  ASSUME IInv, NEW w \in Workers, worker[w].at = "run", NextCommand(w),
         NEW words \in Seq(Words), NEW flaws \in SUBSET Faults, Write(worker[w].fd, words), Blame(w, flaws),
         Tells(words, IF Command(w) \in Printing THEN 1 ELSE 0, flaws),
         "foreign" \in flaws /\ ~Clashes(worker[w].test) =>
           Unsure(worker[w].test, worker[w].config) \/ "failed" \in flaws,
         built' \in [Files -> Nat \X Nat], \A f \in Files \ {File(w)} : built'[f] = built[f],
         ~Clashes(worker[w].test) /\ ~Unsure(worker[w].test, worker[w].config) /\ flaws \cap {"failed", "killed"} = {}
           /\ (\E l \in 1 .. worker[w].cmd : Cmds(w)[l] = "compile") =>
             built'[File(w)] \in {NotBuilt, <<worker[w].test, worker[w].config>>},
         \A s \in strays' \ strays :
           "killed" \in flaws /\ s.file = File(w) /\ s.by = <<worker[w].test, worker[w].config>>,
         UNCHANGED <<suite, next, names, futures, results, exit>>
  PROVE  IInv'
<1> DEFINE i == worker[w].test
           c == worker[w].config
           fd == worker[w].fd
           to == IF worker[w].cmd = Len(Cmds(w)) THEN "judge" ELSE "run"
           r == [worker[w] EXCEPT !.cmd = worker[w].cmd + 1, !.at = to]
<1>1. /\ TypeOK /\ Owned /\ Placed(w) /\ Held(w) /\ Told(w) /\ Passed /\ PassedIsRight
      /\ worker[w] \in WorkerRecords /\ Name(w) \in Names /\ Cmds(w) \in Seq(Commands)
      /\ i \in Tests /\ c \in Configs(i) /\ c \in Nat \ {0} /\ File(w) = suite[i].file
  BY AtTest DEF IInv
<1>2. /\ fd \in 1 .. Len(text) /\ worker[w].cmd \in 1 .. Len(Cmds(w)) /\ Len(faults[i]) = c
      /\ Len(results[i]) = c - 1
  BY <1>1 DEF Placed, Holding
<1>3. worker' = [worker EXCEPT ![w] = r]
  BY DEF NextCommand
<1>4. /\ r \in WorkerRecords /\ r.at \in {"run", "judge"} /\ r.test = i /\ r.config = c /\ r.fd = fd
      /\ r.cmd = worker[w].cmd + 1
      /\ (r.at = "run" => worker[w].cmd # Len(Cmds(w))) /\ (r.at = "judge" => worker[w].cmd = Len(Cmds(w)))
  <2>1. /\ to \in {"run", "judge"} /\ to \in Stages
        /\ (to = "run" => worker[w].cmd # Len(Cmds(w))) /\ (to = "judge" => worker[w].cmd = Len(Cmds(w)))
    BY DEF Stages
  <2> HIDE DEF to
  <2>2. worker[w] \in WorkerRecords /\ worker[w].cmd + 1 \in Nat
    BY <1>1 DEF WorkerRecords
  <2>3. /\ r \in WorkerRecords /\ r.at = to /\ r.test = i /\ r.config = c /\ r.fd = fd
        /\ r.cmd = worker[w].cmd + 1
    BY <2>1, <2>2 DEF WorkerRecords
  <2>4. QED
    BY <2>1, <2>3
<1> HIDE DEF r
<1>5. /\ worker'[w] = r /\ worker' \in [Workers -> WorkerRecords]
      /\ \A v \in Workers \ {w} : /\ worker'[v] = worker[v]
                                  /\ worker[v].at # "idle" => worker[v].test # worker[w].test
      /\ Apart'
      /\ \A v \in Workers : Name(v)' = Name(v) /\ File(v)' = File(v) /\ Cmds(v)' = Cmds(v)
      /\ Clashes(worker[w].test)' = Clashes(worker[w].test)
  <2>1. worker[w].at # "idle" /\ r.at # "idle" /\ r.test = worker[w].test /\ r.config = worker[w].config
    BY <1>4
  <2>2. QED
    BY <1>3, <1>4, <2>1, Stays
<1>6. /\ text' \in Seq(Seq(Words)) /\ Len(text') = Len(text) /\ text'[fd] = text[fd] \o words
      /\ text[fd] \in Seq(Words) /\ \A k \in 1 .. Len(text) : k # fd => text'[k] = text[k]
  <2>1. text \in Seq(Seq(Words)) /\ text' = [text EXCEPT ![fd] = text[fd] \o words]
    BY <1>1 DEF TypeOK, Write
  <2>2. text[fd] \in Seq(Words) /\ text[fd] \o words \in Seq(Words)
    BY <1>2, <2>1
  <2> DEFINE longer == text[fd] \o words
  <2>3. /\ longer \in Seq(Words) /\ text' = [text EXCEPT ![fd] = longer]
        /\ text \in Seq(Seq(Words)) /\ fd \in 1 .. Len(text)
    BY <1>2, <2>1, <2>2
  <2> HIDE DEF longer
  <2>4. /\ text' \in Seq(Seq(Words)) /\ Len(text') = Len(text) /\ text'[fd] = longer
        /\ \A k \in 1 .. Len(text) : k # fd => text'[k] = text[k]
    <3> HIDE DEF fd
    <3>1. QED
      BY <2>3, ExceptSeq
  <2>5. QED
    BY <2>2, <2>4 DEF longer
<1>7. /\ faults \in [Tests -> Seq(SUBSET Faults)] /\ faults[i] \in Seq(SUBSET Faults) /\ c \in 1 .. Len(faults[i])
      /\ faults[i][c] \in SUBSET Faults
  <2>1. faults \in [Tests -> Seq(SUBSET Faults)]
    BY <1>1 DEF TypeOK
  <2>2. faults[i] \in Seq(SUBSET Faults)
    BY <1>1, <2>1
  <2>3. c \in 1 .. Len(faults[i])
    <3> HIDE DEF c, i
    <3>1. QED
      BY <1>1, <1>2
  <2>4. faults[i][c] \in SUBSET Faults
    BY <2>2, <2>3
  <2>5. QED
    BY <2>1, <2>2, <2>3, <2>4
<1>8. /\ faults' \in [Tests -> Seq(SUBSET Faults)] /\ \A j \in Tests : Len(faults'[j]) = Len(faults[j])
      /\ \A j \in Tests : \A k \in 1 .. Len(faults[j]) : ~(j = i /\ k = c) => faults'[j][k] = faults[j][k]
      /\ \A j \in Tests \ {i} : faults'[j] = faults[j]
      /\ faults'[i][c] = faults[i][c] \cup flaws
  <2> DEFINE q == [faults[i] EXCEPT ![c] = faults[i][c] \cup flaws]
  <2>1. faults' = [faults EXCEPT ![i] = q]
    BY DEF Blame
  <2>2. faults[i][c] \cup flaws \in SUBSET Faults
    BY <1>7
  <2>3. q \in Seq(SUBSET Faults) /\ Len(q) = Len(faults[i]) /\ q[c] = faults[i][c] \cup flaws
        /\ \A k \in 1 .. Len(faults[i]) : k # c => q[k] = faults[i][k]
    BY <1>7, <2>2
  <2> HIDE DEF q
  <2>4. QED
    BY <1>1, <1>7, <2>1, <2>3
<1>9. TypeOK'
  <2>1. /\ suite \in Suites /\ suite' = suite /\ next' \in Nat \ {0} /\ names' \in [Names -> 0 .. Len(text')]
        /\ futures' \in [Tests -> {"pending", "raised", "done"}] /\ results' \in [Tests -> Seq(BOOLEAN)]
    BY <1>1, <1>6 DEF TypeOK
  <2>2. QED
    BY <1>5, <1>6, <1>8, <2>1, TypesKeep
<1>10. \A j \in Tests : \A k \in 1 .. Len(faults[j]) : faults[j][k] \subseteq faults'[j][k]
  BY <1>8
<1>11. /\ \A k \in 1 .. c - 1 : faults'[i][k] = faults[i][k]
       /\ \A k \in 1 .. c : k = c \/ k \in 1 .. c - 1
  <2>1. \A k \in 1 .. c - 1 : k \in 1 .. Len(faults[i]) /\ k # c
    BY <1>1, <1>2
  <2>2. QED
    BY <1>1, <1>8, <2>1
<1>12. /\ i' = i /\ c' = c /\ fd' = fd /\ Clashes(i)' = Clashes(i) /\ faults[i][c]' = faults[i][c] \cup flaws
       /\ Unsure(i, c)' <=> Unsure(i, c) \/ flaws \cap {"failed", "killed"} # {}
  <2>1. i' = i /\ c' = c /\ fd' = fd /\ Clashes(i)' = Clashes(i) /\ faults[i][c]' = faults[i][c] \cup flaws
    BY <1>4, <1>5, <1>8
  <2>2. Unsure(i, c)' <=> \/ "failed" \in faults'[i][c]
                          \/ \E k \in 1 .. c : "killed" \in faults'[i][k]
    BY <2>1 DEF Unsure
  <2>3. c \in 1 .. c /\ \A k \in 1 .. c - 1 : k \in 1 .. c
    BY <1>1
  <2>4. /\ "failed" \in faults'[i][c] <=> "failed" \in faults[i][c] \/ "failed" \in flaws
        /\ "killed" \in faults'[i][c] <=> "killed" \in faults[i][c] \/ "killed" \in flaws
    BY <1>8
  <2>5. (\E k \in 1 .. c : "killed" \in faults'[i][k]) <=>
          (\E k \in 1 .. c : "killed" \in faults[i][k]) \/ "killed" \in flaws
    <3>1. \A k \in 1 .. c : k = c \/ k \in 1 .. c - 1
      BY <1>1
    <3>2. QED
      BY <1>11, <2>3, <2>4, <3>1
  <2>6. QED
    BY <2>1, <2>2, <2>4, <2>5 DEF Unsure
<1>13. Placed(w)' /\ Held(w)' /\ Told(w)'
  <2>1. Placed(w)'
    <3>1. /\ i \in Tests /\ i < next /\ futures[i] = "pending" /\ c \in Configs(i) /\ Cmds(w) # << >>
      BY <1>1 DEF Placed
    <3>2. Tests' = Tests /\ Configs(i)' = Configs(i)
      BY <1>4, <1>5 DEF Tests, Configs
    <3>3. /\ r.at = "run" => r.cmd \in 1 .. Len(Cmds(w))
          /\ r.at = "judge" => r.cmd = Len(Cmds(w)) + 1
      BY <1>1, <1>2, <1>4, SMTT(60)
    <3>4. QED
      BY <1>1, <1>2, <1>4, <1>5, <1>6, <1>8, <3>1, <3>2, <3>3 DEF Placed
  <2>2. Held(w)'
    <3>1. ~Clashes(i) => names[Name(w)] = fd
      BY <1>1 DEF Held, Holding
    <3>2. QED
      BY <1>4, <1>5, <3>1 DEF Held
  <2>3. Told(w)'
    <3> DEFINE due == Due(i, c, worker[w].cmd - 1)
               more == IF Command(w) \in Printing THEN 1 ELSE 0
    <3>1. worker[w].cmd \in Nat \ {0} /\ more \in Nat /\ due \in Nat /\ Due(i, c, worker[w].cmd) = due + more
      <4>1. worker[w].cmd \in Nat \ {0}
        BY <1>1, <1>2
      <4>2. Command(w) = suite[i].configs[c][worker[w].cmd]
        BY DEF Command, Cmds
      <4>3. /\ TypeOK /\ i \in Tests /\ c \in Configs(i)
            /\ more = IF suite[i].configs[c][worker[w].cmd] \in Printing THEN 1 ELSE 0
        BY <1>1, <4>2 DEF IInv
      <4>4. due \in Nat /\ Due(i, c, worker[w].cmd) = due + more
        <5> HIDE DEF more
        <5>1. due \in Nat /\ Due(i, c, worker[w].cmd) =
                due + (IF suite[i].configs[c][worker[w].cmd] \in Printing THEN 1 ELSE 0)
          BY <4>1, <4>3, DueMore
        <5>2. QED
          BY <4>3, <5>1
      <4>5. QED
        BY <4>1, <4>4
    <3> HIDE DEF more
    <3>2. SUFFICES ASSUME ~Clashes(i)
                   PROVE  /\ Tells(text[fd] \o words, due + more, faults[i][c] \cup flaws)
                          /\ "foreign" \in faults[i][c] \cup flaws => Unsure(i, c) \/ flaws \cap {"failed", "killed"} # {}
                          /\ ~Unsure(i, c) /\ flaws \cap {"failed", "killed"} = {}
                             /\ (\E l \in 1 .. worker[w].cmd : Cmds(w)[l] = "compile") =>
                               built'[File(w)] \in {NotBuilt, <<i, c>>}
      <4>1. r.cmd - 1 = worker[w].cmd
        BY <1>1, <1>2, <1>4
      <4>2. Due(i, c, worker[w].cmd - 1)' = Due(i, c, worker[w].cmd)
        <5>1. (worker[w].cmd - 1)' = worker[w].cmd
          BY <1>5, <4>1
        <5>2. QED
          BY <1>12, <5>1 DEF Due
      <4>3. text[worker[w].fd]' = text[fd] \o words
        BY <1>6, <1>12
      <4>4. Tells(text[worker[w].fd], Due(i, c, worker[w].cmd - 1), faults[i][c])' <=>
              Tells(text[fd] \o words, due + more, faults[i][c] \cup flaws)
        BY <1>12, <3>1, <4>2, <4>3 DEF Tells, HasError, HasBytes, Undecodable, Visible
      <4>5. worker'[w].at \in {"run", "judge"} /\ worker'[w].cmd - 1 = worker[w].cmd
        BY <1>4, <1>5, <4>1
      <4>6. QED
        BY <1>5, <1>12, <4>4, <4>5 DEF Told, NotBuilt
    <3>3. Tells(text[fd], due, faults[i][c])
      BY <1>1, <3>2 DEF Told
    <3>4. Tells(text[fd] \o words, due + more, faults[i][c] \cup flaws)
      BY <1>6, <1>7, <3>1, <3>3, TellsMore DEF more
    <3>5. "foreign" \in faults[i][c] => Unsure(i, c)
      BY <1>1, <3>2 DEF Told
    <3>6. QED
      BY <3>2, <3>4, <3>5
  <2>4. QED
    BY <2>1, <2>2, <2>3, SMTT(60)
<1>14. Owned'
  <2>1. \A v \in Workers : worker'[v].at \in Holding => worker[v].at \in Holding /\ worker'[v].fd = worker[v].fd
    BY <1>4, <1>5 DEF Holding
  <2>2. QED
    BY <1>1, <1>5, <2>1, SuiteKeeps DEF Owned
<1>15. \A n \in Names : Kept(n)'
  <2>1. \A v \in Workers : worker[v].at \in Holding => worker'[v].at \in Holding
    BY <1>4, <1>5 DEF Holding
  <2>2. ASSUME NEW n \in Names
        PROVE  Kept(n)'
    <3>1. Kept(n)
      BY DEF IInv
    <3>2. QED
      BY <1>5, <2>1, <3>1, SuiteKeeps DEF Kept
  <2>3. QED
    BY <2>2
<1>16. \A v \in Workers \ {w} : WorkerRight(v)'
  <2>1. next \in Nat /\ Len(text) \in Nat
    BY <1>1 DEF TypeOK
  <2>2. /\ suite' = suite /\ next' \in Nat /\ next' >= next
        /\ futures' = futures /\ results' = results /\ names' = names
    BY <2>1
  <2>3. \A f \in Files : f # suite[i].file => built'[f] = built[f]
    BY <1>1
  <2>4. /\ \A j \in Tests \ {i} : futures'[j] = futures[j] /\ results'[j] = results[j] /\ faults'[j] = faults[j]
        /\ Len(text') \in Nat /\ Len(text') >= Len(text)
        /\ \A n \in Names : n[1] # suite[i].base => names'[n] = names[n]
    BY <1>6, <1>8, <2>1, <2>2
  <2>5. QED
    <3>1. \A k \in 1 .. Len(text) : \/ text'[k] = text[k]
                                    \/ worker[w].at \in Holding /\ worker[w].test = i /\ k = worker[w].fd
      BY <1>6 DEF Holding
    <3>2. QED
      BY <1>1, <1>5, <2>2, <2>3, <2>4, <3>1, OthersKeep
<1>17. \A j \in Tests : Counted(j)'
  <2> SUFFICES ASSUME NEW j \in Tests
               PROVE  Counted(j)'
    OBVIOUS
  <2>1. Counted(j) /\ next \in Nat /\ j \in Nat /\ i < next /\ i \in Nat
    BY <1>1, SuiteIs DEF IInv, TypeOK, Placed
  <2>2. j >= next => faults'[j] = faults[j]
    BY <1>1, <1>8, <2>1
  <2>3. futures[j] = "raised" => Clashes(j) \/ Garbled(j)'
    BY <1>8, <1>10, <2>1 DEF Counted, Garbled
  <2>4. QED
    BY <1>8, <2>1, <2>2, <2>3, SuiteKeeps DEF Counted
<1>18. \A s \in strays' : StrayOf(s)'
  <2> SUFFICES ASSUME NEW s \in strays'
               PROVE  StrayOf(s)'
    OBVIOUS
  <2>1. CASE s \in strays
    <3>1. StrayOf(s)
      BY <2>1 DEF IInv
    <3>2. QED
      BY <1>8, <1>10, <3>1, SuiteKeeps DEF StrayOf
  <2>2. CASE s \notin strays
    <3>1. s.file = suite[i].file /\ s.by = <<i, c>> /\ "killed" \in flaws
      BY <1>1, <2>2
    <3>2. s.by[1] = i /\ s.by[2] = c
      BY <3>1
    <3>3. c \in 1 .. Len(faults'[i]) /\ "killed" \in faults'[i][c]
      BY <1>1, <1>7, <1>8, <3>1
    <3>4. QED
      BY <1>1, <3>1, <3>2, <3>3, SuiteKeeps DEF StrayOf
  <2>3. QED
    BY <2>1, <2>2
<1>19. Passed'
  BY <1>1, SuiteKeeps DEF Passed
<1>20. PassedIsRight'
  <2> SUFFICES ASSUME NEW j \in Tests, NEW d \in 1 .. Len(results[j]), results[j][d]
               PROVE  Sound(j, d)'
    BY <1>1, SuiteKeeps DEF PassedIsRight, Sound
  <2>1. Len(results[j]) <= Len(faults[j]) /\ Len(results[j]) \in Nat /\ Len(faults[j]) \in Nat /\ j \in Nat
    <3>1. Counted(j) /\ results[j] \in Seq(BOOLEAN) /\ faults[j] \in Seq(SUBSET Faults)
      BY DEF IInv, TypeOK
    <3>2. j \in Nat
      BY <1>1, SuiteIs
    <3>3. QED
      BY <3>1, <3>2 DEF Counted
  <2>2. d \in Nat \ {0} /\ \A k \in 1 .. d : k \in 1 .. Len(faults[j])
    BY <2>1
  <2>3. \A k \in 1 .. d : ~(j = i /\ k = c)
    <3>1. CASE j = i
      <4>1. d \in 1 .. c - 1
        BY <1>2, <3>1
      <4> HIDE DEF c
      <4>2. QED
        BY <1>1, <4>1
    <3>2. CASE j # i
      BY <3>2
    <3>3. QED
      BY <3>1, <3>2
  <2>4. Sound(j, d)
    BY <1>1 DEF PassedIsRight, Sound
  <2>5. \A k \in 1 .. d : faults'[j][k] = faults[j][k]
    BY <1>8, <2>2, <2>3
  <2>6. QED
    BY <2>1, <2>2, <2>4, <2>5, SoundKeeps
<1>21. QED
  BY <1>5, <1>9, <1>13, <1>14, <1>15, <1>16, <1>17, <1>18, <1>19, <1>20, SuiteKeeps DEF IInv, WorkerRight

\* A message is in the output, and one that does not decode tells that too.
LEMMA MessageTells ==
  ASSUME NEW due \in Nat, NEW flaws \in SUBSET Faults
  PROVE  /\ <<Message>> \in Seq(Words) /\ Tells(<<Message>>, due, flaws)
         /\ <<Undecodable>> \in Seq(Words) /\ ("undecodable" \in flaws => Tells(<<Undecodable>>, due, flaws))
<1>1. /\ <<Message>> \in Seq(Words) /\ Len(<<Message>>) = 1 /\ <<Message>>[1] = Message
      /\ <<Undecodable>> \in Seq(Words) /\ Len(<<Undecodable>>) = 1 /\ <<Undecodable>>[1] = Undecodable
  BY DEF Words
<1>2. Message[1] = "error" /\ Undecodable[1] = "error" /\ Message # Undecodable
  BY DEF Message, Undecodable
<1>3. HasError(<<Message>>) /\ HasError(<<Undecodable>>) /\ ~HasBytes(<<Message>>)
  BY <1>1, <1>2 DEF HasError, HasBytes
<1>4. QED
  BY <1>1, <1>3 DEF Tells

\* What a command should print, and what prints nothing.
LEMMA PrintsTells ==
  ASSUME TypeOK, NEW i \in Tests, NEW command \in Commands, NEW flaws \in SUBSET Faults
  PROVE  LET due == IF command \in Printing THEN 1 ELSE 0
         IN /\ Prints(i, command) \in Seq(Words) /\ (flaws \cap Visible = {} => Tells(Prints(i, command), due, flaws))
            /\ << >> \in Seq(Words) /\ (command \in Printing => Tells(<< >>, due, flaws))
<1> DEFINE word == <<"text", suite[i].file>>
<1>1. word \in Words /\ word # Undecodable
  <2>1. suite[i].file \in STRING
    BY SuiteIs
  <2>2. QED
    BY <2>1 DEF Words, Undecodable
<1> HIDE DEF word
<1>2. /\ <<word>> \in Seq(Words) /\ Len(<<word>>) = 1 /\ <<word>>[1] = word
      /\ << >> \in Seq(Words) /\ Len(<< >>) = 0
  BY <1>1
<1>3. ~HasBytes(<<word>>) /\ ~HasBytes(<< >>)
  BY <1>1, <1>2 DEF HasBytes
<1>4. CASE command \in Printing
  <2>1. Prints(i, command) = <<word>>
    BY <1>4 DEF Prints, word
  <2>2. Tells(<< >>, 1, flaws) /\ (flaws \cap Visible = {} => Tells(<<word>>, 1, flaws))
    BY <1>2, <1>3 DEF Tells
  <2>3. QED
    BY <1>2, <1>4, <2>1, <2>2
<1>5. CASE command \notin Printing
  <2>1. Prints(i, command) = << >>
    BY <1>5 DEF Prints
  <2>2. flaws \cap Visible = {} => Tells(<< >>, 0, flaws)
    BY <1>2, <1>3 DEF Tells
  <2>3. QED
    BY <1>2, <1>5, <2>1, <2>2
<1>6. QED
  BY <1>4, <1>5

LEMMA CommandIs ==
  ASSUME IInv, NEW w \in Workers, worker[w].at = "run"
  PROVE  /\ Command(w) \in Commands
         /\ worker[w].cmd \in 1 .. Len(Cmds(w)) /\ Len(Cmds(w)) \in Nat
<1>1. Cmds(w) \in Seq(Commands) /\ worker[w].cmd \in 1 .. Len(Cmds(w))
  BY AtTest DEF IInv, Placed
<1>2. Cmds(w)[worker[w].cmd] \in Commands /\ Len(Cmds(w)) \in Nat
  BY <1>1, ElementOfSeq
<1>3. QED
  BY <1>1, <1>2 DEF Command

\* A program that is run is its own, or a compiler was not to be trusted.
LEMMA ForeignIs ==
  ASSUME IInv, NEW w \in Workers, worker[w].at = "run", Present(w)
  PROVE  /\ Foreign(w) \in SUBSET Faults /\ Foreign(w) \cap Visible = {}
         /\ Foreign(w) \cap {"failed", "killed"} = {}
         /\ "foreign" \in Foreign(w) /\ ~Clashes(worker[w].test) =>
              Unsure(worker[w].test, worker[w].config)
<1> DEFINE i == worker[w].test
           c == worker[w].config
<1>1. Foreign(w) \in SUBSET Faults /\ Foreign(w) \cap Visible = {} /\ Foreign(w) \cap {"failed", "killed"} = {}
  BY DEF Foreign, Faults, Visible
<1>2. ASSUME "foreign" \in Foreign(w), ~Clashes(i), ~Unsure(i, c)
      PROVE  FALSE
  <2>1. Command(w) = "exec" /\ built[File(w)] # <<i, c>>
    BY <1>2 DEF Foreign, Own
  <2>2. built[File(w)] # NotBuilt
    BY <2>1 DEF Present
  <2>3. TypeOK /\ Told(w) /\ i \in Tests /\ c \in Configs(i)
    BY AtTest DEF IInv
  <2>4. \E l \in 1 .. worker[w].cmd - 1 : Cmds(w)[l] = "compile"
    <3>1. worker[w].cmd \in 1 .. Len(Cmds(w))
      BY CommandIs
    <3>2. QED
      BY <2>1, <2>3, <3>1, BuildsFirst DEF Command, Cmds
  <2>5. QED
    BY <1>2, <2>1, <2>2, <2>3, <2>4 DEF Told
<1>3. QED
  BY <1>1, <1>2

\* What a command may leave, whether it does its part or not.
LEMMA AfterIs ==
  ASSUME IInv, NEW w \in Workers, worker[w].at = "run"
  PROVE  /\ built \in [Files -> Nat \X Nat] /\ After(w) \in [Files -> Nat \X Nat]
         /\ \A f \in Files \ {File(w)} : After(w)[f] = built[f]
         /\ ~Clashes(worker[w].test) /\ ~Unsure(worker[w].test, worker[w].config)
              /\ (\E l \in 1 .. worker[w].cmd : Cmds(w)[l] = "compile") =>
                /\ After(w)[File(w)] \in {NotBuilt, <<worker[w].test, worker[w].config>>}
                /\ Command(w) # "compile" => built[File(w)] \in {NotBuilt, <<worker[w].test, worker[w].config>>}
<1> DEFINE i == worker[w].test
           c == worker[w].config
<1>1. /\ TypeOK /\ Told(w) /\ i \in Tests /\ i \in Nat /\ c \in Nat /\ File(w) \in Files
  BY AtTest DEF IInv
<1>2. Command(w) \in Commands /\ worker[w].cmd \in 1 .. Len(Cmds(w)) /\ Len(Cmds(w)) \in Nat
  BY CommandIs
<1>3. built \in [Files -> Nat \X Nat] /\ <<i, c>> \in Nat \X Nat /\ NotBuilt \in Nat \X Nat
  BY <1>1 DEF TypeOK, NotBuilt
<1>4. /\ Command(w) = "compile" => After(w) = [built EXCEPT ![File(w)] = <<i, c>>]
      /\ Command(w) = "clean" => After(w) = [built EXCEPT ![File(w)] = NotBuilt]
      /\ Command(w) \notin {"compile", "clean"} => After(w) = built
  BY DEF After, Own
<1>5. /\ After(w) \in [Files -> Nat \X Nat] /\ \A f \in Files \ {File(w)} : After(w)[f] = built[f]
      /\ Command(w) = "compile" => After(w)[File(w)] = <<i, c>>
      /\ Command(w) = "clean" => After(w)[File(w)] = NotBuilt
  BY <1>1, <1>3, <1>4
<1>6. ASSUME ~Clashes(i), ~Unsure(i, c), Command(w) # "compile", \E l \in 1 .. worker[w].cmd : Cmds(w)[l] = "compile"
      PROVE  built[File(w)] \in {NotBuilt, <<i, c>>}
  <2>1. \A l \in 1 .. worker[w].cmd : Cmds(w)[l] = "compile" => l \in 1 .. worker[w].cmd - 1
    BY <1>2, <1>6 DEF Command
  <2>2. QED
    BY <1>1, <1>6, <2>1 DEF Told
<1>7. QED
  BY <1>3, <1>4, <1>5, <1>6

LEMMA FailStep == ASSUME IInv, NEW w \in Workers, Fail(w) PROVE IInv'
<1> DEFINE i == worker[w].test
           prints == Prints(i, Command(w))
           due == IF Command(w) \in Printing THEN 1 ELSE 0
<1>1. worker[w].at = "run" /\ Present(w) /\ NextCommand(w) /\ built' \in {built, After(w)}
      /\ UNCHANGED <<suite, next, names, strays, futures, results, exit>>
  BY DEF Fail
<1>2. PICK words \in {prints, << >>, <<Message>>, <<Undecodable>>} :
        /\ Write(worker[w].fd, words)
        /\ Blame(w, Foreign(w) \cup (IF Command(w) = "compile" THEN {"failed"} ELSE {})
                      \cup (IF words = <<Undecodable>> THEN {"undecodable"} ELSE {})
                      \cup (IF words # prints THEN {"misprinted"} ELSE {}))
  BY DEF Fail
<1> DEFINE flaws == Foreign(w) \cup (IF Command(w) = "compile" THEN {"failed"} ELSE {})
                      \cup (IF words = <<Undecodable>> THEN {"undecodable"} ELSE {})
                      \cup (IF words # prints THEN {"misprinted"} ELSE {})
<1>3. /\ flaws \in SUBSET Faults
      /\ words = <<Undecodable>> => "undecodable" \in flaws
      /\ words = prints /\ words # <<Undecodable>> => flaws \cap Visible = {}
      /\ "foreign" \in flaws /\ ~Clashes(i) => Unsure(i, worker[w].config)
      /\ Command(w) = "compile" => "failed" \in flaws
  BY <1>1, ForeignIs DEF Faults, Visible
<1>4. TypeOK /\ i \in Tests /\ Command(w) \in Commands /\ due \in Nat
  BY <1>1, AtTest, CommandIs DEF IInv
<1> HIDE DEF flaws
<1>5. words \in Seq(Words) /\ Tells(words, due, flaws)
  <2>1. CASE words = <<Undecodable>>
    BY <1>3, <1>4, <2>1, MessageTells
  <2>2. CASE words = <<Message>>
    BY <1>3, <1>4, <2>2, MessageTells
  <2>3. CASE words = prints /\ words # <<Undecodable>>
    BY <1>3, <1>4, <2>3, PrintsTells
  <2>4. CASE words = << >> /\ words # prints
    <3>1. Command(w) \in Printing
      BY <2>4 DEF Prints
    <3>2. QED
      BY <1>3, <1>4, <2>4, <3>1, PrintsTells
  <2>5. QED
    BY <2>1, <2>2, <2>3, <2>4
<1>6. /\ built' \in [Files -> Nat \X Nat] /\ \A f \in Files \ {File(w)} : built'[f] = built[f]
      /\ ~Clashes(i) /\ ~Unsure(i, worker[w].config) /\ flaws \cap {"failed", "killed"} = {}
           /\ (\E l \in 1 .. worker[w].cmd : Cmds(w)[l] = "compile") =>
             built'[File(w)] \in {NotBuilt, <<i, worker[w].config>>}
  BY <1>1, <1>3, AfterIs
<1>7. strays' \ strays = {} /\ Blame(w, flaws)
  BY <1>1, <1>2 DEF flaws
<1>8. QED
  BY <1>1, <1>2, <1>3, <1>5, <1>6, <1>7, RunStep

LEMMA NotThereStep == ASSUME IInv, NEW w \in Workers, NotThere(w) PROVE IInv'
<1> DEFINE flaws == {"misprinted"}
           due == IF Command(w) \in Printing THEN 1 ELSE 0
<1>1. worker[w].at = "run" /\ ~Present(w) /\ NextCommand(w) /\ Write(worker[w].fd, <<Message>>) /\ Blame(w, flaws)
      /\ UNCHANGED <<suite, next, names, built, strays, futures, results, exit>>
  BY DEF NotThere
<1>2. flaws \in SUBSET Faults /\ "foreign" \notin flaws
  BY DEF Faults, Visible
<1> HIDE DEF flaws
<1>3. <<Message>> \in Seq(Words) /\ Tells(<<Message>>, due, flaws)
  BY <1>2, MessageTells
<1>4. /\ built' \in [Files -> Nat \X Nat] /\ \A f \in Files \ {File(w)} : built'[f] = built[f]
      /\ ~Clashes(worker[w].test) /\ ~Unsure(worker[w].test, worker[w].config)
           /\ (\E l \in 1 .. worker[w].cmd : Cmds(w)[l] = "compile") =>
             built'[File(w)] \in {NotBuilt, <<worker[w].test, worker[w].config>>}
  <2>1. Command(w) # "compile"
    BY <1>1 DEF Present
  <2>2. QED
    BY <1>1, <2>1, AfterIs
<1>5. strays' \ strays = {}
  BY <1>1
<1>6. QED
  BY <1>1, <1>2, <1>3, <1>4, <1>5, RunStep

LEMMA TimeOutStep == ASSUME IInv, NEW w \in Workers, TimeOut(w) PROVE IInv'
<1>0. PICK words \in {<<Message>>, <<Undecodable>>} :
        /\ Write(worker[w].fd, words)
        /\ Late(w, IF words = <<Undecodable>> THEN {"undecodable"} ELSE {})
  BY DEF TimeOut, Message, Undecodable
<1> DEFINE more == IF words = <<Undecodable>> THEN {"undecodable"} ELSE {}
           flaws == {IF Command(w) = "compile" THEN "killed" ELSE "late"} \cup more
           due == IF Command(w) \in Printing THEN 1 ELSE 0
<1>1. worker[w].at = "run" /\ NextCommand(w) /\ Write(worker[w].fd, words) /\ Blame(w, flaws)
      /\ UNCHANGED <<suite, next, names, built, futures, results, exit>>
  BY <1>0 DEF TimeOut, Late
<1>2. flaws \in SUBSET Faults /\ "foreign" \notin flaws /\ (Command(w) = "compile" => "killed" \in flaws)
      /\ (words = <<Undecodable>> => "undecodable" \in flaws)
  BY DEF Faults, Visible
<1>3. \A s \in strays' \ strays : "killed" \in flaws /\ s.file = File(w) /\ s.by = <<worker[w].test, worker[w].config>>
  <2>1. CASE Command(w) = "compile"
    <3>1. strays' = strays \cup {[file |-> File(w), by |-> <<worker[w].test, worker[w].config>>]}
      BY <1>0, <2>1 DEF Late, Own
    <3>2. QED
      BY <1>2, <2>1, <3>1
  <2>2. CASE Command(w) # "compile"
    <3>1. strays' = strays
      BY <1>0, <2>2 DEF Late
    <3>2. QED
      BY <3>1
  <2>3. QED
    BY <2>1, <2>2
<1> HIDE DEF flaws
<1>4. words \in Seq(Words) /\ Tells(words, due, flaws)
  BY <1>0, <1>2, MessageTells
<1>5. /\ built' \in [Files -> Nat \X Nat] /\ \A f \in Files \ {File(w)} : built'[f] = built[f]
      /\ ~Clashes(worker[w].test) /\ ~Unsure(worker[w].test, worker[w].config) /\ flaws \cap {"failed", "killed"} = {}
           /\ (\E l \in 1 .. worker[w].cmd : Cmds(w)[l] = "compile") =>
             built'[File(w)] \in {NotBuilt, <<worker[w].test, worker[w].config>>}
  BY <1>1, <1>2, AfterIs
<1>6. QED
  BY <1>1, <1>2, <1>3, <1>4, <1>5, RunStep

LEMMA SucceedStep == ASSUME IInv, NEW w \in Workers, Succeed(w) PROVE IInv'
<1> DEFINE i == worker[w].test
           words == Prints(i, Command(w))
           flaws == Foreign(w)
<1>1. /\ worker[w].at = "run" /\ Present(w) /\ NextCommand(w) /\ Write(worker[w].fd, words) /\ Blame(w, flaws)
      /\ built' = After(w) /\ UNCHANGED <<suite, next, names, strays, futures, results, exit>>
  BY DEF Succeed
<1>2. /\ flaws \in SUBSET Faults /\ flaws \cap Visible = {}
      /\ "foreign" \in flaws /\ ~Clashes(i) => Unsure(i, worker[w].config)
  BY <1>1, ForeignIs
<1> HIDE DEF flaws
<1>3. TypeOK /\ i \in Tests /\ Command(w) \in Commands
  BY <1>1, AtTest, CommandIs DEF IInv
<1>4. words \in Seq(Words) /\ Tells(words, IF Command(w) \in Printing THEN 1 ELSE 0, flaws)
  BY <1>2, <1>3, PrintsTells
<1>5. /\ built' \in [Files -> Nat \X Nat] /\ \A f \in Files \ {File(w)} : built'[f] = built[f]
      /\ ~Clashes(i) /\ ~Unsure(i, worker[w].config)
           /\ (\E l \in 1 .. worker[w].cmd : Cmds(w)[l] = "compile") =>
             built'[File(w)] \in {NotBuilt, <<i, worker[w].config>>}
  BY <1>1, AfterIs
<1>6. strays' \ strays = {}
  BY <1>1
<1> HIDE DEF words
<1>7. QED
  BY <1>1, <1>2, <1>4, <1>5, <1>6, RunStep

-----------------------------------------------------------------------------
(* Reporting a configuration, and leaving the test.                        *)

LEMMA Leaves ==
  ASSUME IInv, NEW w \in Workers, worker[w].at # "idle", NEW r \in WorkerRecords,
         r.at # "idle" => r.test = worker[w].test, worker' = [worker EXCEPT ![w] = r]
  PROVE  /\ worker'[w] = r /\ worker' \in [Workers -> WorkerRecords]
         /\ \A v \in Workers \ {w} : /\ worker'[v] = worker[v]
                                     /\ worker[v].at # "idle" => worker[v].test # worker[w].test
         /\ Apart'
<1>1. TypeOK /\ Apart
  BY DEF IInv
<1>2. worker'[w] = r /\ worker' \in [Workers -> WorkerRecords] /\ \A v \in Workers \ {w} : worker'[v] = worker[v]
  BY <1>1 DEF TypeOK
<1>3. Apart'
  BY <1>1, <1>2, ApartKeeps
<1>4. \A v \in Workers \ {w} : worker[v].at # "idle" => worker[v].test # worker[w].test
  BY <1>1 DEF Apart
<1>5. QED
  BY <1>2, <1>3, <1>4

\* A worker that has its output open no more leaves the other outputs as they were.
LEMMA OwnedLeft ==
  ASSUME IInv, NEW w \in Workers, suite' = suite, worker'[w].at \notin Holding,
         \A v \in Workers \ {w} : worker'[v] = worker[v],
         names' = names \/ (Name(w) \in Names /\ names' = [names EXCEPT ![Name(w)] = 0])
  PROVE  Owned'
<1>1. Owned /\ names \in [Names -> 0 .. Len(text)]
  BY DEF IInv, TypeOK
<1>2. \A n \in Names : names'[n] = names[n] \/ names'[n] = 0
  BY <1>1
<1>3. \A n, m \in Names : names'[n] = names'[m] /\ n # m => names'[n] = 0
  BY <1>1, <1>2 DEF Owned
<1>4. ASSUME NEW v \in Workers, worker'[v].at \in Holding, NEW n \in Names, names'[n] = worker'[v].fd
      PROVE  n = Name(v)'
  <2>1. v # w /\ worker'[v] = worker[v] /\ worker[v].at \in Holding /\ worker[v].at # "idle"
    BY <1>4 DEF Holding
  <2>2. worker[v].fd # 0
    BY <2>1 DEF IInv, Placed
  <2>3. names[n] = worker[v].fd
    BY <1>2, <1>4, <2>1, <2>2
  <2>4. n = Name(v)
    BY <1>1, <2>1, <2>3 DEF Owned
  <2>5. Name(v)' = Name(v)
    BY <2>1 DEF Name, OutName
  <2>6. QED
    BY <2>4, <2>5
<1>5. QED
  BY <1>3, <1>4, SuiteKeeps DEF Owned

LEMMA ReportStep ==
  ASSUME IInv, NEW w \in Workers, worker[w].at # "idle", NEW passed \in BOOLEAN, Report(w, passed),
         UNCHANGED <<suite, next, text, built, strays, exit>>,
         (~passed /\ names' = names) \/ (passed /\ names' = [names EXCEPT ![Name(w)] = 0]),
         passed => Sound(worker[w].test, worker[w].config)
  PROVE  IInv'
<1> DEFINE i == worker[w].test
           c == worker[w].config
           more == c < Len(suite[i].configs)
           r == IF more THEN [Idle EXCEPT !.at = "exists", !.test = i, !.config = c + 1] ELSE Idle
<1>1. /\ TypeOK /\ Placed(w) /\ PassedIsRight /\ Passed
      /\ i \in Tests /\ c \in Configs(i) /\ i \in Nat \ {0} /\ c \in Nat \ {0}
      /\ Name(w) \in Names /\ Name(w) = OutName(i, c) /\ Name(w)[1] = suite[i].base
  BY AtTest DEF IInv, Name, OutName
<1>2. /\ i < next /\ futures[i] = "pending" /\ Len(results[i]) = c - 1 /\ Len(faults[i]) = c
      /\ Len(suite[i].configs) \in Nat /\ c <= Len(suite[i].configs) /\ next \in Nat
  BY <1>1, SuiteIs DEF Placed, TypeOK, Configs
<1>lens. c \in Nat /\ c >= 1 /\ Len(results[i]) = c - 1 /\ Len(faults[i]) = c
  BY <1>1, <1>2
<1>3. worker' = [worker EXCEPT ![w] = r]
  BY DEF Report
<1>4. /\ r \in WorkerRecords /\ r.at \in {"idle", "exists"}
      /\ r.at # "idle" => more /\ r.at = "exists" /\ r.test = i /\ r.config = c + 1
  <2>1. i \in Nat /\ c + 1 \in Nat
    BY <1>1
  <2>2. CASE more
    <3>1. r = [at |-> "exists", test |-> i, config |-> c + 1, cmd |-> 0, fd |-> 0]
      BY <2>2 DEF Idle
    <3> HIDE DEF r, more
    <3>2. QED
      BY <2>1, <2>2, <3>1 DEF WorkerRecords, Stages
  <2>3. CASE ~more
    BY <2>3 DEF Idle, WorkerRecords, Stages
  <2>4. QED
    BY <2>2, <2>3
<1> HIDE DEF r
<1>5. /\ worker'[w] = r /\ worker' \in [Workers -> WorkerRecords]
      /\ \A v \in Workers \ {w} : /\ worker'[v] = worker[v]
                                  /\ worker[v].at # "idle" => worker[v].test # worker[w].test
      /\ Apart'
  BY <1>3, <1>4, Leaves
<1>6. /\ results' \in [Tests -> Seq(BOOLEAN)] /\ Len(results'[i]) = c /\ results'[i][c] = passed
      /\ \A k \in 1 .. c - 1 : results'[i][k] = results[i][k]
      /\ \A j \in Tests \ {i} : results'[j] = results[j]
  <2> DEFINE q == Append(results[i], passed)
  <2>1. results' = [results EXCEPT ![i] = q] /\ results \in [Tests -> Seq(BOOLEAN)]
    BY <1>1 DEF Report, TypeOK
  <2>2. results[i] \in Seq(BOOLEAN)
    BY <1>1, <2>1
  <2>3. q \in Seq(BOOLEAN) /\ Len(q) = c /\ q[c] = passed /\ \A k \in 1 .. c - 1 : q[k] = results[i][k]
    <3> HIDE DEF c
    <3>1. QED
      BY <1>lens, <2>2, AppendProperties
  <2> HIDE DEF q
  <2>4. QED
    BY <1>1, <2>1, <2>3
<1>7. /\ faults' \in [Tests -> Seq(SUBSET Faults)] /\ Len(faults'[i]) = IF more THEN c + 1 ELSE c
      /\ (more => faults'[i][c + 1] = {}) /\ \A k \in 1 .. c : faults'[i][k] = faults[i][k]
      /\ \A j \in Tests \ {i} : faults'[j] = faults[j]
  <2>1. faults \in [Tests -> Seq(SUBSET Faults)]
    BY <1>1 DEF TypeOK
  <2>2. faults[i] \in Seq(SUBSET Faults)
    BY <1>1, <2>1
  <2>3. CASE more
    <3> DEFINE q == Append(faults[i], {})
    <3>1. faults' = [faults EXCEPT ![i] = q]
      BY <2>3 DEF Report
    <3>2. q \in Seq(SUBSET Faults) /\ Len(q) = c + 1 /\ q[c + 1] = {} /\ \A k \in 1 .. c : q[k] = faults[i][k]
      <4> HIDE DEF c
      <4>1. ASSUME NEW b \in SUBSET Faults
            PROVE  /\ Append(faults[i], b) \in Seq(SUBSET Faults) /\ Len(Append(faults[i], b)) = c + 1
                   /\ Append(faults[i], b)[c + 1] = b
                   /\ \A k \in 1 .. c : Append(faults[i], b)[k] = faults[i][k]
        BY <1>lens, <2>2, AppendProperties
      <4>2. QED
        BY <4>1
    <3> HIDE DEF q
    <3>3. QED
      BY <1>1, <2>1, <2>3, <3>1, <3>2
  <2>4. CASE ~more
    <3>1. faults' = faults
      BY <2>4 DEF Report
    <3>2. QED
      BY <1>2, <2>1, <2>4, <3>1
  <2>5. QED
    BY <2>3, <2>4
<1>8. /\ futures' \in [Tests -> {"pending", "raised", "done"}]
      /\ futures'[i] = IF more THEN "pending" ELSE "done"
      /\ \A j \in Tests \ {i} : futures'[j] = futures[j]
  BY <1>1, <1>2 DEF Report, TypeOK
<1>9. /\ names' \in [Names -> 0 .. Len(text)] /\ \A n \in Names \ {Name(w)} : names'[n] = names[n]
      /\ names'[Name(w)] = IF passed THEN 0 ELSE names[Name(w)]
  <2>1. names \in [Names -> 0 .. Len(text)] /\ Len(text) \in Nat
    BY <1>1 DEF TypeOK
  <2>2. QED
    BY <1>1, <2>1
<1>10. TypeOK'
  <2>1. /\ suite \in Suites /\ suite' = suite /\ next' \in Nat \ {0} /\ text' \in Seq(Seq(Words)) /\ text' = text
        /\ built' \in [Files -> Nat \X Nat]
    BY <1>1 DEF TypeOK
  <2>2. QED
    BY <1>5, <1>6, <1>7, <1>8, <1>9, <2>1, TypesKeep
<1>11. /\ suite' = suite /\ next' = next /\ exit' = exit /\ strays' = strays
       /\ Tests' = Tests /\ \A j : Configs(j)' = Configs(j) /\ Clashes(j)' = Clashes(j)
  BY SuiteKeeps
<1>12. Placed(w)' /\ Held(w)' /\ Told(w)'
  <2>1. CASE r.at = "idle"
    BY <1>5, <2>1 DEF Placed, Held, Told
  <2>2. CASE r.at # "idle"
    <3>1. more /\ r.at = "exists" /\ worker'[w].test = i /\ worker'[w].config = c + 1
      BY <1>4, <1>5, <2>2
    <3>2. c + 1 \in Configs(i) /\ c + 1 - 1 = c
      <4> HIDE DEF c
      <4>1. QED
        BY <1>lens, <1>2, <3>1 DEF Configs
    <3>3. Configs(worker[w].test)' = Configs(i)
      BY <1>11, <3>1 DEF Configs
    <3>4. Placed(w)'
      BY <1>1, <1>2, <1>5, <1>6, <1>7, <1>8, <1>11, <3>1, <3>2, <3>3 DEF Placed, Holding
    <3>5. Held(w)'
      BY <1>5, <3>1 DEF Held, Holding
    <3>6. Told(w)'
      <4>1. worker'[w].at = "exists" /\ faults[worker[w].test][worker[w].config]' = {}
        BY <1>5, <1>7, <3>1
      <4>2. QED
        BY <4>1 DEF Told
    <3>7. QED
      BY <3>4, <3>5, <3>6
  <2>3. QED
    BY <2>1, <2>2
<1>13. Owned'
  <2>1. worker'[w].at \notin Holding
    BY <1>4, <1>5 DEF Holding
  <2>2. QED
    BY <1>1, <1>5, <1>11, <2>1, OwnedLeft
<1>14. \A n \in Names : Kept(n)'
  <2> SUFFICES ASSUME NEW n \in Names, names'[n] # 0
               PROVE  \/ \E v \in Workers : worker'[v].at \in Holding /\ Name(v)' = n
                      \/ \E j \in Tests : \E d \in 1 .. Len(results'[j]) : OutName(j, d) = n /\ ~results'[j][d]
                      \/ \E j \in Tests : futures'[j] = "raised"
    BY <1>11, SuiteKeeps DEF Kept
  <2>1. CASE n = Name(w)
    <3>1. c \in 1 .. Len(results'[i]) /\ OutName(i, c) = n /\ ~results'[i][c]
      BY <1>1, <1>6, <1>9, <2>1
    <3>2. QED
      BY <1>1, <3>1
  <2>2. CASE n # Name(w)
    <3>1. Kept(n) /\ names[n] # 0
      BY <1>9, <2>2 DEF IInv
    <3>raised. CASE \E j \in Tests : futures[j] = "raised"
      BY <1>2, <1>8, <3>raised
    <3>2. CASE \E v \in Workers : worker[v].at \in Holding /\ Name(v) = n
      <4>1. PICK v \in Workers : worker[v].at \in Holding /\ Name(v) = n
        BY <3>2
      <4>2. worker'[v] = worker[v]
        BY <1>5, <2>2, <4>1
      <4>3. Name(v)' = n
        BY <1>11, <4>1, <4>2 DEF Name, OutName
      <4>4. QED
        BY <4>1, <4>2, <4>3
    <3>3. CASE \E j \in Tests : \E d \in 1 .. Len(results[j]) : OutName(j, d) = n /\ ~results[j][d]
      <4>1. PICK j \in Tests : \E d \in 1 .. Len(results[j]) : OutName(j, d) = n /\ ~results[j][d]
        BY <3>3
      <4>2. \A d \in 1 .. Len(results[j]) : d \in 1 .. Len(results'[j]) /\ results'[j][d] = results[j][d]
        <5> HIDE DEF c
        <5>1. CASE j = i
          BY <1>lens, <1>6, <5>1
        <5>2. CASE j # i
          BY <1>6, <5>2
        <5>3. QED
          BY <5>1, <5>2
      <4>3. QED
        BY <4>1, <4>2
    <3>4. QED
      BY <3>1, <3>2, <3>3, <3>raised DEF Kept
  <2>3. QED
    BY <2>1, <2>2
<1>15. \A v \in Workers \ {w} : WorkerRight(v)'
  <2>1. next' \in Nat /\ next' >= next /\ Len(text') \in Nat /\ Len(text') >= Len(text)
    BY <1>1 DEF TypeOK
  <2>2. \A n \in Names : n[1] # suite[i].base => names'[n] = names[n]
    BY <1>1, <1>9
  <2>3. /\ \A k \in 1 .. Len(text) : text'[k] = text[k]
        /\ \A f \in Files : f # suite[i].file => built'[f] = built[f]
        /\ \A j \in Tests \ {i} : futures'[j] = futures[j] /\ results'[j] = results[j] /\ faults'[j] = faults[j]
    BY <1>6, <1>7, <1>8
  <2>4. QED
    BY <1>1, <1>5, <1>11, <2>1, <2>2, <2>3, OthersKeep
<1>16. \A j \in Tests : Counted(j)'
  <2> SUFFICES ASSUME NEW j \in Tests
               PROVE  Counted(j)'
    OBVIOUS
  <2>1. CASE j = i
    <3>1. ~(i >= next)
      BY <1>1, <1>2
    <3>2. futures'[i] = "done" => c = Len(suite[i].configs)
      BY <1>1, <1>2, <1>8, SMTT(60)
    <3>3. Len(results'[i]) <= Len(faults'[i])
      BY <1>1, <1>6, <1>7
    <3>4. futures'[i] # "raised"
      BY <1>8
    <3>5. QED
      BY <1>6, <1>11, <2>1, <3>1, <3>2, <3>3, <3>4 DEF Counted
  <2>2. CASE j # i
    <3>1. Counted(j) /\ futures'[j] = futures[j] /\ results'[j] = results[j] /\ faults'[j] = faults[j]
      BY <1>6, <1>7, <1>8, <2>2 DEF IInv
    <3>2. QED
      BY <1>11, <3>1 DEF Counted, Garbled
  <2>3. QED
    BY <2>1, <2>2
<1>17. \A s \in strays' : StrayOf(s)'
  <2> SUFFICES ASSUME NEW s \in strays
               PROVE  StrayOf(s)'
    BY <1>11
  <2>1. StrayOf(s)
    BY DEF IInv
  <2>2. \A j \in Tests : \A k \in 1 .. Len(faults[j]) : k \in 1 .. Len(faults'[j]) /\ faults'[j][k] = faults[j][k]
    <3> HIDE DEF c
    <3>1. SUFFICES ASSUME NEW j \in Tests, NEW k \in 1 .. Len(faults[j])
                   PROVE  k \in 1 .. Len(faults'[j]) /\ faults'[j][k] = faults[j][k]
      OBVIOUS
    <3>2. CASE j = i
      BY <1>lens, <1>7, <3>2
    <3>3. CASE j # i
      BY <1>7, <3>3
    <3>4. QED
      BY <3>2, <3>3
  <2>3. QED
    BY <1>11, <2>1, <2>2 DEF StrayOf
<1>18. Passed'
  BY <1>1, <1>2, <1>11 DEF Passed
<1>19. PassedIsRight'
  <2> SUFFICES ASSUME NEW j \in Tests, NEW d \in 1 .. Len(results'[j]), results'[j][d]
               PROVE  Sound(j, d)'
    BY <1>11 DEF PassedIsRight, Sound
  <2>1. j \in Nat /\ (j # i => d \in 1 .. Len(results[j]) /\ results[j][d] /\ faults'[j] = faults[j])
    BY <1>1, <1>6, <1>7, SuiteIs
  <2>2. d \in Nat \ {0} /\ (j = i => d \in 1 .. c)
    <3>1. CASE j = i
      BY <1>6, <1>lens, <3>1
    <3>2. CASE j # i
      <4>1. Len(results[j]) \in Nat
        BY <1>1 DEF TypeOK
      <4>2. QED
        BY <2>1, <3>2, <4>1
    <3>3. QED
      BY <3>1, <3>2
  <2>3. Sound(j, d)
    <3>1. CASE j # i
      BY <1>1, <2>1, <3>1 DEF PassedIsRight, Sound
    <3>2. CASE j = i /\ d # c
      <4>1. d \in 1 .. c - 1 /\ d \in 1 .. Len(results[i]) /\ results[i][d]
        <5> HIDE DEF c
        <5>1. QED
          BY <1>lens, <1>6, <2>2, <3>2
      <4>2. QED
        BY <1>1, <3>2, <4>1 DEF PassedIsRight, Sound
    <3>3. CASE j = i /\ d = c
      BY <1>6, <3>3
    <3>4. QED
      BY <3>1, <3>2, <3>3
  <2>4. \A k \in 1 .. d : faults'[j][k] = faults[j][k]
    <3>1. CASE j # i
      BY <2>1, <3>1
    <3>2. CASE j = i
      <4>1. \A k \in 1 .. d : k \in 1 .. c
        <5> HIDE DEF c
        <5>1. QED
          BY <1>lens, <2>2, <3>2
      <4>2. QED
        BY <1>7, <3>2, <4>1
    <3>3. QED
      BY <3>1, <3>2
  <2>5. QED
    BY <1>11, <2>1, <2>2, <2>3, <2>4, SoundKeeps
<1>20. QED
  BY <1>5, <1>10, <1>11, <1>12, <1>13, <1>14, <1>15, <1>16, <1>17, <1>18, <1>19, SuiteKeeps DEF IInv, WorkerRight

LEMMA NothingToDoStep == ASSUME IInv, NEW w \in Workers, NothingToDo(w) PROVE IInv'
BY ReportStep DEF NothingToDo

\* A worker stops at a test only where its output was taken away under another test's name, or
\* does not decode.
LEMMA RaiseStep ==
  ASSUME IInv, NEW w \in Workers, worker[w].at # "idle", Raise(w),
         Clashes(worker[w].test) \/ "undecodable" \in faults[worker[w].test][worker[w].config],
         UNCHANGED <<suite, next, names, text, built, strays, results, faults, exit>>
  PROVE  IInv'
<1> DEFINE i == worker[w].test
           c == worker[w].config
<1>1. /\ TypeOK /\ Placed(w) /\ i \in Tests /\ c \in Configs(i) /\ i \in Nat \ {0} /\ Name(w) \in Names
  BY AtTest DEF IInv
<1>2. i < next /\ futures[i] = "pending" /\ Len(results[i]) = c - 1 /\ next \in Nat
  BY <1>1 DEF Placed, TypeOK
<1>3. /\ worker' = [worker EXCEPT ![w] = Idle] /\ Idle \in WorkerRecords /\ Idle.at = "idle"
  BY DEF Raise, Idle, WorkerRecords, Stages
<1>4. /\ worker'[w] = Idle /\ worker' \in [Workers -> WorkerRecords]
      /\ \A v \in Workers \ {w} : /\ worker'[v] = worker[v]
                                  /\ worker[v].at # "idle" => worker[v].test # worker[w].test
      /\ Apart'
  BY <1>3, Leaves
<1>5. /\ futures' \in [Tests -> {"pending", "raised", "done"}] /\ futures'[i] = "raised"
      /\ \A j \in Tests \ {i} : futures'[j] = futures[j]
  BY <1>1 DEF Raise, TypeOK
<1>6. /\ suite' = suite /\ next' = next /\ exit' = exit /\ strays' = strays /\ names' = names /\ text' = text
      /\ built' = built /\ results' = results /\ faults' = faults
      /\ Tests' = Tests /\ \A j : Configs(j)' = Configs(j) /\ Clashes(j)' = Clashes(j)
  BY SuiteKeeps
<1>7. TypeOK'
  <2>1. /\ suite \in Suites /\ next' \in Nat \ {0} /\ text' \in Seq(Seq(Words))
        /\ names' \in [Names -> 0 .. Len(text')] /\ built' \in [Files -> Nat \X Nat]
        /\ results' \in [Tests -> Seq(BOOLEAN)] /\ faults' \in [Tests -> Seq(SUBSET Faults)]
    BY <1>1, <1>6 DEF TypeOK
  <2>2. QED
    BY <1>4, <1>5, <1>6, <2>1, TypesKeep
<1>8. Placed(w)' /\ Held(w)' /\ Told(w)'
  BY <1>3, <1>4 DEF Placed, Held, Told
<1>9. Owned'
  <2>1. worker'[w].at \notin Holding
    BY <1>3, <1>4 DEF Holding
  <2>2. QED
    BY <1>4, <1>6, <2>1, OwnedLeft
<1>10. \A n \in Names : Kept(n)'
  BY <1>1, <1>5, <1>6 DEF Kept
<1>11. \A v \in Workers \ {w} : WorkerRight(v)'
  <2>1. next' \in Nat /\ next' >= next /\ Len(text') \in Nat /\ Len(text') >= Len(text)
    BY <1>1, <1>6 DEF TypeOK
  <2>2. \A n \in Names : n[1] # suite[i].base => names'[n] = names[n]
    BY <1>6
  <2>3. /\ \A k \in 1 .. Len(text) : text'[k] = text[k]
        /\ \A f \in Files : f # suite[i].file => built'[f] = built[f]
        /\ \A j \in Tests \ {i} : futures'[j] = futures[j] /\ results'[j] = results[j] /\ faults'[j] = faults[j]
    BY <1>5, <1>6
  <2>4. QED
    BY <1>1, <1>4, <1>6, <2>1, <2>2, <2>3, OthersKeep
<1>12. \A j \in Tests : Counted(j)'
  <2> SUFFICES ASSUME NEW j \in Tests
               PROVE  Counted(j)'
    OBVIOUS
  <2>1. Counted(j) /\ (Clashes(i) \/ Garbled(i))
    <3>1. c \in 1 .. Len(faults[i])
      <4>1. Len(faults[i]) = c
        BY <1>1 DEF Placed
      <4>2. QED
        BY <1>1, <4>1 DEF Configs
    <3>2. QED
      BY <3>1 DEF IInv, Garbled
  <2>2. CASE j = i
    <3>1. ~(i >= next)
      BY <1>1, <1>2
    <3>2. QED
      BY <1>5, <1>6, <2>1, <2>2, <3>1 DEF Counted, Garbled
  <2>3. CASE j # i
    BY <1>5, <1>6, <2>1, <2>3 DEF Counted, Garbled
  <2>4. QED
    BY <2>2, <2>3
<1>13. \A s \in strays' : StrayOf(s)'
  BY <1>6 DEF IInv, StrayOf
<1>14. Passed'
  BY <1>1, <1>2, <1>6 DEF IInv, Passed
<1>15. PassedIsRight'
  BY <1>6 DEF IInv, PassedIsRight, Unsure, Visible
<1>16. QED
  BY <1>4, <1>6, <1>7, <1>8, <1>9, <1>10, <1>11, <1>12, <1>13, <1>14, <1>15, SuiteKeeps DEF IInv, WorkerRight

LEMMA JudgeStep == ASSUME IInv, NEW w \in Workers, Judge(w) PROVE IInv'
<1> DEFINE i == worker[w].test
           c == worker[w].config
           lines == IF names[Name(w)] = 0 THEN << >> ELSE text[names[Name(w)]]
<1>1. /\ worker[w].at = "judge" /\ UNCHANGED <<suite, next, names, text, built, strays, exit>>
      /\ \/ ~Decodes(lines) /\ Raise(w) /\ UNCHANGED <<results, faults>>
         \/ Report(w, FALSE)
         \/ lines = Good(i, c) /\ Goes(w, "discard") /\ UNCHANGED <<results, futures, faults>>
  BY DEF Judge
<1>2. CASE lines = Good(i, c) /\ Goes(w, "discard") /\ UNCHANGED <<results, futures, faults>>
  BY <1>2, FoundGoodStep
<1>3. CASE Report(w, FALSE)
  BY <1>1, <1>3, ReportStep
<1>4. CASE ~Decodes(lines) /\ Raise(w) /\ UNCHANGED <<results, faults>>
  <2>1. Clashes(i) \/ "undecodable" \in faults[i][c]
    <3> SUFFICES ASSUME ~Clashes(i)
                 PROVE  "undecodable" \in faults[i][c]
      OBVIOUS
    <3>1. TypeOK /\ Placed(w) /\ Held(w) /\ Told(w)
      BY DEF IInv
    <3>2. names[Name(w)] = worker[w].fd /\ worker[w].fd \in 1 .. Len(text)
      BY <1>1, <3>1 DEF Placed, Held, Holding
    <3>3. lines = text[worker[w].fd] /\ text[worker[w].fd] \in Seq(Words)
      BY <3>1, <3>2 DEF TypeOK
    <3>4. HasBytes(text[worker[w].fd])
      BY <1>4, <3>3 DEF Decodes, HasBytes
    <3>5. QED
      BY <1>1, <3>1, <3>4 DEF Told, Tells
  <2>2. QED
    BY <1>1, <1>4, <2>1, RaiseStep
<1>5. QED
  BY <1>1, <1>2, <1>3, <1>4

LEMMA RemoveRaises == ASSUME IInv, NEW w \in Workers, Remove(w), names[Name(w)] = 0 PROVE IInv'
<1>1. worker[w].at = "remove" /\ Raise(w)
      /\ UNCHANGED <<suite, next, names, text, built, strays, results, faults, exit>>
  BY DEF Remove
<1>2. Clashes(worker[w].test)
  BY <1>1 DEF IInv, Held
<1>3. QED
  BY <1>1, <1>2, RaiseStep

LEMMA DiscardStep == ASSUME IInv, NEW w \in Workers, Discard(w) PROVE IInv'
<1>1. /\ worker[w].at = "discard" /\ UNCHANGED <<suite, next, text, built, strays, exit>>
      /\ Placed(w) /\ Held(w) /\ Told(w)
  BY DEF Discard, IInv
<1>2. CASE names[Name(w)] = 0
  <2>1. Raise(w) /\ UNCHANGED <<results, faults, names>>
    BY <1>2 DEF Discard
  <2>2. Clashes(worker[w].test)
    BY <1>1, <1>2 DEF Held, Placed, Holding
  <2>3. QED
    BY <1>1, <1>2, <2>1, <2>2, RaiseStep
<1>3. CASE names[Name(w)] # 0
  <2>1. Report(w, TRUE) /\ names' = [names EXCEPT ![Name(w)] = 0]
    BY <1>3 DEF Discard
  <2>2. Sound(worker[w].test, worker[w].config)
    BY <1>1 DEF Told, Sound
  <2>3. QED
    BY <1>1, <2>1, <2>2, ReportStep
<1>4. QED
  BY <1>2, <1>3

-----------------------------------------------------------------------------
(* The pool, a compiler that outlived its parent, and the end.             *)

LEMMA TakeStep == ASSUME IInv, NEW w \in Workers, Take(w) PROVE IInv'
<1> DEFINE empty == Configs(next) = {}
           r == [Idle EXCEPT !.at = "exists", !.test = next, !.config = 1]
<1>1. /\ worker[w].at = "idle" /\ next \in Tests /\ next' = next + 1
      /\ UNCHANGED <<suite, names, text, built, strays, results, exit>>
  BY DEF Take
<1>2. /\ TypeOK /\ Apart /\ PassedIsRight /\ Passed /\ next \in Nat \ {0}
      /\ Len(suite[next].configs) \in Nat
  BY <1>1, SuiteIs DEF IInv, TypeOK
<1>3. futures[next] = "pending" /\ results[next] = << >> /\ faults[next] = << >>
  BY <1>1, <1>2 DEF IInv, Counted
<1>4. \A v \in Workers : worker[v].at # "idle" => worker[v].test # next
  BY <1>2 DEF IInv, Placed, TypeOK
<1>5. r \in WorkerRecords /\ r.at = "exists" /\ r.test = next /\ r.config = 1
  <2>1. Idle \in WorkerRecords
    BY DEF Idle, WorkerRecords, Stages
  <2>2. next \in Nat /\ "exists" \in Stages
    BY <1>2 DEF Stages
  <2>3. QED
    BY <2>1, <2>2 DEF WorkerRecords
<1> HIDE DEF r
<1>6. /\ worker' \in [Workers -> WorkerRecords]
      /\ \A v \in Workers \ {w} : worker'[v] = worker[v]
      /\ IF empty THEN worker'[w].at = "idle" ELSE worker'[w] = r
  <2>1. worker \in [Workers -> WorkerRecords]
    BY <1>2 DEF TypeOK
  <2>2. CASE empty
    BY <1>1, <2>1, <2>2 DEF Take
  <2>3. CASE ~empty
    <3>1. worker' = [worker EXCEPT ![w] = r]
      BY <2>3 DEF Take, r
    <3>2. QED
      BY <1>5, <2>1, <2>3, <3>1
  <2>4. QED
    BY <2>2, <2>3
<1>7. /\ faults' \in [Tests -> Seq(SUBSET Faults)]
      /\ \A j \in Tests \ {next} : faults'[j] = faults[j]
      /\ ~empty => Len(faults'[next]) = 1 /\ faults'[next][1] = {}
      /\ empty => faults' = faults
  <2>1. faults \in [Tests -> Seq(SUBSET Faults)]
    BY <1>2 DEF TypeOK
  <2>2. CASE empty
    BY <2>1, <2>2 DEF Take
  <2>3. CASE ~empty
    <3>1. faults' = [faults EXCEPT ![next] = <<{}>>]
      <4>1. faults' = [faults EXCEPT ![next] = Append(faults[next], {})]
        BY <2>3 DEF Take
      <4>2. Append(<< >>, {}) = <<{}>>
        OBVIOUS
      <4>3. QED
        BY <1>3, <4>1, <4>2
    <3>2. <<{}>> \in Seq(SUBSET Faults) /\ Len(<<{}>>) = 1 /\ <<{}>>[1] = {}
      OBVIOUS
    <3>3. QED
      BY <1>1, <2>1, <2>3, <3>1, <3>2
  <2>4. QED
    BY <2>2, <2>3
<1>8. /\ futures' \in [Tests -> {"pending", "raised", "done"}]
      /\ \A j \in Tests \ {next} : futures'[j] = futures[j]
      /\ futures'[next] = IF empty THEN "done" ELSE "pending"
  <2>1. futures \in [Tests -> {"pending", "raised", "done"}]
    BY <1>2 DEF TypeOK
  <2>2. CASE empty
    <3>1. futures' = [futures EXCEPT ![next] = "done"]
      BY <2>2 DEF Take
    <3>2. QED
      BY <1>1, <2>1, <2>2, <3>1
  <2>3. CASE ~empty
    <3>1. futures' = futures
      BY <2>3 DEF Take
    <3>2. QED
      BY <1>3, <2>1, <2>3, <3>1
  <2>4. QED
    BY <2>2, <2>3
<1>9. /\ suite' = suite /\ names' = names /\ text' = text /\ built' = built /\ strays' = strays
      /\ results' = results /\ exit' = exit
      /\ Tests' = Tests /\ \A j : Configs(j)' = Configs(j) /\ Clashes(j)' = Clashes(j)
  BY <1>1, SuiteKeeps
<1>10. TypeOK'
  <2>1. /\ suite \in Suites /\ text' \in Seq(Seq(Words))
        /\ names' \in [Names -> 0 .. Len(text')] /\ built' \in [Files -> Nat \X Nat]
        /\ results' \in [Tests -> Seq(BOOLEAN)]
    BY <1>2, <1>9 DEF TypeOK
  <2>2. next' \in Nat \ {0}
    BY <1>1, <1>2
  <2>3. QED
    BY <1>6, <1>7, <1>8, <1>9, <2>1, <2>2, TypesKeep
<1>11. Apart'
  <2> SUFFICES ASSUME NEW u \in Workers, NEW v \in Workers, u # v,
                      worker'[u].at # "idle", worker'[v].at # "idle"
               PROVE  worker'[u].test # worker'[v].test
    BY DEF Apart
  <2>1. \A x \in Workers : worker'[x].at # "idle" =>
          \/ x # w /\ worker'[x] = worker[x] /\ worker[x].test # next
          \/ x = w /\ worker'[x].test = next
    BY <1>4, <1>5, <1>6
  <2>2. QED
    BY <1>2, <2>1 DEF Apart
<1>12. Placed(w)' /\ Held(w)' /\ Told(w)'
  <2>1. CASE empty
    BY <1>6, <2>1 DEF Placed, Held, Told
  <2>2. CASE ~empty
    <3>1. worker'[w].at = "exists" /\ worker'[w].test = next /\ worker'[w].config = 1
      BY <1>5, <1>6, <2>2
    <3>2. 1 \in Configs(next)
      BY <1>2, <2>2 DEF Configs
    <3>3. Configs(worker[w].test)' = Configs(next)
      BY <1>9, <3>1 DEF Configs
    <3>4. Len(results'[next]) = 1 - 1 /\ next < next'
      BY <1>1, <1>2, <1>3, <1>9
    <3>5. Placed(w)'
      BY <1>1, <1>7, <1>8, <1>9, <2>2, <3>1, <3>2, <3>3, <3>4 DEF Placed, Holding
    <3>6. Held(w)'
      BY <3>1 DEF Held, Holding
    <3>7. Told(w)'
      <4>1. faults[worker[w].test][worker[w].config]' = {}
        BY <1>7, <2>2, <3>1
      <4>2. QED
        BY <3>1, <4>1 DEF Told
    <3>8. QED
      BY <3>5, <3>6, <3>7
  <2>3. QED
    BY <2>1, <2>2
<1>13. worker'[w].at \notin Holding
  BY <1>5, <1>6 DEF Holding
<1>14. Owned'
  BY <1>6, <1>9, <1>13, OwnedLeft
<1>15. \A n \in Names : Kept(n)'
  <2> SUFFICES ASSUME NEW n \in Names, names[n] # 0
               PROVE  \/ \E v \in Workers : worker'[v].at \in Holding /\ Name(v)' = n
                      \/ \E j \in Tests : \E d \in 1 .. Len(results[j]) : OutName(j, d) = n /\ ~results[j][d]
                      \/ \E j \in Tests : futures'[j] = "raised"
    BY <1>9, SuiteKeeps DEF Kept
  <2>1. Kept(n) /\ \A j \in Tests : futures[j] = "raised" => futures'[j] = "raised"
    BY <1>3, <1>8 DEF IInv
  <2>2. CASE \E v \in Workers : worker[v].at \in Holding /\ Name(v) = n
    <3>1. PICK v \in Workers : worker[v].at \in Holding /\ Name(v) = n
      BY <2>2
    <3>2. worker'[v] = worker[v]
      BY <1>1, <1>6, <3>1 DEF Holding
    <3>3. Name(v)' = n
      BY <1>9, <3>1, <3>2 DEF Name, OutName
    <3>4. QED
      BY <3>1, <3>2, <3>3
  <2>3. QED
    BY <2>1, <2>2 DEF Kept
<1>16. \A v \in Workers \ {w} : WorkerRight(v)'
  <2>1. next' \in Nat /\ next' >= next /\ Len(text') \in Nat /\ Len(text') >= Len(text)
    BY <1>1, <1>2, <1>9 DEF TypeOK
  <2>2. /\ \A n \in Names : n[1] # suite[next].base => names'[n] = names[n]
        /\ \A k \in 1 .. Len(text) : text'[k] = text[k]
        /\ \A f \in Files : f # suite[next].file => built'[f] = built[f]
        /\ \A j \in Tests \ {next} : futures'[j] = futures[j] /\ results'[j] = results[j] /\ faults'[j] = faults[j]
    BY <1>7, <1>8, <1>9
  <2>3. \A v \in Workers \ {w} : worker'[v] = worker[v] /\ (worker[v].at # "idle" => worker[v].test # next)
    BY <1>4, <1>6
  <2>4. QED
    BY <1>1, <1>9, <2>1, <2>2, <2>3, OthersKeep
<1>17. \A j \in Tests : Counted(j)'
  <2> SUFFICES ASSUME NEW j \in Tests
               PROVE  Counted(j)'
    OBVIOUS
  <2>1. Counted(j) /\ j \in Nat
    BY <1>2, SuiteIs DEF IInv
  <2>2. CASE j = next
    <3>1. ~(j >= next')
      BY <1>1, <1>2, <2>2
    <3>2. empty => Len(suite[next].configs) = 0
      <4>1. Len(suite[next].configs) # 0 => 1 \in Configs(next)
        BY <1>2 DEF Configs
      <4>2. QED
        BY <4>1
    <3>3. Len(results'[next]) = 0 /\ Len(faults'[next]) >= 0
      BY <1>3, <1>7, <1>9
    <3>4. QED
      BY <1>8, <1>9, <2>2, <3>1, <3>2, <3>3 DEF Counted
  <2>3. CASE j # next
    <3>1. futures'[j] = futures[j] /\ results'[j] = results[j] /\ faults'[j] = faults[j]
      BY <1>7, <1>8, <1>9, <2>3
    <3>2. j >= next' => j >= next
      BY <1>1, <1>2, <2>1
    <3>3. QED
      BY <1>9, <2>1, <3>1, <3>2 DEF Counted, Garbled
  <2>4. QED
    BY <2>2, <2>3
<1>18. \A s \in strays' : StrayOf(s)'
  <2> SUFFICES ASSUME NEW s \in strays
               PROVE  StrayOf(s)'
    BY <1>9
  <2>1. StrayOf(s)
    BY DEF IInv
  <2>2. s.by[1] # next
    <3>1. Len(faults[next]) = 0 /\ s.by[2] \in 1 .. Len(faults[s.by[1]])
      BY <1>3, <2>1 DEF StrayOf
    <3>2. QED
      BY <3>1
  <2>3. QED
    BY <1>7, <1>9, <2>1, <2>2 DEF StrayOf
<1>19. Passed'
  BY <1>1, <1>2, <1>3, <1>9 DEF Passed
<1>20. PassedIsRight'
  <2> SUFFICES ASSUME NEW j \in Tests, NEW d \in 1 .. Len(results[j]), results[j][d]
               PROVE  Sound(j, d)'
    BY <1>9 DEF PassedIsRight, Sound
  <2>1. j # next /\ faults'[j] = faults[j]
    BY <1>3, <1>7
  <2>2. j \in Nat /\ d \in Nat \ {0} /\ Sound(j, d)
    BY <1>2, SuiteIs DEF PassedIsRight, Sound, TypeOK
  <2>3. QED
    BY <1>9, <2>1, <2>2, SoundKeeps
<1>21. QED
  BY <1>6, <1>9, <1>10, <1>11, <1>12, <1>14, <1>15, <1>16, <1>17, <1>18, <1>19, <1>20, SuiteKeeps
  DEF IInv, WorkerRight

\* What a compiler that outlived its parent builds is seen by its own test only, and there
\* only by later configurations; a configuration it was killed in has already gone wrong.
LEMMA StrayStep == ASSUME IInv, NEW s \in strays, Stray(s) PROVE IInv'
<1> DEFINE i == s.by[1]
           d == s.by[2]
<1>1. UNCHANGED <<suite, next, worker, names, text, futures, results, faults, exit>> /\ strays' = strays \ {s}
  BY DEF Stray
<1>2. /\ TypeOK /\ s.by = <<i, d>> /\ i \in Tests /\ s.file = suite[i].file
      /\ d \in 1 .. Len(faults[i]) /\ "killed" \in faults[i][d]
  BY DEF IInv, StrayOf
<1>3. /\ s.by \in Nat \X Nat /\ s.file \in Files /\ built \in [Files -> Nat \X Nat] /\ d \in Nat \ {0}
      /\ faults[i] \in Seq(SUBSET Faults)
  <2>1. i \in Nat /\ suite[i].file \in Files
    BY <1>2, SuiteIs
  <2>2. faults[i] \in Seq(SUBSET Faults) /\ built \in [Files -> Nat \X Nat]
    BY <1>2 DEF TypeOK
  <2>3. d \in Nat \ {0}
    BY <1>2, <2>2
  <2>4. <<i, d>> \in Nat \X Nat
    BY <2>1, <2>3
  <2>5. QED
    BY <1>2, <2>1, <2>2, <2>3, <2>4
<1>4. built' = [built EXCEPT ![s.file] = s.by]
  BY DEF Stray
<1>5. built' \in [Files -> Nat \X Nat] /\ \A f \in Files \ {s.file} : built'[f] = built[f]
      /\ built'[s.file] = <<i, d>>
  BY <1>2, <1>3, <1>4
<1>6. TypeOK'
  <2>1. /\ suite \in Suites /\ next' \in Nat \ {0} /\ text' \in Seq(Seq(Words)) /\ worker' \in [Workers -> WorkerRecords]
        /\ names' \in [Names -> 0 .. Len(text')]
        /\ futures' \in [Tests -> {"pending", "raised", "done"}]
        /\ results' \in [Tests -> Seq(BOOLEAN)] /\ faults' \in [Tests -> Seq(SUBSET Faults)]
    BY <1>1, <1>2 DEF TypeOK
  <2>2. QED
    BY <1>1, <1>5, <2>1, TypesKeep
<1>7. ASSUME NEW w \in Workers
      PROVE  Placed(w)' /\ Held(w)' /\ Told(w)'
  <2>1. Placed(w) /\ Held(w) /\ Told(w)
    BY DEF IInv
  <2>2. Name(w)' = Name(w) /\ File(w)' = File(w) /\ Cmds(w)' = Cmds(w)
    BY <1>1 DEF Name, OutName, File, Cmds
  <2>3. Placed(w)'
    BY <1>1, <2>1, <2>2, SuiteKeeps DEF Placed
  <2>4. Held(w)'
    BY <1>1, <2>1, <2>2, SuiteKeeps DEF Held
  <2>5. Told(w)'
    <3> DEFINE j == worker[w].test
               c == worker[w].config
    <3>1. /\ j' = j /\ c' = c /\ worker' = worker /\ text' = text /\ faults' = faults
          /\ Clashes(j)' = Clashes(j) /\ Unsure(j, c)' = Unsure(j, c)
          /\ Due(j, c, worker[w].cmd - 1)' = Due(j, c, worker[w].cmd - 1)
      BY <1>1 DEF Clashes, Tests, Unsure, Due
    <3>2. Tells(text[worker[w].fd], Due(j, c, worker[w].cmd - 1), faults[j][c])' <=>
            Tells(text[worker[w].fd], Due(j, c, worker[w].cmd - 1), faults[j][c])
      BY <3>1 DEF Tells, HasError, HasBytes, Undecodable, Visible
    <3>3. SUFFICES ASSUME worker[w].at = "run", ~Clashes(j), ~Unsure(j, c),
                          built[File(w)] \in {NotBuilt, <<j, c>>}
                   PROVE  built'[File(w)] \in {NotBuilt, <<j, c>>}
      BY <2>1, <2>2, <3>1, <3>2 DEF Told, NotBuilt, Visible
    <3>4. j \in Tests /\ File(w) = suite[j].file /\ File(w) \in Files /\ Len(faults[j]) = c /\ c \in Nat
      BY <2>1, <3>3, AtTest DEF Placed
    <3>5. CASE j = i
      <4>1. d \in 1 .. c /\ "killed" \in faults[j][d]
        BY <1>2, <3>4, <3>5
      <4>3. FALSE
        BY <3>3, <4>1 DEF Unsure
      <4>4. QED
        BY <4>3
    <3>6. CASE j # i
      <4>1. suite[j].file # suite[i].file
        BY <1>2, <3>3, <3>4, <3>6, NamesApart
      <4>2. QED
        BY <1>2, <1>5, <3>3, <3>4, <4>1
    <3>7. QED
      BY <3>5, <3>6
  <2>6. QED
    BY <2>3, <2>4, <2>5
<1>8. Apart'
  BY <1>1 DEF IInv, Apart
<1>9. Owned'
  <2>1. \A w \in Workers : Name(w)' = Name(w)
    BY <1>1 DEF Name, OutName
  <2>2. QED
    BY <1>1, <2>1, SuiteKeeps DEF IInv, Owned
<1>10. \A n \in Names : Kept(n)'
  <2>1. \A w \in Workers : Name(w)' = Name(w)
    BY <1>1 DEF Name, OutName
  <2>2. QED
    BY <1>1, <2>1, SuiteKeeps DEF IInv, Kept
<1>11. \A j \in Tests : Counted(j)'
  BY <1>1, SuiteKeeps DEF IInv, Counted, Garbled
<1>12. \A t \in strays' : StrayOf(t)'
  BY <1>1, SuiteKeeps DEF IInv, StrayOf
<1>13. Passed' /\ PassedIsRight'
  BY <1>1, SuiteKeeps DEF IInv, Passed, PassedIsRight, Unsure, Visible
<1>14. QED
  BY <1>1, <1>6, <1>7, <1>8, <1>9, <1>10, <1>11, <1>12, <1>13, SuiteKeeps DEF IInv

LEMMA SameButExit ==
  ASSUME IInv, UNCHANGED <<suite, next, worker, names, text, built, strays, futures, results, faults>>, Passed'
  PROVE  IInv'
<1>1. TypeOK'
  BY SuiteKeeps DEF IInv, TypeOK
<1>2. \A w \in Workers : Name(w)' = Name(w) /\ File(w)' = File(w) /\ Cmds(w)' = Cmds(w)
  BY DEF Name, OutName, File, Cmds
<1>3. ASSUME NEW w \in Workers
      PROVE  Placed(w)' /\ Held(w)' /\ Told(w)'
  <2>1. Placed(w) /\ Held(w) /\ Told(w)
    BY DEF IInv
  <2>2. Placed(w)' /\ Held(w)'
    BY <1>2, <2>1, SuiteKeeps DEF Placed, Held
  <2>3. /\ Clashes(worker[w].test)' = Clashes(worker[w].test)
        /\ Unsure(worker[w].test, worker[w].config)' = Unsure(worker[w].test, worker[w].config)
        /\ Due(worker[w].test, worker[w].config, worker[w].cmd - 1)'
             = Due(worker[w].test, worker[w].config, worker[w].cmd - 1)
    BY DEF Clashes, Tests, Unsure, Due
  <2>4. Told(w)'
    <3>1. Tells(text[worker[w].fd], Due(worker[w].test, worker[w].config, worker[w].cmd - 1),
                faults[worker[w].test][worker[w].config])' <=>
          Tells(text[worker[w].fd], Due(worker[w].test, worker[w].config, worker[w].cmd - 1),
                faults[worker[w].test][worker[w].config])
      BY <2>3 DEF Tells, HasError, HasBytes, Undecodable, Visible
    <3>2. QED
      BY <1>2, <2>1, <2>3, <3>1 DEF Told, NotBuilt, Visible
  <2>5. QED
    BY <2>2, <2>4
<1>4. Apart' /\ Owned'
  BY <1>2, SuiteKeeps DEF IInv, Apart, Owned
<1>5. \A i \in Tests : Counted(i)'
  BY SuiteKeeps DEF IInv, Counted, Garbled
<1>6. \A s \in strays : StrayOf(s)'
  BY SuiteKeeps DEF IInv, StrayOf
<1>7. \A n \in Names : Kept(n)'
  BY <1>2, SuiteKeeps DEF IInv, Kept
<1>8. PassedIsRight'
  BY SuiteKeeps DEF IInv, PassedIsRight, Unsure, Visible
<1>9. QED
  BY <1>1, <1>3, <1>4, <1>5, <1>6, <1>7, <1>8, SuiteKeeps DEF IInv

LEMMA FinishStep == ASSUME IInv, Finish PROVE IInv'
<1>1. exit' = "passed" => \A i \in Tests : futures[i] = "done" /\ \A c \in Configs(i) : results[i][c]
  <2> DEFINE raised == \E i \in Tests : futures[i] = "raised"
             passed == \A i \in Tests : futures[i] = "done" /\ \A c \in Configs(i) : results[i][c]
  <2>1. exit' = CASE raised -> "raised" [] passed -> "passed" [] OTHER -> "failed"
    BY DEF Finish
  <2> HIDE DEF raised
  <2>2. passed => ~raised
    BY DEF raised
  <2> HIDE DEF passed
  <2>3. exit' = "passed" => passed
    BY <2>1, <2>2
  <2>4. QED
    BY <2>3 DEF passed
<1>2. UNCHANGED <<suite, next, worker, names, text, built, strays, futures, results, faults>>
  BY DEF Finish
<1>3. Passed'
  BY <1>1, <1>2, SuiteKeeps DEF Passed
<1>4. QED
  BY <1>2, <1>3, SameButExit

LEMMA InitIInv == Init => IInv
<1> SUFFICES ASSUME Init
             PROVE  IInv
  OBVIOUS
<1>1. /\ suite \in Suites /\ next = 1 /\ worker = [w \in Workers |-> Idle]
      /\ names = [n \in Names |-> 0] /\ text = << >> /\ strays = {} /\ exit = "running"
      /\ built = [f \in Files |-> NotBuilt] /\ futures = [i \in Tests |-> "pending"]
      /\ results = [i \in Tests |-> << >>] /\ faults = [i \in Tests |-> << >>]
  BY DEF Init, Names, Files
<1>2. TypeOK
  <2>1. Idle \in WorkerRecords
    BY DEF Idle, WorkerRecords, Stages
  <2>2. NotBuilt \in Nat \X Nat
    BY DEF NotBuilt
  <2>3. text \in Seq(Seq(Words)) /\ names \in [Names -> 0 .. Len(text)]
    BY <1>1
  <2>4. << >> \in Seq(BOOLEAN) /\ << >> \in Seq(SUBSET Faults)
    OBVIOUS
  <2>5. QED
    BY <1>1, <2>1, <2>2, <2>3, <2>4 DEF TypeOK
<1>3. \A w \in Workers : worker[w].at = "idle"
  BY <1>1 DEF Idle
<1>4. \A w \in Workers : Placed(w) /\ Held(w) /\ Told(w)
  BY <1>3 DEF Placed, Held, Told
<1>5. Apart /\ Owned
  BY <1>1, <1>3 DEF Apart, Owned, Holding
<1>6. \A i \in Tests : Counted(i)
  BY <1>1 DEF Counted
<1>7. /\ \A s \in strays : StrayOf(s)
      /\ \A n \in Names : Kept(n)
  BY <1>1 DEF Kept
<1>8. Passed /\ PassedIsRight
  BY <1>1 DEF Passed, PassedIsRight
<1>9. QED
  BY <1>2, <1>4, <1>5, <1>6, <1>7, <1>8 DEF IInv

LEMMA NextIInv == IInv /\ [Next]_vars => IInv'
<1> SUFFICES ASSUME IInv, [Next]_vars
             PROVE  IInv'
  OBVIOUS
<1>1. ASSUME NEW w \in Workers, Work(w)
      PROVE  IInv'
  <2>1. CASE Take(w)
    BY <2>1, TakeStep
  <2>2. CASE NothingToDo(w)
    BY <2>2, NothingToDoStep
  <2>3. CASE Exists(w)
    BY <2>3, ExistsStep
  <2>4. CASE Remove(w)
    BY <2>4, RemoveStep, RemoveRaises
  <2>5. CASE Open(w)
    BY <2>5, OpenStep
  <2>6. CASE Succeed(w)
    BY <2>6, SucceedStep
  <2>7. CASE Fail(w)
    BY <2>7, FailStep
  <2>missing. CASE NotThere(w)
    BY <2>missing, NotThereStep
  <2>8. CASE TimeOut(w)
    BY <2>8, TimeOutStep
  <2>9. CASE Judge(w)
    BY <2>9, JudgeStep
  <2>10. CASE Discard(w)
    BY <2>10, DiscardStep
  <2>11. QED
    BY <1>1, <2>1, <2>2, <2>3, <2>4, <2>5, <2>6, <2>7, <2>8, <2>9, <2>10, <2>missing DEF Work
<1>2. CASE \E s \in strays : Stray(s)
  BY <1>2, StrayStep
<1>3. CASE Finish
  BY <1>3, FinishStep
<1>4. CASE UNCHANGED vars
  <2>1. UNCHANGED <<suite, next, worker, names, text, built, strays, futures, results, faults, exit>>
    BY <1>4 DEF vars
  <2>2. Passed'
    BY <2>1, SuiteKeeps DEF IInv, Passed
  <2>3. QED
    BY <2>1, <2>2, SameButExit
<1>5. QED
  BY <1>1, <1>2, <1>3, <1>4 DEF Next

-----------------------------------------------------------------------------

\* The inductive invariant holds throughout (run_tests.py:199-289, every suite, any number of
\* workers): each worker has an output and a test to itself where base names do not clash.
THEOREM Inductive == Spec => []IInv
<1>1. Init => IInv
  BY InitIInv
<1>2. IInv /\ [Next]_vars => IInv'
  BY NextIInv
<1>3. QED
  BY <1>1, <1>2, PTL DEF Spec

\* Where base names do not clash, every command of a configuration that is reported as passed
\* (run_tests.py:199-258) was in time and printed what it should, nothing more and nothing less;
\* and the programs it ran were its own, unless a compiler of it failed without a word or one
\* of an earlier configuration was killed.
THEOREM PassedIsRightHolds == Spec => []PassedIsRight
<1>1. IInv => PassedIsRight
  BY DEF IInv
<1>2. QED
  BY <1>1, Inductive, PTL

LEMMA IInvWhole == IInv => ReportIsWhole
<1> SUFFICES ASSUME IInv
             PROVE  ReportIsWhole
  OBVIOUS
<1>1. \A i \in Tests : futures[i] = "raised" => Clashes(i) \/ Garbled(i)
  BY DEF IInv, Counted
<1>2. ASSUME exit = "passed"
      PROVE  /\ \A i \in Tests : Len(results[i]) = Len(suite[i].configs) /\ \A c \in Configs(i) : results[i][c]
             /\ \A n \in DOMAIN names : names[n] = 0
  <2>1. \A i \in Tests : futures[i] = "done" /\ \A c \in Configs(i) : results[i][c]
    BY <1>2 DEF IInv, Passed
  <2>2. \A i \in Tests : Len(results[i]) = Len(suite[i].configs)
    BY <2>1 DEF IInv, Counted
  <2>3. ASSUME NEW n \in DOMAIN names, names[n] # 0
        PROVE  FALSE
    <3>1. n \in Names /\ Kept(n)
      BY DEF IInv, TypeOK
    <3>2. \A w \in Workers : worker[w].at = "idle"
      BY <2>1 DEF IInv, Placed
    <3>3. \A i \in Tests : \A c \in 1 .. Len(results[i]) : results[i][c]
      BY <2>1, <2>2 DEF Configs
    <3>4. ~\E w \in Workers : worker[w].at \in Holding
      BY <3>2 DEF Holding
    <3>5. ~\E i \in Tests : futures[i] = "raised"
      BY <2>1
    <3>6. ~\E i \in Tests : \E c \in 1 .. Len(results[i]) : ~results[i][c]
      BY <3>3
    <3>7. QED
      BY <2>3, <3>1, <3>4, <3>5, <3>6 DEF Kept
  <2>4. QED
    BY <2>1, <2>2, <2>3
<1>3. QED
  BY <1>1, <1>2 DEF ReportIsWhole, Garbled

\* The runner reports success only when every configuration was judged and passed, and leaves
\* no output then; it stops with a traceback only where base names clash or an output does not
\* decode (run_tests.py:131-137, 267-330).
THEOREM ReportIsWholeHolds == Spec => []ReportIsWhole
BY Inductive, IInvWhole, PTL
-----------------------------------------------------------------------------
(* The release script.                                                     *)

LastTag == get_last_tag_num
Ended == {"done", "stuck", "lost"}

RevisionTypeOK == /\ pc \in Steps \cup Ended
          /\ builds \in Nat \ {0} /\ pebl \in Nat /\ new \in Nat

\* The revisions are numbered without a gap.
Numbered == LastTag \in Nat \ {0} /\ Revisions = 1 .. LastTag

\* There is a compiler but between the removal of the old and the move of the new one.
HasCompiler ==
  /\ pc \in {"test", "remove", "move"} => new # 0
  /\ pc \notin {"clean", "build", "move", "lost"} => pebl # 0
  /\ pc \in {"clean", "build", "lost"} /\ pebl = 0 => "move" \in died
  /\ pc = "lost" => pebl = 0

\* Of the tars of the next revision there is one, and it is packaged of the compiler that is
\* committed; that of the last one is removed before.
TarsRight ==
  /\ \A t \in tars : t.rev \in {LastTag, LastTag + 1}
  /\ pc = "unpackage" => \A t \in tars : t.rev = LastTag + 1 => t = Tar(LastTag + 1, pebl)
  /\ pc = "unpackage" => Tar(LastTag + 1, pebl) \in tars
  /\ pc \in {"add", "commit", "tag"} => tars = {Tar(LastTag + 1, pebl)}

\* What is staged is committed and tagged next, unless the script died in between: but for
\* that, the index holds the tar of the last revision.
HeadRight ==
  /\ index.pebl # 0 /\ \A t \in index.tars : t.rev \in {LastTag, LastTag + 1}
  /\ pc \in {"commit", "tag"} => index = Commit(pebl, tars)
  /\ pc = "tag" => head = Commit(pebl, tars)
  /\ pc \notin {"commit", "tag"} => \/ \E t \in index.tars : t.rev = LastTag
                                    \/ died \cap {"commit", "tag"} # {}
  /\ pc = "stuck" => died \cap {"commit", "tag"} # {}

RevisionInv == /\ RevisionTypeOK /\ Numbered /\ HasCompiler /\ TarsRight /\ HeadRight
        /\ RevisionComplete /\ CompilerInGit
-----------------------------------------------------------------------------
\* The last tag is the one of the highest number.
LEMMA HighestOf ==
  ASSUME NEW n \in Nat \ {0}
  PROVE  (CHOOSE r \in 1 .. n : \A q \in 1 .. n : q <= r) = n
<1>1. n \in 1 .. n /\ \A q \in 1 .. n : q <= n
  OBVIOUS
<1>2. \A r \in 1 .. n : (\A q \in 1 .. n : q <= r) => r = n
  <2>1. \A r \in 1 .. n : n <= r => r = n
    OBVIOUS
  <2>2. QED
    BY <1>1, <2>1
<1>3. QED
  BY <1>1, <1>2

LEMMA InitRevisionInv == InitRevision => RevisionInv
<1> SUFFICES ASSUME InitRevision
             PROVE  RevisionInv
  OBVIOUS
<1>1. Revisions = {1}
  BY DEF InitRevision, Revisions
<1>2. LastTag = 1
  <2>1. 1 .. 1 = {1} /\ tags # {}
    BY DEF InitRevision
  <2>2. QED
    BY <1>1, <2>1, HighestOf DEF LastTag, get_last_tag_num
<1>3. Numbered
  BY <1>1, <1>2 DEF Numbered
<1>4. RevisionTypeOK /\ HasCompiler
  BY DEF InitRevision, RevisionTypeOK, Steps, HasCompiler
<1>5. Tar(1, 1).rev = 1 /\ index.tars = {Tar(1, 1)} /\ index.pebl = 1
  BY DEF InitRevision, Tar, Commit
<1>6. TarsRight /\ HeadRight
  <2>1. TarsRight
    BY <1>2, <1>5 DEF InitRevision, TarsRight
  <2>2. pc = "clean" /\ Tar(1, 1) \in index.tars
    BY <1>5 DEF InitRevision
  <2>3. index.pebl # 0 /\ \A t \in index.tars : t.rev = LastTag
    BY <1>2, <1>5
  <2>4. \E t \in index.tars : t.rev = LastTag
    BY <2>2, <2>3
  <2>5. QED
    BY <2>1, <2>2, <2>3, <2>4 DEF HeadRight
<1>7. RevisionComplete /\ CompilerInGit
  BY DEF InitRevision, RevisionComplete, CompilerInGit, Tar, Commit
<1>8. QED
  BY <1>3, <1>4, <1>6, <1>7 DEF RevisionInv

\* Steps that leave the tags alone leave the numbers alone.
LEMMA SameTags == ASSUME tags' = tags PROVE LastTag' = LastTag /\ Revisions' = Revisions
BY DEF LastTag, get_last_tag_num, Revisions

\* Building: nothing that git knows of changes.
LEMMA BuildSteps ==
  ASSUME RevisionInv, CleanInstall \/ BuildCompiler \/ RunTests \/ RemoveOld \/ MoveNew
  PROVE  RevisionInv'
<1>1. UNCHANGED <<tars, index, head, tags, pushed, died>> /\ LastTag' = LastTag /\ Revisions' = Revisions
  BY SameTags DEF CleanInstall, BuildCompiler, RunTests, RemoveOld, MoveNew, Proceeds, repo, dir
<1>2. RevisionTypeOK'
  BY DEF RevisionInv, RevisionTypeOK, CleanInstall, BuildCompiler, RunTests, RemoveOld, MoveNew, Proceeds, dir, Steps
<1>3. HasCompiler'
  BY <1>1 DEF RevisionInv, RevisionTypeOK, HasCompiler, CleanInstall, BuildCompiler, RunTests, RemoveOld, MoveNew,
              Proceeds, dir
<1>4. pc' \in {"build", "test", "remove", "move", "package"} /\ pc \notin {"commit", "tag"}
  BY DEF CleanInstall, BuildCompiler, RunTests, RemoveOld, MoveNew, Proceeds
<1>5. TarsRight' /\ HeadRight'
  BY <1>1, <1>4 DEF RevisionInv, TarsRight, HeadRight
<1>6. Numbered' /\ RevisionComplete' /\ CompilerInGit'
  BY <1>1 DEF RevisionInv, Numbered, RevisionComplete, CompilerInGit, Tar
<1>7. QED
  BY <1>2, <1>3, <1>5, <1>6 DEF RevisionInv

LEMMA PackageStep == ASSUME RevisionInv, package_compiler PROVE RevisionInv'
<1>1. /\ UNCHANGED <<builds, pebl, new, index, head, tags, pushed, died>>
      /\ LastTag' = LastTag /\ Revisions' = Revisions
  BY SameTags DEF package_compiler, Proceeds, repo
<1>2. pc = "package" /\ pc' = "unpackage"
  BY DEF package_compiler, Proceeds
<1>3. tars' = {t \in tars : t.rev # LastTag + 1} \cup {Tar(LastTag + 1, pebl)}
  BY DEF package_compiler, get_next_tag, LastTag
<1>4. Tar(LastTag + 1, pebl).rev = LastTag + 1
  BY DEF Tar
<1>5. TarsRight'
  BY <1>1, <1>2, <1>3, <1>4 DEF RevisionInv, TarsRight, Tar
<1>6. RevisionTypeOK' /\ HasCompiler' /\ HeadRight'
  BY <1>1, <1>2 DEF RevisionInv, RevisionTypeOK, HasCompiler, HeadRight, Steps
<1>7. Numbered' /\ RevisionComplete' /\ CompilerInGit'
  BY <1>1 DEF RevisionInv, Numbered, RevisionComplete, CompilerInGit, Tar
<1>8. QED
  BY <1>5, <1>6, <1>7 DEF RevisionInv

LEMMA RemoveOldTarStep == ASSUME RevisionInv, RemoveOldTar PROVE RevisionInv'
<1>1. /\ UNCHANGED <<builds, pebl, new, index, head, tags, pushed, died>>
      /\ LastTag' = LastTag /\ Revisions' = Revisions
  BY SameTags DEF RemoveOldTar, Proceeds, repo
<1>2. pc = "unpackage" /\ pc' = "add"
  BY DEF RemoveOldTar, Proceeds
<1>3. tars' = {t \in tars : t.rev # LastTag}
  BY DEF RemoveOldTar, LastTag
<1>4. Tar(LastTag + 1, pebl).rev = LastTag + 1 /\ LastTag + 1 # LastTag
  BY DEF Tar, RevisionInv, Numbered
<1>5. tars' = {Tar(LastTag + 1, pebl)}
  BY <1>2, <1>3, <1>4 DEF RevisionInv, TarsRight
<1>6. TarsRight'
  BY <1>1, <1>2, <1>4, <1>5 DEF TarsRight, Tar
<1>7. RevisionTypeOK' /\ HasCompiler' /\ HeadRight'
  BY <1>1, <1>2 DEF RevisionInv, RevisionTypeOK, HasCompiler, HeadRight, Steps
<1>8. Numbered' /\ RevisionComplete' /\ CompilerInGit'
  BY <1>1 DEF RevisionInv, Numbered, RevisionComplete, CompilerInGit, Tar
<1>9. QED
  BY <1>6, <1>7, <1>8 DEF RevisionInv

\* What is staged is the compiler and the one tar, of the next revision.
LEMMA GitAddStep == ASSUME RevisionInv, GitAdd PROVE RevisionInv'
<1>1. UNCHANGED <<builds, dir, head, tags, pushed, died>> /\ LastTag' = LastTag /\ Revisions' = Revisions
  BY SameTags DEF GitAdd, Proceeds
<1>2. pc = "add" /\ pc' = "commit"
  BY DEF GitAdd, Proceeds
<1>3. index' = Commit(pebl, tars)
  <2>1. \A t \in tars \cup index.tars : Named(t)
    BY <1>2 DEF RevisionInv, HeadRight, TarsRight, Named, LastTag, get_next_tag
  <2>2. {t \in index.tars : ~Named(t)} \cup {t \in tars : Named(t)} = tars
    BY <2>1
  <2>3. QED
    BY <2>2 DEF GitAdd
<1>4. UNCHANGED <<pebl, new, tars>>
  BY <1>1 DEF dir
<1>5. RevisionTypeOK' /\ HasCompiler' /\ TarsRight'
  BY <1>1, <1>2, <1>4 DEF RevisionInv, RevisionTypeOK, HasCompiler, TarsRight, Steps, Tar
<1>6. HeadRight'
  <2>1. index'.pebl = pebl /\ index'.tars = tars /\ pebl # 0
    BY <1>2, <1>3 DEF Commit, RevisionInv, HasCompiler
  <2>2. \A t \in tars : t.rev \in {LastTag, LastTag + 1}
    BY DEF RevisionInv, TarsRight
  <2>3. QED
    BY <1>1, <1>2, <1>3, <1>4, <2>1, <2>2 DEF HeadRight, Commit
<1>7. Numbered' /\ RevisionComplete' /\ CompilerInGit'
  BY <1>1 DEF RevisionInv, Numbered, RevisionComplete, CompilerInGit, Tar
<1>8. QED
  BY <1>5, <1>6, <1>7 DEF RevisionInv

\* Where the last tar is neither on disk nor staged, a run died after git add and before the tag.
LEMMA GitAddFailsStep == ASSUME RevisionInv, GitAddFails PROVE RevisionInv'
<1>1. UNCHANGED <<builds, dir, repo, died>> /\ LastTag' = LastTag /\ Revisions' = Revisions
  BY SameTags DEF GitAddFails, repo
<1>2. pc = "add" /\ pc' = "stuck" /\ ~Known(LastTag)
  BY DEF GitAddFails, Then, LastTag
<1>3. died \cap {"commit", "tag"} # {}
  BY <1>2 DEF RevisionInv, HeadRight, Known
<1>4. RevisionTypeOK' /\ HasCompiler' /\ HeadRight' /\ TarsRight'
  BY <1>1, <1>2, <1>3 DEF RevisionInv, RevisionTypeOK, HasCompiler, HeadRight, TarsRight, Steps, Ended, dir, repo, Tar
<1>5. Numbered' /\ RevisionComplete' /\ CompilerInGit'
  BY <1>1 DEF RevisionInv, Numbered, RevisionComplete, CompilerInGit, Tar, repo
<1>6. QED
  BY <1>4, <1>5 DEF RevisionInv

LEMMA CommitStep == ASSUME RevisionInv, GitCommit PROVE RevisionInv'
<1>1. /\ UNCHANGED <<builds, dir, index, tags, pushed, died>>
      /\ LastTag' = LastTag /\ Revisions' = Revisions
  BY SameTags DEF GitCommit, Proceeds
<1>2. pc = "commit" /\ pc' = "tag" /\ head' = Commit(pebl, tars) /\ index = Commit(pebl, tars)
  BY DEF GitCommit, Proceeds, RevisionInv, HeadRight
<1>3. RevisionTypeOK' /\ HasCompiler' /\ TarsRight' /\ HeadRight'
  BY <1>1, <1>2 DEF RevisionInv, RevisionTypeOK, HasCompiler, TarsRight, HeadRight, Steps, dir, Commit, Tar
<1>4. Numbered' /\ RevisionComplete'
  BY <1>1 DEF RevisionInv, Numbered, RevisionComplete, Tar
<1>5. CompilerInGit'
  BY <1>1, <1>2 DEF RevisionInv, CompilerInGit, HasCompiler, Commit
<1>6. QED
  BY <1>3, <1>4, <1>5 DEF RevisionInv

\* The commit that is tagged has the one tar of its number.
LEMMA TagStep == ASSUME RevisionInv, GitTag PROVE RevisionInv'
<1>1. UNCHANGED <<builds, dir, index, head, pushed, died>>
  BY DEF GitTag, Proceeds
<1>2. pc = "tag" /\ pc' = "push" /\ tags' = tags \cup {[rev |-> LastTag + 1, commit |-> head]}
  BY DEF GitTag, Proceeds, get_next_tag, LastTag
<1>3. LastTag \in Nat \ {0} /\ Revisions = 1 .. LastTag
  BY DEF RevisionInv, Numbered
<1>4. Revisions' = 1 .. (LastTag + 1)
  <2>1. Revisions' = Revisions \cup {LastTag + 1}
    <3>1. [rev |-> LastTag + 1, commit |-> head].rev = LastTag + 1
      OBVIOUS
    <3>2. QED
      BY <1>2, <3>1 DEF Revisions
  <2>2. QED
    BY <1>3, <2>1
<1>5. LastTag' = LastTag + 1
  <2>1. tags' # {} /\ LastTag + 1 \in Nat \ {0}
    <3>1. [rev |-> LastTag + 1, commit |-> head] \in tags'
      BY <1>2
    <3>2. tags' # {}
      BY <3>1
    <3>3. QED
      BY <1>3, <3>2
  <2>2. LastTag' = CHOOSE r \in Revisions' : \A q \in Revisions' : q <= r
    BY <2>1 DEF LastTag, get_last_tag_num
  <2>3. QED
    BY <1>4, <2>1, <2>2, HighestOf
<1>6. head = Commit(pebl, {Tar(LastTag + 1, pebl)}) /\ index = head /\ tars = {Tar(LastTag + 1, pebl)} /\ pebl # 0
  BY <1>2 DEF RevisionInv, HeadRight, TarsRight, HasCompiler
<1>7. Numbered'
  BY <1>3, <1>4, <1>5 DEF Numbered
<1>8. RevisionTypeOK' /\ HasCompiler'
  BY <1>1, <1>2 DEF RevisionInv, RevisionTypeOK, HasCompiler, Steps, dir
<1>9. TarsRight' /\ HeadRight'
  <2>1. Tar(LastTag + 1, pebl).rev = LastTag + 1 /\ head.tars = {Tar(LastTag + 1, pebl)}
    BY <1>6 DEF Tar, Commit
  <2>2. UNCHANGED <<tars, index, head>>
    BY <1>1 DEF dir
  <2>3. TarsRight'
    BY <1>2, <1>5, <1>6, <2>1, <2>2 DEF TarsRight
  <2>4. index'.pebl # 0 /\ index'.tars = {Tar(LastTag + 1, pebl)} /\ LastTag + 1 = LastTag'
    BY <1>5, <1>6, <2>2 DEF Commit
  <2>5. \A t \in index'.tars : t.rev = LastTag'
    BY <2>1, <2>4
  <2>6. (\E t \in index'.tars : t.rev = LastTag') /\ pc' \notin {"commit", "tag", "stuck"}
    BY <1>2, <2>4, <2>5
  <2>7. HeadRight'
    BY <2>4, <2>5, <2>6 DEF HeadRight
  <2>8. QED
    BY <2>3, <2>7
<1>10. RevisionComplete'
  <2>1. head.pebl # 0 /\ head.tars = {Tar(LastTag + 1, head.pebl)}
    BY <1>6 DEF Commit
  <2>2. QED
    BY <1>2, <2>1 DEF RevisionInv, RevisionComplete, Tar
<1>11. CompilerInGit'
  BY <1>1 DEF RevisionInv, CompilerInGit
<1>12. QED
  BY <1>7, <1>8, <1>9, <1>10, <1>11 DEF RevisionInv

LEMMA PushStep == ASSUME RevisionInv, GitPush \/ RunAgain PROVE RevisionInv'
<1>1. UNCHANGED <<builds, dir, index, head, tags, died>> /\ LastTag' = LastTag /\ Revisions' = Revisions
  BY SameTags DEF GitPush, RunAgain, Proceeds, Then, repo
<1>2. pushed' \in {pushed, pushed \cup {head}}
  BY DEF GitPush, RunAgain, repo
<1>3. (pc = "push" /\ pc' = "done") \/ (pc = "done" /\ pc' = "clean")
  BY DEF GitPush, RunAgain, Proceeds, Then
<1>4. RevisionTypeOK' /\ HasCompiler' /\ TarsRight' /\ HeadRight'
  BY <1>1, <1>3 DEF RevisionInv, RevisionTypeOK, HasCompiler, TarsRight, HeadRight, Steps, Ended, dir
<1>5. Numbered' /\ RevisionComplete' /\ CompilerInGit'
  BY <1>1, <1>2 DEF RevisionInv, Numbered, RevisionComplete, CompilerInGit, Tar
<1>6. QED
  BY <1>4, <1>5 DEF RevisionInv

\* A run that dies leaves everything as it is, and says where it died.
LEMMA CrashStep == ASSUME RevisionInv, Crash \/ BuildFails PROVE RevisionInv'
<1>1. UNCHANGED <<builds, dir, repo>> /\ LastTag' = LastTag /\ Revisions' = Revisions
  BY SameTags DEF Crash, BuildFails, repo
<1>2. \/ pc \in Steps /\ pc' = "clean" /\ died' = died \cup {pc}
      \/ pc = "build" /\ pebl = 0 /\ pc' = "lost" /\ died' = died
  BY DEF Crash, BuildFails, Then
<1>3. RevisionTypeOK' /\ HasCompiler'
  BY <1>1, <1>2 DEF RevisionInv, RevisionTypeOK, HasCompiler, Steps, Ended, dir
<1>4. TarsRight' /\ HeadRight'
  BY <1>1, <1>2 DEF RevisionInv, TarsRight, HeadRight, Steps, Ended, dir, repo
<1>5. Numbered' /\ RevisionComplete' /\ CompilerInGit'
  BY <1>1 DEF RevisionInv, Numbered, RevisionComplete, CompilerInGit, Tar, repo
<1>6. QED
  BY <1>3, <1>4, <1>5 DEF RevisionInv

LEMMA SameRevision == ASSUME RevisionInv, UNCHANGED revision PROVE RevisionInv'
<1>1. UNCHANGED <<pc, builds, died, dir, repo>> /\ LastTag' = LastTag /\ Revisions' = Revisions
  BY SameTags DEF revision, repo
<1>2. QED
  BY <1>1 DEF RevisionInv, RevisionTypeOK, Numbered, HasCompiler, TarsRight, HeadRight, RevisionComplete,
              CompilerInGit, Tar, Commit, dir, repo

\* The invariant is inductive (make_revision.py).
THEOREM RevisionInductive == SpecRevision => []RevisionInv
<1>1. RevisionInv /\ [NextRevision]_revision => RevisionInv'
  BY BuildSteps, PackageStep, RemoveOldTarStep, GitAddStep, GitAddFailsStep, CommitStep, TagStep, PushStep, CrashStep,
     SameRevision DEF NextRevision, Exit
<1>2. QED
  BY <1>1, InitRevisionInv, PTL DEF SpecRevision

\* Every tagged revision has a compiler and the one tar of that compiler, under
\* its number, whatever earlier runs left behind (make_revision.py:63-83).
THEOREM RevisionCompleteHolds == SpecRevision => []RevisionComplete
BY RevisionInductive, PTL DEF RevisionInv

\* The last commit, and every commit pushed, has a compiler: wherever the script
\* dies it can be had back from git (make_revision.py:76-84, 105-106).
THEOREM CompilerInGitHolds == SpecRevision => []CompilerInGit
BY RevisionInductive, PTL DEF RevisionInv

\* A run after one that died fails only if one died between the removal of the
\* old compiler and the move of the new, or between git add and the tag
\* (make_revision.py:79-82, 105-106).
THEOREM RecoversElsewhereHolds == SpecRevision => []RecoversElsewhere
<1>1. RevisionInv => RecoversElsewhere
  BY DEF RevisionInv, HasCompiler, HeadRight, RecoversElsewhere
<1>2. QED
  BY <1>1, RevisionInductive, PTL
=============================================================================
