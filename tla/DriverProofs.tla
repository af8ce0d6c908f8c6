----------------------------- MODULE DriverProofs -----------------------------
(***************************************************************************)
(* What a driver of driver.py reports is so, whatever the number of        *)
(* drivers, files and workers: success means that the output is right for  *)
(* every file whose temporary names are its own, and the directory gone if *)
(* it is not shared or kept; a failure of a tool, that no success is       *)
(* reported.                                                               *)
(***************************************************************************)
EXTENDS Driver, SequenceTheorems, TLAPS

Phases == {"check", "clear", "make", "build", "drain", "link", "remove", "cleanup",
           "exit0", "exit1"}
ToolNames == {"compile", "optimize", "assemble"}
Stages == ToolNames \cup {"queued", "built", "failed", "given up"}
Inputs == Sources \cup Objects
Contents == [of : Seq(Inputs), by : Seq(ToolNames)]
JobRecords == [at : Stages, running : BOOLEAN, input : Contents]

ArgsOK == DOMAIN args = Drivers /\ \A d \in Drivers : args[d] \in Arguments(d)
JobsOK == job = [d \in Drivers |-> job[d]] /\ \A d \in Drivers : job[d] \in [Files(d) -> JobRecords]
DiskOK == disk \in [DOMAIN disk -> Contents]

TypeOK == /\ ArgsOK /\ JobsOK /\ DiskOK
          /\ main \in [Drivers -> Phases]
          /\ out \in [Drivers -> Seq(Contents)]

\* What the files of a driver are at says how far its main function is.
Succeeding == {"link", "remove", "cleanup", "exit0"}
StagesFit(d) ==
  /\ main[d] \in {"check", "clear", "make"} => \A i \in Files(d) : job[d][i].at = "queued"
  /\ main[d] \in Succeeding => \A i \in Files(d) : job[d][i].at = "built"
  /\ main[d] = "exit1" => Busy(d) = {}
  /\ \A i \in Files(d) : job[d][i].at \in {"failed", "given up"} => main[d] \in {"build", "drain", "exit1"}
  /\ main[d] = "link" => args[d].stop = "link"

\* No file is past the tool whose output is asked for.
NotPast(d) ==
  \A i \in Files(d), k, l \in 1..3 : job[d][i].at = Tools[k] /\ args[d].stop = Tools[l] => k <= l

\* The file i of d, by the first k tools.
Right(d, i, k) == Content(<<args[d].files[i]>>, SubSeq(Tools, 1, k))

\* A temporary file whose name is its own is empty, as long as a tool has it open, or holds
\* what its name says; it does so as soon as the next tool is at it, if it is still there.
FileRight(d, i) ==
  \A k \in 1..3 : LET path == get_file(d, i, Tools[k]) IN
    path \in DOMAIN disk =>
      /\ disk[path] \in {Empty, Right(d, i, k)}
      /\ (\E l \in 1..3 : k < l /\ job[d][i].at = Tools[l]) => disk[path] = Right(d, i, k)

\* A tool at work has read what the tools before it made of the file.
InputRight(d, i) ==
  \A k \in 1..3 :
    job[d][i].at = Tools[k] /\ job[d][i].running => job[d][i].input = Right(d, i, k - 1)

\* The output is there as soon as nothing but removing the directory is left to do.
OutRight(d) ==
  /\ args[d].stop # "link" /\ (\A i \in Files(d) : job[d][i].at = "built") => Delivered(d)
  /\ args[d].stop = "link" /\ main[d] \in {"remove", "cleanup", "exit0"} => Delivered(d)

DirGone(d) == main[d] = "exit0" /\ Alone(d) /\ ~args[d].keep => TempDir(d) \notin dirs

Guarded(d) == /\ StagesFit(d) /\ NotPast(d) /\ DirGone(d)
              /\ \A i \in Files(d) : NamesApart(d, i) => FileRight(d, i) /\ InputRight(d, i)
              /\ OutRight(d)

IInv == TypeOK /\ \A d \in Drivers : Guarded(d)
-----------------------------------------------------------------------------
(* The arguments and the tools.                                            *)

\* The arguments of a driver: any files, exactly one to compile if it does not link.
LEMMA ArgumentsOf ==
  ASSUME ArgsOK, NEW d \in Drivers
  PROVE  /\ args[d].files \in Seq(Inputs) /\ args[d].objects \in Seq(Inputs)
         /\ Len(args[d].files) \in Nat /\ Len(args[d].objects) \in Nat
         /\ \A i \in Files(d) : i \in Nat \ {0} /\ args[d].files[i] \in Inputs
         /\ args[d].keep \in BOOLEAN
         /\ args[d].stop \in {"link"} \cup ToolNames
         /\ args[d].stop # "link" => /\ Files(d) = {1} /\ Len(args[d].files) = 1
                                     /\ Len(args[d].objects) = 0
<1>1. args[d] \in [objects : UNION {[1..n -> Objects] : n \in 0..MaxObjects},
                   files : UNION {[1..n -> Sources \cup Objects] : n \in 0..MaxFiles},
                   temp : TempNames \cup {d}, keep : Keep,
                   stop : {"link", "compile", "optimize", "assemble"}]
  BY DEF ArgsOK, Arguments
<1>2. PICK n \in 0..MaxFiles : args[d].files \in [1..n -> Inputs]
  BY <1>1 DEF Inputs
<1>3. PICK m \in 0..MaxObjects : args[d].objects \in [1..m -> Inputs]
  <2>1. PICK m \in 0..MaxObjects : args[d].objects \in [1..m -> Objects]
    BY <1>1
  <2>2. QED
    BY <2>1 DEF Inputs
<1>4. n \in Nat /\ m \in Nat
  BY DriverAssumption
<1>5. /\ args[d].files \in Seq(Inputs) /\ Len(args[d].files) = n
      /\ args[d].objects \in Seq(Inputs) /\ Len(args[d].objects) = m
  BY <1>2, <1>3, <1>4
<1>6. args[d].stop # "link" => Len(args[d].files) = 1 /\ Len(args[d].objects) = 0
  BY DEF ArgsOK, Arguments
<1>7. args[d].keep \in BOOLEAN /\ args[d].stop \in {"link"} \cup ToolNames
  BY <1>1, DriverAssumption DEF ToolNames
<1>8. \A i \in Files(d) : i \in Nat \ {0} /\ args[d].files[i] \in Inputs
  BY <1>2, <1>4, <1>5 DEF Files
<1>9. args[d].stop # "link" => Files(d) = {1}
  <2>1. 1..1 = {1}
    OBVIOUS
  <2>2. QED
    BY <1>6, <2>1 DEF Files
<1>10. QED
  BY <1>4, <1>5, <1>6, <1>7, <1>8, <1>9

\* The tools, in their order.
LEMMA ToolOrder ==
  /\ Tools[1] = "compile" /\ Tools[2] = "optimize" /\ Tools[3] = "assemble"
  /\ Before("optimize") = "compile" /\ Before("assemble") = "optimize"
  /\ After("compile") = "optimize" /\ After("optimize") = "assemble"
  /\ SubSeq(Tools, 1, 0) = << >>
  /\ \A k \in 0..3 : SubSeq(Tools, 1, k) \in Seq(ToolNames)
  /\ \A k \in 1..3 : Append(SubSeq(Tools, 1, k - 1), Tools[k]) = SubSeq(Tools, 1, k)
<1>1. Tools[1] = "compile" /\ Tools[2] = "optimize" /\ Tools[3] = "assemble"
  BY DEF Tools
<1>2. (CHOOSE k \in 1..2 : Tools[k + 1] = "optimize") = 1 /\ (CHOOSE k \in 1..2 : Tools[k + 1] = "assemble") = 2
  BY <1>1
<1>3. (CHOOSE k \in 1..2 : Tools[k] = "compile") = 1 /\ (CHOOSE k \in 1..2 : Tools[k] = "optimize") = 2
  BY <1>1
<1>4. Before("optimize") = "compile" /\ Before("assemble") = "optimize"
  BY <1>1, <1>2 DEF Before
<1>5. After("compile") = "optimize" /\ After("optimize") = "assemble"
  BY <1>1, <1>3 DEF After
<1>6. SubSeq(Tools, 1, 0) = << >>
  BY SubSeqEmpty
<1>7. ASSUME NEW k \in 0..3
      PROVE  /\ SubSeq(Tools, 1, k) \in Seq(ToolNames)
             /\ Len(SubSeq(Tools, 1, k)) = k
             /\ \A i \in 1..k : SubSeq(Tools, 1, k)[i] = Tools[i]
  <2>1. \A i \in 1..k : Tools[i] \in ToolNames
    BY <1>1 DEF ToolNames
  <2>2. QED
    BY <2>1, SubSeqProperties
<1>8. ASSUME NEW k \in 1..3
      PROVE  Append(SubSeq(Tools, 1, k - 1), Tools[k]) = SubSeq(Tools, 1, k)
  <2> DEFINE s == SubSeq(Tools, 1, k - 1)
             t == SubSeq(Tools, 1, k)
  <2>1. /\ s \in Seq(ToolNames) /\ Len(s) = k - 1 /\ \A i \in 1..(k - 1) : s[i] = Tools[i]
        /\ t \in Seq(ToolNames) /\ Len(t) = k /\ \A i \in 1..k : t[i] = Tools[i]
        /\ Tools[k] \in ToolNames
    BY <1>1, <1>7 DEF ToolNames
  <2> HIDE DEF s, t
  <2>2. /\ Append(s, Tools[k]) \in Seq(ToolNames) /\ Len(Append(s, Tools[k])) = k
        /\ \A i \in 1..k : Append(s, Tools[k])[i] = t[i]
    BY <2>1
  <2>3. Append(s, Tools[k]) = t
    BY <2>1, <2>2, SeqEqual
  <2>4. QED
    BY <2>3 DEF s, t
<1>9. QED
  BY <1>1, <1>4, <1>5, <1>6, <1>7, <1>8

LEMMA ToolsAreNames ==
  /\ \A k \in 1..3 : Tools[k] \in ToolNames
  /\ \A name \in ToolNames : \E k \in 1..3 : Tools[k] = name
  /\ \A k, l \in 1..3 : Tools[k] = Tools[l] => k = l
BY DEF Tools, ToolNames

\* What is asked for is every file by the tools up to the last one.
LEMMA AskedIsRight ==
  ASSUME ArgsOK, NEW d \in Drivers, NEW i \in Files(d)
  PROVE  /\ args[d].stop = "link" => Asked(d, i) = Right(d, i, 3)
         /\ \A n \in 1..3 : args[d].stop = Tools[n] => Asked(d, i) = Right(d, i, n)
<1>1. args[d].stop = "link" => Asked(d, i) = Right(d, i, 3)
  BY DEF Asked, Right
<1>2. ASSUME NEW n \in 1..3, args[d].stop = Tools[n]
      PROVE  Asked(d, i) = Right(d, i, n)
  <2>1. (CHOOSE k \in 1..3 : Tools[k] = args[d].stop) = n /\ args[d].stop # "link"
    BY <1>2, ToolOrder
  <2> DEFINE last == IF args[d].stop = "link" THEN 3 ELSE CHOOSE k \in 1..3 : Tools[k] = args[d].stop
  <2>2. Asked(d, i) = Content(<<args[d].files[i]>>, SubSeq(Tools, 1, last))
    BY DEF Asked
  <2>3. last = n
    BY <2>1, Zenon
  <2> HIDE DEF last
  <2>4. QED
    BY <2>2, <2>3 DEF Right
<1>3. QED
  BY <1>1, <1>2

\* The temporary files of one source file have three names.
LEMMA NamesOfTools ==
  ASSUME ArgsOK, NEW d \in Drivers, NEW i \in Files(d), NEW k \in 1..3, NEW l \in 1..3,
         get_file(d, i, Tools[k]) = get_file(d, i, Tools[l])
  PROVE  k = l
<1> DEFINE base == args[d].files[i].base
           suffix(m) == CASE m = 1 -> <<".ll">> [] m = 2 -> <<"-opt", ".ll">> [] m = 3 -> <<".o">>
<1> DEFINE Parts == STRING \cup {".ll", "-opt", ".o"}
<1>2. base \in Seq(Parts)
  <2>1. args[d].files[i] \in [dir : STRING, base : Seq(STRING)]
    BY ArgumentsOf, DriverAssumption DEF Inputs
  <2>2. base \in Seq(STRING)
    BY <2>1
  <2>3. QED
    BY <2>2, SeqMonotonic
<1>3. base \o suffix(k) = base \o suffix(l)
  <2>1. \A m \in 1..3 : suffix(m) = (CASE Tools[m] = "compile"  -> <<".ll">>
                                       [] Tools[m] = "optimize" -> <<"-opt", ".ll">>
                                       [] Tools[m] = "assemble" -> <<".o">>)
    BY ToolOrder
  <2>2. QED
    BY <2>1, Zenon DEF get_file
<1>4. k = l
  <2>1. \A m \in 1..3 : suffix(m) \in Seq(Parts)
    <3>1. <<".ll">> \in Seq(Parts) /\ <<"-opt", ".ll">> \in Seq(Parts) /\ <<".o">> \in Seq(Parts)
      OBVIOUS
    <3> HIDE DEF Parts
    <3>2. QED
      BY <3>1
  <2>2. suffix(k) = suffix(l)
    <3> HIDE DEF base, suffix, Parts
    <3> QED BY <1>2, <1>3, <2>1, ConcatSimplifications
  <2>3. \A m \in 1..3 : suffix(m)[1] = IF m = 1 THEN ".ll" ELSE IF m = 2 THEN "-opt" ELSE ".o"
    OBVIOUS
  <2>4. QED
    BY <2>2, <2>3
<1>5. QED
  BY <1>4

\* The files of other names than those of d and i.
LEMMA NamesOfOthers ==
  ASSUME NEW d \in Drivers, NEW i \in Files(d), NEW e \in Drivers, NEW j \in Files(e),
         NamesApart(d, i), e # d \/ j # i
  PROVE  \A k \in 1..3 : get_file(d, i, Tools[k]) \notin TempFiles(e, j)
<1>1. <<e, j>> # <<d, i>>
  OBVIOUS
<1>2. TempFiles(d, i) \cap TempFiles(e, j) = {}
  BY <1>1 DEF NamesApart
<1>3. QED
  BY <1>2 DEF TempFiles
-----------------------------------------------------------------------------
(* Types.                                                                  *)

\* One file of one driver goes on, all others stay where they are.
LEMMA OneJob ==
  ASSUME TypeOK, NEW d \in Drivers, NEW i \in Files(d), NEW j \in JobRecords,
         Set(d, i, j), UNCHANGED args
  PROVE  /\ JobsOK'
         /\ job'[d] = [job[d] EXCEPT ![i] = j]
         /\ job'[d][i] = j /\ \A k \in Files(d) \ {i} : job'[d][k] = job[d][k]
         /\ \A e \in Drivers \ {d} : job'[e] = job[e]
<1>1. job = [e \in Drivers |-> job[e]] /\ \A e \in Drivers : job[e] \in [Files(e) -> JobRecords]
  BY DEF TypeOK, JobsOK
<1>2. job' = [job EXCEPT ![d] = [job[d] EXCEPT ![i] = j]]
  BY <1>1 DEF Set
<1>3. /\ job' = [e \in Drivers |-> job'[e]]
      /\ job'[d] = [job[d] EXCEPT ![i] = j]
      /\ \A e \in Drivers \ {d} : job'[e] = job[e]
  BY <1>1, <1>2
<1>4. [job[d] EXCEPT ![i] = j] \in [Files(d) -> JobRecords]
  BY <1>1
<1>5. \A e \in Drivers : Files(e)' = Files(e)
  BY DEF Files
<1>6. JobsOK'
  BY <1>1, <1>3, <1>4, <1>5 DEF JobsOK
<1>7. QED
  BY <1>1, <1>3, <1>6

LEMMA JobSet ==
  ASSUME TypeOK, NEW d \in Drivers, NEW i \in Files(d), NEW j, Set(d, i, j)
  PROVE  job'[d][i] = j /\ \A k \in Files(d) \ {i} : job'[d][k] = job[d][k]
<1>1. job = [e \in Drivers |-> job[e]] /\ job[d] \in [Files(d) -> JobRecords]
  BY DEF TypeOK, JobsOK
<1>2. job' = [job EXCEPT ![d] = [job[d] EXCEPT ![i] = j]]
  BY <1>1 DEF Set
<1>3. job'[d] = [job[d] EXCEPT ![i] = j]
  BY <1>1, <1>2
<1>4. QED
  BY <1>1, <1>3

LEMMA JobIsRecord ==
  ASSUME NEW at \in Stages, NEW running \in BOOLEAN, NEW input \in Contents
  PROVE  Job(at, running, input) \in JobRecords
BY DEF Job, JobRecords

LEMMA EmptyIsContent == Empty \in Contents
BY DEF Empty, Content, Contents

\* What a tool reads is a content, and not Empty if it was made of something.
LEMMA ReadIsContent ==
  ASSUME TypeOK, NEW d \in Drivers, NEW i \in Busy(d)
  PROVE  /\ Empty \in Contents
         /\ \A p : Read(p) \in Contents
         /\ Input(d, i) \in Contents
<1>1. Empty \in Contents
  BY DEF Empty, Content, Contents
<1>2. \A p : Read(p) \in Contents
  BY <1>1 DEF Read, TypeOK, DiskOK
<1>3. Content(<<args[d].files[i]>>, << >>) \in Contents
  <2>1. args[d].files[i] \in Inputs
    BY ArgumentsOf DEF Busy, TypeOK
  <2>2. QED
    BY <2>1 DEF Content, Contents
<1>4. QED
  BY <1>1, <1>2, <1>3 DEF Input

\* What the tool of a file makes of its input.
Result(d, i) == Content(job[d][i].input.of, Append(job[d][i].input.by, job[d][i].at))

LEMMA ResultIsContent ==
  ASSUME TypeOK, NEW d \in Drivers, NEW i \in Busy(d)
  PROVE  Result(d, i) \in Contents
<1>1. job[d][i] \in JobRecords /\ job[d][i].at \in ToolNames
  BY DEF TypeOK, JobsOK, Busy, ToolNames
<1>2. QED
  BY <1>1 DEF Result, Content, Contents, JobRecords

\* Opening and writing a file keeps the disk what it is.
LEMMA WrittenIsDisk ==
  ASSUME DiskOK, NEW p, NEW c \in Contents, disk' = Written(p, c)
  PROVE  /\ DiskOK'
         /\ DOMAIN disk' = DOMAIN disk \cup {p}
         /\ disk'[p] = c
         /\ \A q \in DOMAIN disk \ {p} : disk'[q] = disk[q]
BY DEF DiskOK, Written

\* The main function moves on.
LEMMA MainGoes ==
  ASSUME TypeOK, NEW d \in Drivers, NEW from, NEW to \in Phases, Goes(d, from, to)
  PROVE  /\ main[d] = from /\ main'[d] = to
         /\ main' \in [Drivers -> Phases]
         /\ \A e \in Drivers \ {d} : main'[e] = main[e]
BY DEF TypeOK, Goes

LEMMA InitTypeOK == Init => TypeOK
<1> SUFFICES ASSUME Init PROVE TypeOK
  OBVIOUS
<1>1. ArgsOK
  BY DEF Init, ArgsOK
<1>2. Job("queued", FALSE, Empty) \in JobRecords
  BY DEF Job, JobRecords, Stages, Empty, Content, Contents
<1>3. JobsOK
  BY <1>2 DEF Init, JobsOK
<1>4. DiskOK
  BY DEF Init, DiskOK
<1>5. out \in [Drivers -> Seq(Contents)]
  BY DEF Init
<1>6. QED
  BY <1>1, <1>3, <1>4, <1>5 DEF Init, TypeOK, Phases
-----------------------------------------------------------------------------
(* A step of one driver keeps the types, and leaves the others alone.      *)

\* What no step of d changes: the other drivers, and the files and directories of other
\* names, but that it may remove them.
Local(d) ==
  /\ args' = args
  /\ \A e \in Drivers \ {d} : main'[e] = main[e] /\ job'[e] = job[e] /\ out'[e] = out[e]
  /\ \A p \in DOMAIN disk' : (\A j \in Files(d) : p \notin TempFiles(d, j)) =>
       p \in DOMAIN disk /\ disk'[p] = disk[p]
  /\ \A t : t # TempDir(d) => (t \in dirs' <=> t \in dirs)

\* The steps of the main function that neither build nor remove anything.
LEMMA MainLocal ==
  ASSUME TypeOK, NEW d \in Drivers,
         \/ TempDirExists(d) \/ MakeTempDir(d) \/ BuildDone(d) \/ PoolShutdown(d) \/ KeepTempDir(d)
  PROVE  TypeOK' /\ Local(d)
<1>1. UNCHANGED <<args, job, disk, out>> /\ \A t : t # TempDir(d) => (t \in dirs' <=> t \in dirs)
  BY DEF TempDirExists, MakeTempDir, BuildDone, PoolShutdown, KeepTempDir
<1>2. main' \in [Drivers -> Phases] /\ \A e \in Drivers \ {d} : main'[e] = main[e]
  BY MainGoes DEF TempDirExists, MakeTempDir, BuildDone, PoolShutdown, KeepTempDir, Phases
<1>3. QED
  BY <1>1, <1>2 DEF Local, TypeOK, ArgsOK, Arguments, JobsOK, DiskOK, Files

LEMMA RemoveLocal ==
  ASSUME TypeOK, NEW d \in Drivers, RemoveTempDir(d)
  PROVE  TypeOK' /\ Local(d)
<1>1. /\ UNCHANGED <<args, job, out>> /\ dirs' = dirs \ {TempDir(d)}
      /\ disk' = [p \in {q \in DOMAIN disk : q[1] # TempDir(d)} |-> disk[p]]
  BY DEF RemoveTempDir, Remove
<1>2. main' \in [Drivers -> Phases] /\ \A e \in Drivers \ {d} : main'[e] = main[e]
  BY MainGoes DEF RemoveTempDir, Phases
<1>3. DiskOK'
  BY <1>1 DEF DiskOK, TypeOK
<1>4. \A p \in DOMAIN disk' : p \in DOMAIN disk /\ disk'[p] = disk[p]
  BY <1>1
<1>5. QED
  BY <1>1, <1>2, <1>3, <1>4 DEF Local, TypeOK, ArgsOK, Arguments, JobsOK, Files

LEMMA FailsLocal ==
  ASSUME TypeOK, NEW d \in Drivers, BuildFails(d)
  PROVE  /\ TypeOK' /\ Local(d)
         /\ \A i \in Files(d) : \/ job'[d][i] = job[d][i]
                                \/ job[d][i].at = "queued" /\ job'[d][i].at = "given up"
<1>1. UNCHANGED <<args, dirs, disk, out>>
  BY DEF BuildFails
<1>2. main' \in [Drivers -> Phases] /\ \A e \in Drivers \ {d} : main'[e] = main[e]
  BY MainGoes DEF BuildFails, Phases
<1>3. PICK some \in SUBSET {i \in Files(d) : job[d][i].at = "queued"} :
        job' = [job EXCEPT ![d] = [i \in Files(d) |-> IF i \in some
                                                      THEN Job("given up", FALSE, Empty)
                                                      ELSE job[d][i]]]
  BY DEF BuildFails
<1> DEFINE after == [i \in Files(d) |-> IF i \in some THEN Job("given up", FALSE, Empty) ELSE job[d][i]]
<1>4. job = [e \in Drivers |-> job[e]] /\ \A e \in Drivers : job[e] \in [Files(e) -> JobRecords]
  BY DEF TypeOK, JobsOK
<1>5. job' = [e \in Drivers |-> job'[e]] /\ job'[d] = after /\ \A e \in Drivers \ {d} : job'[e] = job[e]
  BY <1>3, <1>4
<1>6. Job("given up", FALSE, Empty) \in JobRecords
  BY DEF Job, JobRecords, Stages, Empty, Content, Contents
<1>7. after \in [Files(d) -> JobRecords]
  BY <1>4, <1>6
<1>8. \A e \in Drivers : Files(e)' = Files(e)
  BY <1>1 DEF Files
<1>9. JobsOK'
  BY <1>4, <1>5, <1>7, <1>8 DEF JobsOK
<1>10. \A i \in Files(d) : \/ job'[d][i] = job[d][i]
                           \/ job[d][i].at = "queued" /\ job'[d][i].at = "given up"
  <2>1. \A i \in Files(d) : after[i] = IF i \in some THEN Job("given up", FALSE, Empty) ELSE job[d][i]
    OBVIOUS
  <2>2. Job("given up", FALSE, Empty).at = "given up" /\ \A i \in some : job[d][i].at = "queued"
    BY DEF Job
  <2> HIDE DEF after
  <2>3. QED
    BY <1>5, <2>1, <2>2
<1>11. QED
  BY <1>1, <1>2, <1>5, <1>9, <1>10 DEF Local, TypeOK, ArgsOK, Arguments, DiskOK

\* What is linked is made of contents.
LEMMA LinkedIs ==
  ASSUME TypeOK, NEW d \in Drivers
  PROVE  /\ Given(d) \in Seq(Contents) /\ Len(Given(d)) = Len(args[d].objects)
         /\ Made(d) \in Seq(Contents) /\ Len(Made(d)) = Len(args[d].files)
         /\ \A i \in Files(d) : Made(d)[i] = Read(get_file(d, i, "assemble"))
<1>1. /\ args[d].objects \in Seq(Inputs) /\ Len(args[d].objects) \in Nat /\ Len(args[d].files) \in Nat
  BY ArgumentsOf DEF TypeOK
<1>2. \A k \in 1..Len(args[d].objects) : Content(<<args[d].objects[k]>>, << >>) \in Contents
  <2> SUFFICES ASSUME NEW k \in 1..Len(args[d].objects)
               PROVE  Content(<<args[d].objects[k]>>, << >>) \in Contents
    OBVIOUS
  <2>1. args[d].objects[k] \in Inputs
    BY <1>1
  <2>2. QED
    BY <2>1 DEF Content, Contents
<1>3. \A p : Read(p) \in Contents
  BY DEF Read, TypeOK, DiskOK, Empty, Content, Contents
<1>4. Given(d) \in Seq(Contents) /\ Len(Given(d)) = Len(args[d].objects)
  BY <1>1, <1>2 DEF Given
<1>5. Made(d) \in Seq(Contents) /\ Len(Made(d)) = Len(args[d].files)
  BY <1>1, <1>3 DEF Made, Files
<1>6. QED
  BY <1>4, <1>5 DEF Made

LEMMA LinkLocal ==
  ASSUME TypeOK, NEW d \in Drivers, Link(d)
  PROVE  TypeOK' /\ Local(d)
<1>1. UNCHANGED <<args, job, dirs, disk>> /\ (out' = [out EXCEPT ![d] = Given(d) \o Made(d)] \/ UNCHANGED out)
  BY DEF Link
<1>2. main' \in [Drivers -> Phases] /\ \A e \in Drivers \ {d} : main'[e] = main[e]
  BY MainGoes DEF Link, Phases
<1>3. Given(d) \o Made(d) \in Seq(Contents)
  BY LinkedIs
<1>4. out' \in [Drivers -> Seq(Contents)] /\ \A e \in Drivers \ {d} : out'[e] = out[e]
  BY <1>1, <1>3 DEF TypeOK
<1>5. QED
  BY <1>1, <1>2, <1>4 DEF Local, TypeOK, ArgsOK, Arguments, JobsOK, DiskOK, Files

\* A tool writes a temporary file of its own.
LEMMA OwnFile ==
  ASSUME NEW d \in Drivers, NEW i \in Files(d), job[d][i].at \in ToolNames
  PROVE  get_file(d, i, job[d][i].at) \in TempFiles(d, i)
BY ToolsAreNames DEF TempFiles

LEMMA TakeLocal ==
  ASSUME TypeOK, NEW d \in Drivers, NEW i \in Files(d), TakeFile(d, i)
  PROVE  TypeOK' /\ Local(d)
<1>1. Job("compile", FALSE, Empty) \in JobRecords
  BY DEF Job, JobRecords, Stages, ToolNames, Empty, Content, Contents
<1>2. JobsOK' /\ \A e \in Drivers \ {d} : job'[e] = job[e]
  BY <1>1, OneJob DEF TakeFile
<1>3. QED
  BY <1>2 DEF TakeFile, Local, TypeOK, ArgsOK, Arguments, DiskOK

LEMMA StartsLocal ==
  ASSUME TypeOK, NEW d \in Drivers, NEW i \in Files(d), ToolStarts(d, i)
  PROVE  TypeOK' /\ Local(d)
<1> DEFINE tool == job[d][i].at
<1>1. PICK j \in {Job(tool, TRUE, Input(d, i)), Job("failed", FALSE, Empty)} : Set(d, i, j)
  BY DEF ToolStarts
<1>2. i \in Busy(d) /\ tool \in ToolNames
  BY DEF ToolStarts, Busy, ToolNames
<1>3. j \in JobRecords
  <2>1. Input(d, i) \in Contents /\ Empty \in Contents
    BY <1>2, ReadIsContent
  <2>2. Job(tool, TRUE, Input(d, i)) \in JobRecords /\ Job("failed", FALSE, Empty) \in JobRecords
    BY <1>2, <2>1, JobIsRecord DEF Stages
  <2>3. QED
    BY <2>2
<1>4. JobsOK' /\ \A e \in Drivers \ {d} : job'[e] = job[e]
  BY <1>1, <1>3, OneJob DEF ToolStarts
<1>5. disk' = disk \/ disk' = Written(get_file(d, i, tool), Empty)
  BY DEF ToolStarts
<1>6. DiskOK' /\ \A p \in DOMAIN disk' : (\A m \in Files(d) : p \notin TempFiles(d, m)) =>
                                           p \in DOMAIN disk /\ disk'[p] = disk[p]
  <2> DEFINE path == get_file(d, i, tool)
  <2>1. path \in TempFiles(d, i)
    BY <1>2, OwnFile
  <2>2. DiskOK /\ Empty \in Contents
    BY <1>2, ReadIsContent DEF TypeOK
  <2> HIDE DEF path
  <2>3. CASE disk' = disk
    BY <2>2, <2>3 DEF DiskOK
  <2>4. CASE disk' = Written(path, Empty)
    <3>1. /\ DiskOK' /\ DOMAIN disk' = DOMAIN disk \cup {path}
          /\ \A q \in DOMAIN disk \ {path} : disk'[q] = disk[q]
      BY <2>2, <2>4, WrittenIsDisk
    <3>2. QED
      BY <2>1, <3>1
  <2>5. QED
    BY <1>5, <2>3, <2>4 DEF path
<1>7. QED
  BY <1>4, <1>6 DEF ToolStarts, Local, TypeOK, ArgsOK, Arguments

LEMMA EndsLocal ==
  ASSUME TypeOK, NEW d \in Drivers, NEW i \in Files(d), ToolEnds(d, i)
  PROVE  TypeOK' /\ Local(d)
<1> DEFINE tool == job[d][i].at
<1>1. i \in Busy(d) /\ tool \in ToolNames
  BY DEF ToolEnds, Busy, ToolNames
<1>2. PICK j \in {Job(at, FALSE, Empty) : at \in {"failed", "built"} \cup ToolNames} : Set(d, i, j)
  BY <1>1, ToolOrder DEF ToolEnds, ToolNames
<1>3. j \in JobRecords
  <2>1. Empty \in Contents
    BY <1>1, ReadIsContent
  <2>2. \A at \in {"failed", "built"} \cup ToolNames : Job(at, FALSE, Empty) \in JobRecords
    BY <2>1, JobIsRecord DEF Stages
  <2>3. QED
    BY <2>2
<1>4. JobsOK' /\ \A e \in Drivers \ {d} : job'[e] = job[e]
  BY <1>2, <1>3, OneJob DEF ToolEnds
<1>5. disk' = disk \/ disk' = Written(get_file(d, i, tool), Result(d, i))
  BY DEF ToolEnds, Result
<1>6. DiskOK' /\ \A p \in DOMAIN disk' : (\A m \in Files(d) : p \notin TempFiles(d, m)) =>
                                           p \in DOMAIN disk /\ disk'[p] = disk[p]
  <2> DEFINE path == get_file(d, i, tool)
  <2>1. path \in TempFiles(d, i)
    BY <1>1, OwnFile
  <2>2. DiskOK /\ Result(d, i) \in Contents
    BY <1>1, ResultIsContent DEF TypeOK
  <2> HIDE DEF path
  <2>3. CASE disk' = disk
    BY <2>2, <2>3 DEF DiskOK
  <2>4. CASE disk' = Written(path, Result(d, i))
    <3>1. /\ DiskOK' /\ DOMAIN disk' = DOMAIN disk \cup {path}
          /\ \A q \in DOMAIN disk \ {path} : disk'[q] = disk[q]
      BY <2>2, <2>4, WrittenIsDisk
    <3>2. QED
      BY <2>1, <3>1
  <2>5. QED
    BY <1>5, <2>3, <2>4 DEF path
<1>7. out' = out \/ out' = [out EXCEPT ![d] = <<Result(d, i)>>]
  BY DEF ToolEnds, Result
<1>8. out' \in [Drivers -> Seq(Contents)] /\ \A e \in Drivers \ {d} : out'[e] = out[e]
  <2>1. <<Result(d, i)>> \in Seq(Contents)
    BY <1>1, ResultIsContent
  <2>2. QED
    BY <1>7, <2>1 DEF TypeOK
<1>9. QED
  BY <1>4, <1>6, <1>8 DEF ToolEnds, Local, TypeOK, ArgsOK, Arguments

LEMMA StepLocal ==
  ASSUME TypeOK, NEW d \in Drivers, Work(d) \/ Main(d)
  PROVE  TypeOK' /\ Local(d)
BY MainLocal, RemoveLocal, FailsLocal, LinkLocal, TakeLocal, StartsLocal, EndsLocal DEF Work, Main
-----------------------------------------------------------------------------
(* The invariant of a driver holds through the steps of the others.        *)

\* What is said of the arguments alone does not change.
LEMMA ArgsKeep ==
  ASSUME args' = args, NEW d
  PROVE  /\ Files(d)' = Files(d) /\ TempDir(d)' = TempDir(d) /\ Given(d)' = Given(d)
         /\ \A i : Asked(d, i)' = Asked(d, i) /\ TempFiles(d, i)' = TempFiles(d, i)
         /\ \A i, tool : get_file(d, i, tool)' = get_file(d, i, tool)
         /\ \A i, k : Right(d, i, k)' = Right(d, i, k)
         /\ Alone(d)' = Alone(d) /\ \A i : NamesApart(d, i)' = NamesApart(d, i)
BY DEF Files, TempDir, Given, Asked, get_file, Right, Alone, NamesApart, TempFiles

\* What was said of a file stays as long as its temporary files and its job do, or the job
\* begins or is over.
LEMMA FileKeeps ==
  ASSUME args' = args, NEW d \in Drivers, NEW i \in Files(d), FileRight(d, i), InputRight(d, i),
         \/ job'[d][i] = job[d][i]
         \/ job'[d][i].at \notin ToolNames
         \/ job'[d][i].at = "compile" /\ ~job'[d][i].running,
         \A k \in 1..3 : get_file(d, i, Tools[k]) \in DOMAIN disk' =>
           /\ get_file(d, i, Tools[k]) \in DOMAIN disk
           /\ disk'[get_file(d, i, Tools[k])] = disk[get_file(d, i, Tools[k])]
  PROVE  FileRight(d, i)' /\ InputRight(d, i)'
<1>1. \A l \in 1..3 : job'[d][i].at = Tools[l] => job'[d][i] = job[d][i] \/ (l = 1 /\ ~job'[d][i].running)
  BY ToolsAreNames, ToolOrder
<1>2. FileRight(d, i)'
  <2> SUFFICES ASSUME NEW k \in 1..3, get_file(d, i, Tools[k]) \in DOMAIN disk'
               PROVE  /\ disk'[get_file(d, i, Tools[k])] \in {Empty, Right(d, i, k)}
                      /\ (\E l \in 1..3 : k < l /\ job'[d][i].at = Tools[l]) =>
                           disk'[get_file(d, i, Tools[k])] = Right(d, i, k)
    BY ArgsKeep DEF FileRight, Empty, Content
  <2>1. /\ disk[get_file(d, i, Tools[k])] \in {Empty, Right(d, i, k)}
        /\ (\E l \in 1..3 : k < l /\ job[d][i].at = Tools[l]) =>
             disk[get_file(d, i, Tools[k])] = Right(d, i, k)
    BY DEF FileRight
  <2>2. (\E l \in 1..3 : k < l /\ job'[d][i].at = Tools[l]) => \E l \in 1..3 : k < l /\ job[d][i].at = Tools[l]
    BY <1>1
  <2>3. QED
    BY <2>1, <2>2
<1>3. InputRight(d, i)'
  BY <1>1, ArgsKeep DEF InputRight
<1>4. QED
  BY <1>2, <1>3

LEMMA DeliveredKeeps ==
  ASSUME args' = args, NEW d \in Drivers, out'[d] = out[d]
  PROVE  Delivered(d)' <=> Delivered(d)
BY ArgsKeep DEF Delivered

\* Files that stay, begin, or leave the tools are not past the last one.
LEMMA NotPastKeeps ==
  ASSUME NEW d \in Drivers, NotPast(d), args' = args,
         \A i \in Files(d) : \/ job'[d][i].at = job[d][i].at
                             \/ job'[d][i].at \notin ToolNames
                             \/ job'[d][i].at = "compile"
  PROVE  NotPast(d)'
<1> SUFFICES ASSUME NEW i \in Files(d), NEW k \in 1..3, NEW l \in 1..3,
                    job'[d][i].at = Tools[k], args[d].stop = Tools[l]
             PROVE  k <= l
  BY ArgsKeep DEF NotPast
<1>1. CASE job'[d][i].at = job[d][i].at
  BY <1>1 DEF NotPast
<1>2. CASE job'[d][i].at \notin ToolNames
  BY <1>2, ToolsAreNames
<1>3. CASE job'[d][i].at = "compile"
  <2>1. Tools[1] = "compile"
    BY DEF Tools
  <2>2. \A m \in 1..3 : Tools[m] = Tools[1] => m = 1
    BY ToolsAreNames
  <2>3. k = 1
    BY <1>3, <2>1, <2>2
  <2>4. QED
    BY <2>3
<1>4. QED
  BY <1>1, <1>2, <1>3

LEMMA OthersKeep ==
  ASSUME NEW d \in Drivers, NEW e \in Drivers \ {d}, Local(d), Guarded(e)
  PROVE  Guarded(e)'
<1>1. args' = args /\ main'[e] = main[e] /\ job'[e] = job[e] /\ out'[e] = out[e]
  BY DEF Local
<1>2. StagesFit(e)'
  BY <1>1, ArgsKeep DEF Guarded, StagesFit, Busy
<1>3. Alone(e) => TempDir(e) # TempDir(d)
  BY DEF Alone
<1>4. DirGone(e)'
  BY <1>1, <1>3, ArgsKeep DEF Guarded, DirGone, Local
<1>5. ASSUME NEW i \in Files(e), NamesApart(e, i)
      PROVE  FileRight(e, i)' /\ InputRight(e, i)'
  <2>1. \A j \in Files(d), k \in 1..3 : get_file(e, i, Tools[k]) \notin TempFiles(d, j)
    BY <1>5, NamesOfOthers
  <2>2. FileRight(e, i) /\ InputRight(e, i)
    BY <1>5 DEF Guarded
  <2>3. QED
    BY <1>1, <2>1, <2>2, FileKeeps DEF Local
<1>out. OutRight(e)'
  BY <1>1, ArgsKeep, DeliveredKeeps DEF Guarded, OutRight
<1>6. NotPast(e)'
  BY <1>1, NotPastKeeps DEF Guarded
<1>7. QED
  BY <1>1, <1>2, <1>4, <1>5, <1>out, <1>6, ArgsKeep DEF Guarded
-----------------------------------------------------------------------------
(* Its own steps.                                                          *)

\* A step of the main function that lets the files be.
LEMMA MainSteps ==
  ASSUME TypeOK, NEW d \in Drivers, Guarded(d),
         \/ TempDirExists(d) \/ MakeTempDir(d) \/ RemoveTempDir(d) \/ BuildDone(d)
         \/ PoolShutdown(d) \/ KeepTempDir(d)
  PROVE  Guarded(d)'
<1>1. args' = args /\ job' = job /\ out' = out
  BY DEF TempDirExists, MakeTempDir, RemoveTempDir, BuildDone, PoolShutdown, KeepTempDir
<1>2. main'[d] \in Phases /\ \A f, t : Goes(d, f, t) => main[d] = f /\ main'[d] = t
  <2>1. \A f, t : Goes(d, f, t) => main[d] = f /\ main'[d] = t
    BY DEF TypeOK, Goes
  <2>2. QED
    BY <2>1, StepLocal DEF Main, TypeOK
<1>3. StagesFit(d)'
  <2>0. /\ Busy(d)' = Busy(d)
        /\ (\A i \in Files(d) : job[d][i].at = "queued") => Busy(d) = {}
        /\ (\A i \in Files(d) : job[d][i].at = "built") => Busy(d) = {}
    BY <1>1, ArgsKeep DEF Busy
  <2>1. CASE TempDirExists(d)
    BY <1>1, <1>2, <2>1, ArgsKeep DEF TempDirExists, Guarded, StagesFit, Succeeding
  <2>2. CASE MakeTempDir(d)
    <3>1. main[d] = "make" /\ main'[d] \in {"build", "exit1"}
      BY <1>2, <2>2 DEF MakeTempDir
    <3>2. QED
      BY <1>1, <2>0, <3>1, ArgsKeep DEF Guarded, StagesFit, Succeeding
  <2>3. CASE RemoveTempDir(d)
    <3>1. \/ main[d] = "clear" /\ main'[d] \in {"make", "exit1"}
          \/ main[d] = "cleanup" /\ main'[d] \in {"exit0", "exit1"}
      BY <1>2, <2>3 DEF RemoveTempDir
    <3>2. QED
      BY <1>1, <2>0, <3>1, ArgsKeep DEF Guarded, StagesFit, Succeeding
  <2>4. CASE BuildDone(d)
    BY <1>1, <1>2, <2>4, ArgsKeep DEF BuildDone, AllBuilt, Guarded, StagesFit, Succeeding
  <2>5. CASE PoolShutdown(d)
    <3>1. main[d] = "drain" /\ main'[d] = "exit1" /\ Busy(d) = {}
      BY <1>2, <2>5 DEF PoolShutdown
    <3>2. QED
      BY <1>1, <2>0, <3>1, ArgsKeep DEF Guarded, StagesFit, Succeeding
  <2>6. CASE KeepTempDir(d)
    BY <1>1, <1>2, <2>6, ArgsKeep DEF KeepTempDir, Guarded, StagesFit, Succeeding
  <2>7. QED
    BY <2>1, <2>2, <2>3, <2>4, <2>5, <2>6
<1>4. DirGone(d)'
  <2>1. CASE RemoveTempDir(d)
    BY <1>1, <2>1, ArgsKeep DEF RemoveTempDir, Remove, DirGone
  <2>2. CASE KeepTempDir(d)
    BY <1>1, <1>2, <2>2, ArgsKeep DEF KeepTempDir, DirGone
  <2>3. CASE TempDirExists(d) \/ MakeTempDir(d) \/ BuildDone(d) \/ PoolShutdown(d)
    BY <1>1, <1>2, <2>3, ArgsKeep DEF TempDirExists, MakeTempDir, BuildDone, PoolShutdown, DirGone
  <2>4. QED
    BY <2>1, <2>2, <2>3
<1>5. ASSUME NEW i \in Files(d), NamesApart(d, i)
      PROVE  FileRight(d, i)' /\ InputRight(d, i)'
  <2>1. \A p \in DOMAIN disk' : p \in DOMAIN disk /\ disk'[p] = disk[p]
    BY DEF TempDirExists, MakeTempDir, RemoveTempDir, Remove, BuildDone, PoolShutdown, KeepTempDir
  <2>2. QED
    BY <1>1, <1>5, <2>1, FileKeeps DEF Guarded
<1>out. OutRight(d)'
  <2>1. args[d].stop = "link" /\ main'[d] \in {"remove", "cleanup", "exit0"} =>
          main[d] \in {"remove", "cleanup", "exit0"}
    BY <1>2 DEF TempDirExists, MakeTempDir, RemoveTempDir, BuildDone, PoolShutdown, KeepTempDir
  <2>2. QED
    BY <1>1, <2>1, ArgsKeep, DeliveredKeeps DEF Guarded, OutRight
<1>6. NotPast(d)'
  BY <1>1, NotPastKeeps DEF Guarded
<1>7. QED
  BY <1>1, <1>3, <1>4, <1>5, <1>out, <1>6, ArgsKeep DEF Guarded

\* The failure of a file leads the main function away from linking.
LEMMA FailsStep ==
  ASSUME TypeOK, NEW d \in Drivers, Guarded(d), BuildFails(d)
  PROVE  Guarded(d)'
<1>1. args' = args /\ disk' = disk /\ dirs' = dirs /\ out' = out
  BY DEF BuildFails
<1>2. main[d] = "build" /\ main'[d] = "drain"
  BY DEF BuildFails, Goes, TypeOK
<1>3. \A i \in Files(d) : \/ job'[d][i] = job[d][i]
                          \/ job[d][i].at = "queued" /\ job'[d][i].at = "given up"
  BY FailsLocal
<1>4. StagesFit(d)'
  BY <1>1, <1>2, ArgsKeep DEF StagesFit, Succeeding
<1>5. DirGone(d)'
  BY <1>2 DEF DirGone
<1>6. ASSUME NEW i \in Files(d), NamesApart(d, i)
      PROVE  FileRight(d, i)' /\ InputRight(d, i)'
  <2>1. job'[d][i] = job[d][i] \/ job'[d][i].at \notin ToolNames
    BY <1>3 DEF ToolNames
  <2>2. QED
    BY <1>1, <1>6, <2>1, FileKeeps DEF Guarded
<1>out. OutRight(d)'
  <2>1. ~ \A i \in Files(d) : job'[d][i].at = "built"
    <3>1. PICK i \in Files(d) : job[d][i].at = "failed"
      BY DEF BuildFails, FirstFailure
    <3>2. QED
      BY <1>3, <3>1
  <2>2. QED
    BY <1>1, <1>2, <2>1, ArgsKeep DEF OutRight
<1>7. NotPast(d)'
  BY <1>1, <1>3, NotPastKeeps DEF Guarded, ToolNames
<1>8. QED
  BY <1>1, <1>4, <1>5, <1>6, <1>out, <1>7, ArgsKeep DEF Guarded

\* What the linker reads is right, because it is not empty.
LEMMA LinkStep ==
  ASSUME TypeOK, NEW d \in Drivers, Guarded(d), Link(d)
  PROVE  Guarded(d)'
<1>1. args' = args /\ job' = job /\ disk' = disk /\ dirs' = dirs
  BY DEF Link
<1>2. /\ main[d] = "link"
      /\ \/ /\ main'[d] = "remove" /\ \A i \in Files(d) : Made(d)[i] # Empty
            /\ out' = [out EXCEPT ![d] = Given(d) \o Made(d)]
         \/ main'[d] = "exit1" /\ out' = out
  BY DEF Link, Goes, TypeOK
<1>3. args[d].stop = "link" /\ \A i \in Files(d) : job[d][i].at = "built"
  BY <1>2 DEF Guarded, StagesFit, Succeeding
<1>4. StagesFit(d)'
  BY <1>1, <1>2, <1>3, ArgsKeep DEF Guarded, StagesFit, Busy, Succeeding
<1>5. DirGone(d)'
  BY <1>2 DEF DirGone
<1>6. ASSUME NEW i \in Files(d), NamesApart(d, i)
      PROVE  FileRight(d, i)' /\ InputRight(d, i)'
  BY <1>1, <1>6, FileKeeps DEF Guarded
<1>7. ASSUME NEW i \in Files(d), NamesApart(d, i), Made(d)[i] # Empty
      PROVE  Made(d)[i] = Asked(d, i)
  <2>1. FileRight(d, i)
    BY <1>7 DEF Guarded
  <2>2. Made(d)[i] = Read(get_file(d, i, Tools[3]))
    BY LinkedIs, ToolOrder
  <2>3. Made(d)[i] = Right(d, i, 3)
    BY <1>7, <2>1, <2>2 DEF FileRight, Read
  <2>4. QED
    BY <1>3, <2>3, AskedIsRight DEF TypeOK
<1>8. ASSUME main'[d] = "remove"
      PROVE  Delivered(d)'
  <2> DEFINE g == Given(d)
             m == Made(d)
             n == Len(args[d].objects)
             l == Len(args[d].files)
  <2>1. /\ out'[d] = g \o m /\ g \in Seq(Contents) /\ m \in Seq(Contents) /\ Len(g) = n /\ Len(m) = l
        /\ n \in Nat /\ l \in Nat
    BY <1>2, <1>8, LinkedIs, ArgumentsOf DEF TypeOK
  <2>2. /\ Len(g \o m) = n + l /\ \A k \in 1..n : (g \o m)[k] = g[k]
        /\ \A i \in 1..l : (g \o m)[n + i] = m[i]
    <3> HIDE DEF g, m, n, l
    <3>1. /\ Len(g \o m) = n + l
          /\ \A k \in 1..n + l : (g \o m)[k] = IF k <= n THEN g[k] ELSE m[k - n]
      BY <2>1, ConcatProperties
    <3>2. ASSUME NEW k \in 1..n
          PROVE  (g \o m)[k] = g[k]
      BY <2>1, <3>1
    <3>3. ASSUME NEW i \in 1..l
          PROVE  (g \o m)[n + i] = m[i]
      <4>1. n + i \in 1..n + l /\ ~(n + i <= n) /\ (n + i) - n = i
        BY <2>1
      <4>2. QED
        BY <3>1, <4>1
    <3>4. QED
      BY <3>1, <3>2, <3>3
  <2>3. \A i \in Files(d) : NamesApart(d, i) => m[i] = Asked(d, i)
    BY <1>2, <1>7, <1>8
  <2>4. Len(out'[d]) = n + l /\ \A k \in 1..n : out'[d][k] = g[k]
    BY <2>1, <2>2
  <2>5. \A i \in Files(d) : NamesApart(d, i) => out'[d][n + i] = Asked(d, i)
    BY <2>1, <2>2, <2>3 DEF Files
  <2> HIDE DEF m
  <2>6. QED
    BY <1>1, <2>4, <2>5, ArgsKeep DEF Delivered
<1>out. OutRight(d)'
  BY <1>1, <1>2, <1>3, <1>8, ArgsKeep DEF OutRight
<1>9. NotPast(d)'
  BY <1>1, NotPastKeeps DEF Guarded
<1>10. QED
  BY <1>1, <1>4, <1>5, <1>6, <1>out, <1>9, ArgsKeep DEF Guarded

LEMMA TakeStep ==
  ASSUME TypeOK, NEW d \in Drivers, Guarded(d), NEW i \in Files(d), TakeFile(d, i)
  PROVE  Guarded(d)'
<1>1. /\ args' = args /\ main' = main /\ disk' = disk /\ dirs' = dirs /\ out' = out
      /\ main[d] \in {"build", "drain"}
  BY DEF TakeFile
<1>2. /\ job'[d][i].at = "compile" /\ ~job'[d][i].running
      /\ \A k \in Files(d) \ {i} : job'[d][k] = job[d][k]
  <2>1. Set(d, i, Job("compile", FALSE, Empty))
    BY DEF TakeFile
  <2>2. job'[d][i] = Job("compile", FALSE, Empty) /\ \A k \in Files(d) \ {i} : job'[d][k] = job[d][k]
    BY <2>1, JobSet
  <2>3. QED
    BY <2>2 DEF Job
<1>3. StagesFit(d)'
  BY <1>1, ArgsKeep DEF StagesFit, Succeeding
<1>4. DirGone(d)'
  BY <1>1 DEF DirGone
<1>5. ASSUME NEW j \in Files(d), NamesApart(d, j)
      PROVE  FileRight(d, j)' /\ InputRight(d, j)'
  <2>1. job'[d][j] = job[d][j] \/ (job'[d][j].at = "compile" /\ ~job'[d][j].running)
    BY <1>2
  <2>2. QED
    BY <1>1, <1>5, <2>1, FileKeeps DEF Guarded
<1>out. OutRight(d)'
  BY <1>1, <1>2, ArgsKeep DEF OutRight
<1>6. NotPast(d)'
  BY <1>1, <1>2, NotPastKeeps DEF Guarded
<1>7. QED
  BY <1>1, <1>3, <1>4, <1>5, <1>out, <1>6, ArgsKeep DEF Guarded

\* While a tool is at a file the main function waits for the pool.
LEMMA BusyWaits ==
  ASSUME TypeOK, NEW d \in Drivers, StagesFit(d), NEW i \in Busy(d)
  PROVE  main[d] \in {"build", "drain"}
<1>1. i \in Files(d) /\ job[d][i].at \notin {"queued", "built"}
  BY DEF Busy
<1>2. main[d] \in Phases
  BY DEF TypeOK
<1>3. QED
  BY <1>1, <1>2 DEF StagesFit, Succeeding, Phases

\* A tool whose input is there finds what the tools before it made.
LEMMA InputIsRight ==
  ASSUME TypeOK, NEW d \in Drivers, NEW i \in Files(d), FileRight(d, i), NEW k \in 1..3,
         job[d][i].at = Tools[k],
         job[d][i].at # "compile" => get_file(d, i, Before(job[d][i].at)) \in DOMAIN disk
  PROVE  Input(d, i) = Right(d, i, k - 1)
<1>1. CASE k = 1
  <2>1. job[d][i].at = "compile"
    BY <1>1, ToolOrder
  <2>2. Right(d, i, k - 1) = Content(<<args[d].files[i]>>, << >>)
    <3>1. k - 1 = 0 /\ SubSeq(Tools, 1, 0) = << >>
      BY <1>1, ToolOrder
    <3>2. QED
      BY <3>1 DEF Right
  <2>3. QED
    BY <2>1, <2>2 DEF Input
<1>2. CASE k # 1
  <2>1. /\ job[d][i].at # "compile" /\ k - 1 \in 1..3
        /\ Before(job[d][i].at) = Tools[k - 1]
    BY <1>2, ToolOrder
  <2>2. Input(d, i) = Read(get_file(d, i, Tools[k - 1]))
    BY <2>1 DEF Input
  <2>3. get_file(d, i, Tools[k - 1]) \in DOMAIN disk
    BY <2>1
  <2>4. disk[get_file(d, i, Tools[k - 1])] = Right(d, i, k - 1)
    <3> DEFINE m == k - 1
    <3>1. m \in 1..3 /\ m < k /\ get_file(d, i, Tools[m]) \in DOMAIN disk
      BY <2>1, <2>3
    <3> HIDE DEF m
    <3>2. disk[get_file(d, i, Tools[m])] = Right(d, i, m)
      BY <3>1 DEF FileRight
    <3>3. QED
      BY <3>2 DEF m
  <2>5. QED
    BY <2>2, <2>3, <2>4 DEF Read
<1>3. QED
  BY <1>1, <1>2

LEMMA StartsStep ==
  ASSUME TypeOK, NEW d \in Drivers, Guarded(d), NEW i \in Files(d), ToolStarts(d, i)
  PROVE  Guarded(d)'
<1> DEFINE tool == job[d][i].at
           ok == /\ tool # "compile" => get_file(d, i, Before(tool)) \in DOMAIN disk
                 /\ ToOutput(d, tool) \/ TempDir(d) \in dirs
           after == IF ok THEN Job(tool, TRUE, Input(d, i)) ELSE Job("failed", FALSE, Empty)
<1>1. /\ args' = args /\ main' = main /\ dirs' = dirs /\ out' = out
      /\ disk' = disk \/ disk' = Written(get_file(d, i, tool), Empty)
  BY DEF ToolStarts
<1>2. i \in Busy(d) /\ tool \in ToolNames
  BY DEF ToolStarts, Busy, ToolNames
<1>3. main[d] \in {"build", "drain"}
  BY <1>2, BusyWaits DEF Guarded
<1>4. /\ job'[d][i] = after
      /\ \A k \in Files(d) \ {i} : job'[d][k] = job[d][k]
  <2>1. Set(d, i, after)
    BY DEF ToolStarts
  <2> HIDE DEF after
  <2>2. QED
    BY <2>1, JobSet
<1>5. job'[d][i].at = tool \/ job'[d][i].at = "failed"
  BY <1>4 DEF Job
<1>6. StagesFit(d)'
  BY <1>1, <1>3, ArgsKeep DEF StagesFit, Succeeding
<1>7. DirGone(d)'
  BY <1>1, <1>3 DEF DirGone
<1>8. ASSUME NEW j \in Files(d), NamesApart(d, j)
      PROVE  FileRight(d, j)' /\ InputRight(d, j)'
  <2>1. FileRight(d, j) /\ InputRight(d, j)
    BY <1>8 DEF Guarded
  <2>2. CASE j # i
    <3>1. \A k \in 1..3 : get_file(d, j, Tools[k]) # get_file(d, i, tool)
      BY <1>2, <1>8, <2>2, NamesOfOthers, OwnFile
    <3>2. \A k \in 1..3 : get_file(d, j, Tools[k]) \in DOMAIN disk' =>
            /\ get_file(d, j, Tools[k]) \in DOMAIN disk
            /\ disk'[get_file(d, j, Tools[k])] = disk[get_file(d, j, Tools[k])]
      BY <1>1, <3>1 DEF Written
    <3>3. QED
      BY <1>1, <1>4, <2>1, <2>2, <3>2, FileKeeps
  <2>3. CASE j = i
    <3>1. PICK k \in 1..3 : tool = Tools[k]
      BY <1>2, ToolsAreNames
    <3>2. \A l \in 1..3 : job'[d][i].at = Tools[l] => l = k
      BY <1>5, <3>1, ToolsAreNames DEF ToolNames
    <3>3. FileRight(d, i)'
      <4> SUFFICES ASSUME NEW l \in 1..3, get_file(d, i, Tools[l]) \in DOMAIN disk'
                   PROVE  /\ disk'[get_file(d, i, Tools[l])] \in {Empty, Right(d, i, l)}
                          /\ l < k => disk'[get_file(d, i, Tools[l])] = Right(d, i, l)
        BY <1>1, <3>2, ArgsKeep DEF FileRight, Empty, Content
      <4> DEFINE p == get_file(d, i, Tools[l])
                 q == get_file(d, i, tool)
      <4>1. p = q => l = k
        BY <3>1, NamesOfTools DEF TypeOK
      <4>2. p \in DOMAIN disk => disk[p] \in {Empty, Right(d, i, l)} /\ (l < k => disk[p] = Right(d, i, l))
        BY <2>1, <2>3, <3>1 DEF FileRight
      <4> HIDE DEF p, q
      <4>3. \/ p = q /\ disk'[p] = Empty
            \/ p \in DOMAIN disk /\ disk'[p] = disk[p]
        BY <1>1 DEF p, q, Written
      <4>4. QED
        BY <4>1, <4>2, <4>3 DEF p
    <3>4. InputRight(d, i)'
      <4> SUFFICES ASSUME NEW l \in 1..3, job'[d][i].at = Tools[l], job'[d][i].running
                   PROVE  job'[d][i].input = Right(d, i, l - 1)
        BY <1>1, ArgsKeep DEF InputRight
      <4>1. ok /\ job'[d][i].at = tool /\ job'[d][i].input = Input(d, i)
        BY <1>4 DEF Job
      <4>2. QED
        BY <2>1, <2>3, <4>1, InputIsRight
    <3>5. QED
      BY <2>3, <3>3, <3>4
  <2>4. QED
    BY <2>2, <2>3
<1>out. OutRight(d)'
  <2>1. job'[d][i].at # "built"
    BY <1>2, <1>5 DEF ToolNames
  <2>2. QED
    BY <1>1, <1>2, <1>3, <2>1, ArgsKeep DEF OutRight, Busy
<1>9. NotPast(d)'
  BY <1>1, <1>4, <1>5, NotPastKeeps DEF Guarded, ToolNames
<1>10. QED
  BY <1>1, <1>6, <1>7, <1>8, <1>out, <1>9, ArgsKeep DEF Guarded

\* A tool makes the right thing of the right input.
LEMMA ResultIsRight ==
  ASSUME TypeOK, NEW d \in Drivers, NEW i \in Files(d), InputRight(d, i), job[d][i].running,
         NEW k \in 1..3, job[d][i].at = Tools[k]
  PROVE  Result(d, i) = Right(d, i, k)
<1>1. job[d][i].input = Content(<<args[d].files[i]>>, SubSeq(Tools, 1, k - 1))
  BY DEF InputRight, Right
<1>2. Append(SubSeq(Tools, 1, k - 1), Tools[k]) = SubSeq(Tools, 1, k)
  BY ToolOrder
<1>3. job[d][i].input.of = <<args[d].files[i]>> /\ job[d][i].input.by = SubSeq(Tools, 1, k - 1)
  BY <1>1 DEF Content
<1>4. QED
  BY <1>2, <1>3 DEF Result, Right

LEMMA EndsStep ==
  ASSUME TypeOK, NEW d \in Drivers, Guarded(d), NEW i \in Files(d), ToolEnds(d, i)
  PROVE  Guarded(d)'
<1> DEFINE tool == job[d][i].at
           path == get_file(d, i, tool)
<1>1. /\ args' = args /\ main' = main /\ dirs' = dirs /\ job[d][i].running
      /\ disk' = disk \/ disk' = Written(path, Result(d, i))
      /\ \A l \in 1..3 : Tools[l] = tool => get_file(d, i, Tools[l]) = path
  BY DEF ToolEnds, Result
<1>2. i \in Busy(d) /\ tool \in ToolNames
  BY DEF ToolEnds, Busy, ToolNames
<1>3. main[d] \in {"build", "drain"}
  BY <1>2, BusyWaits DEF Guarded
<1>4. PICK k \in 1..3 : tool = Tools[k]
  BY <1>2, ToolsAreNames
<1>5. PICK at \in {"failed", "built"} \cup ToolNames :
        /\ Set(d, i, Job(at, FALSE, Empty))
        /\ \/ at = "failed" /\ out' = out
           \/ at = "built" /\ ToOutput(d, tool) /\ out' = [out EXCEPT ![d] = <<Result(d, i)>>]
           \/ at = "built" /\ ~ToOutput(d, tool) /\ tool = "assemble" /\ out' = out
           \/ /\ at = After(tool) /\ ~ToOutput(d, tool) /\ tool # "assemble" /\ out' = out
              /\ disk' = Written(path, Result(d, i)) \/ path \notin DOMAIN disk \/ MadeByAnother(d, path)
  <2>1. tool # "assemble" => After(tool) \in ToolNames
    BY <1>2, ToolOrder DEF ToolNames
  <2>2. CASE Set(d, i, Job("failed", FALSE, Empty)) /\ out' = out
    BY <2>2
  <2>3. CASE /\ ToOutput(d, tool) /\ Set(d, i, Job("built", FALSE, Empty))
             /\ out' = [out EXCEPT ![d] = <<Result(d, i)>>]
    BY <2>3
  <2>4. CASE /\ ~ToOutput(d, tool) /\ out' = out
             /\ Set(d, i, Job(IF tool = "assemble" THEN "built" ELSE After(tool), FALSE, Empty))
             /\ disk' = Written(path, Result(d, i)) \/ path \notin DOMAIN disk \/ MadeByAnother(d, path)
    BY <2>1, <2>4
  <2>5. QED
    BY <2>2, <2>3, <2>4 DEF ToolEnds, Result
<1>6. /\ job'[d][i].at = at /\ ~job'[d][i].running
      /\ \A j \in Files(d) \ {i} : job'[d][j] = job[d][j]
  <2>1. job'[d][i] = Job(at, FALSE, Empty) /\ \A j \in Files(d) \ {i} : job'[d][j] = job[d][j]
    BY <1>5, JobSet
  <2>2. QED
    BY <2>1 DEF Job
<1>7. StagesFit(d)'
  BY <1>1, <1>3, ArgsKeep DEF StagesFit, Succeeding
<1>8. DirGone(d)'
  BY <1>1, <1>3 DEF DirGone
<1>9. ASSUME NEW j \in Files(d), NamesApart(d, j)
      PROVE  FileRight(d, j)' /\ InputRight(d, j)'
  <2>1. FileRight(d, j) /\ InputRight(d, j)
    BY <1>9 DEF Guarded
  <2>2. CASE j # i
    <3>1. \A l \in 1..3 : get_file(d, j, Tools[l]) # path
      BY <1>2, <1>9, <2>2, NamesOfOthers, OwnFile
    <3>2. \A l \in 1..3 : get_file(d, j, Tools[l]) \in DOMAIN disk' =>
            /\ get_file(d, j, Tools[l]) \in DOMAIN disk
            /\ disk'[get_file(d, j, Tools[l])] = disk[get_file(d, j, Tools[l])]
      BY <1>1, <3>1 DEF Written
    <3>3. QED
      BY <1>1, <1>6, <2>1, <2>2, <3>2, FileKeeps
  <2>3. CASE j = i
    <3>1. Result(d, i) = Right(d, i, k)
      BY <1>1, <1>4, <2>1, <2>3, ResultIsRight
    <3>2. ~MadeByAnother(d, path)
      <4>1. path \in TempFiles(d, i)
        BY <1>2, OwnFile
      <4>2. \A e \in Drivers \ {d} : \A m \in Files(e) : TempFiles(d, i) \cap TempFiles(e, m) = {}
        BY <1>9, <2>3 DEF NamesApart
      <4>3. \A e \in Drivers \ {d} : \A m \in Files(e), l \in 1..3 : get_file(e, m, Tools[l]) \in TempFiles(e, m)
        BY DEF TempFiles
      <4> HIDE DEF path
      <4>4. QED
        BY <4>1, <4>2, <4>3 DEF MadeByAnother
    <3>3. FileRight(d, i)'
      <4> SUFFICES ASSUME NEW l \in 1..3, get_file(d, i, Tools[l]) \in DOMAIN disk'
                   PROVE  /\ disk'[get_file(d, i, Tools[l])] \in {Empty, Right(d, i, l)}
                          /\ (\E m \in 1..3 : l < m /\ job'[d][i].at = Tools[m]) =>
                               disk'[get_file(d, i, Tools[l])] = Right(d, i, l)
        BY <1>1, ArgsKeep DEF FileRight, Empty, Content
      <4> DEFINE p == get_file(d, i, Tools[l])
      <4>1. p = path => l = k
        BY <1>4, NamesOfTools DEF TypeOK
      <4>2. p \in DOMAIN disk => disk[p] \in {Empty, Right(d, i, l)} /\ (l < k => disk[p] = Right(d, i, l))
        BY <1>4, <2>1, <2>3 DEF FileRight
      <4>3. l = k => p = path
        BY <1>4
      <4> HIDE DEF p, path
      <4>4. \/ p = path /\ disk'[p] = Result(d, i)
            \/ p \in DOMAIN disk /\ disk'[p] = disk[p]
        BY <1>1 DEF p, Written
      <4>5. disk'[p] \in {Empty, Right(d, i, l)}
        BY <3>1, <4>1, <4>2, <4>4
      <4>6. ASSUME NEW m \in 1..3, l < m, job'[d][i].at = Tools[m]
            PROVE  disk'[p] = Right(d, i, l)
        <5>1. at = Tools[m] /\ at \in ToolNames
          BY <1>6, <4>6, ToolsAreNames
        <5>2. /\ at = After(tool) /\ tool # "assemble"
              /\ disk' = Written(path, Result(d, i)) \/ path \notin DOMAIN disk
          BY <1>5, <3>2, <5>1 DEF ToolNames
        <5>3. k \in 1..2 /\ at = Tools[k + 1]
          BY <1>4, <5>2, ToolOrder
        <5>4. m = k + 1
          <6>1. k + 1 \in 1..3 /\ Tools[m] = Tools[k + 1]
            BY <5>1, <5>3
          <6> DEFINE next == k + 1
          <6> HIDE DEF next
          <6>2. next \in 1..3 /\ Tools[m] = Tools[next]
            BY <6>1 DEF next
          <6>3. m = next
            BY <6>2, ToolsAreNames
          <6>4. QED
            BY <6>3 DEF next
        <5>5. CASE l < k
          <6>1. p # path
            BY <4>1, <5>5
          <6>2. QED
            BY <4>2, <4>4, <5>5, <6>1
        <5>6. CASE l = k
          <6>1. p = path
            BY <4>3, <5>6
          <6>2. disk'[p] = Result(d, i)
            BY <4>4, <5>2, <6>1 DEF Written
          <6>3. QED
            BY <3>1, <5>6, <6>2
        <5>7. QED
          BY <4>6, <5>3, <5>4, <5>5, <5>6
      <4>7. QED
        BY <4>5, <4>6 DEF p
    <3>4. InputRight(d, i)'
      BY <1>1, <1>6, ArgsKeep DEF InputRight
    <3>5. QED
      BY <2>3, <3>3, <3>4
  <2>4. QED
    BY <2>2, <2>3
<1>out. OutRight(d)'
  <2> SUFFICES ASSUME args[d].stop # "link", \A j \in Files(d) : job'[d][j].at = "built"
               PROVE  Delivered(d)'
    BY <1>1, <1>3, ArgsKeep DEF OutRight
  <2>1. at = "built"
    BY <1>6
  <2>2. /\ Files(d) = {1} /\ Len(args[d].files) = 1 /\ Len(args[d].objects) = 0 /\ i = 1
    BY ArgumentsOf DEF TypeOK
  <2>3. CASE ToOutput(d, tool) /\ out' = [out EXCEPT ![d] = <<Result(d, i)>>]
    <3>1. args[d].stop = Tools[k]
      BY <1>4, <2>3 DEF ToOutput
    <3>2. out'[d] = <<Result(d, i)>>
      BY <2>3 DEF TypeOK
    <3>3. NamesApart(d, i) => Result(d, i) = Asked(d, i)
      BY <1>1, <1>4, <3>1, ResultIsRight, AskedIsRight DEF Guarded, TypeOK
    <3>4. Len(out'[d]) = 1 /\ out'[d][1] = Result(d, i)
      BY <3>2
    <3>5. QED
      BY <1>1, <2>2, <3>3, <3>4, ArgsKeep DEF Delivered
  <2>4. CASE ~ToOutput(d, tool) /\ tool = "assemble"
    <3>1. PICK l \in 1..3 : args[d].stop = Tools[l]
      <4>1. args[d].stop \in ToolNames
        BY ArgumentsOf DEF TypeOK
      <4>2. QED
        BY <4>1, ToolsAreNames
    <3>2. k = 3
      BY <1>4, <2>4 DEF Tools
    <3>3. k <= l
      BY <1>2, <1>4, <3>1 DEF Guarded, NotPast
    <3>4. l = k
      BY <3>2, <3>3
    <3>5. QED
      BY <1>4, <2>4, <3>1, <3>4 DEF ToOutput
  <2>5. CASE at = After(tool) /\ tool # "assemble"
    <3>1. at \in ToolNames
      BY <1>2, <2>5, ToolOrder DEF ToolNames
    <3>2. QED
      BY <2>1, <3>1 DEF ToolNames
  <2>6. QED
    BY <1>5, <2>1, <2>3, <2>4, <2>5
<1>10. NotPast(d)'
  <2>1. CASE at \in {"failed", "built"}
    BY <1>1, <1>6, <2>1, NotPastKeeps DEF Guarded, ToolNames
  <2>2. CASE at = After(tool) /\ ~ToOutput(d, tool) /\ tool # "assemble"
    <3>1. k \in 1..2 /\ at = Tools[k + 1]
      BY <1>4, <2>2, ToolOrder
    <3> SUFFICES ASSUME NEW j \in Files(d), NEW m \in 1..3, NEW l \in 1..3,
                        job'[d][j].at = Tools[m], args[d].stop = Tools[l]
                 PROVE  m <= l
      BY <1>1, ArgsKeep DEF NotPast
    <3>2. CASE j # i
      BY <1>6, <3>2 DEF Guarded, NotPast
    <3>3. CASE j = i
      <4>1. m = k + 1
        BY <1>6, <3>1, <3>3, ToolsAreNames
      <4>2. k <= l
        BY <1>4 DEF Guarded, NotPast
      <4>3. k # l
        BY <1>4, <2>2 DEF ToOutput
      <4>4. QED
        BY <4>1, <4>2, <4>3
    <3>4. QED
      BY <3>2, <3>3
  <2>3. QED
    BY <1>5, <2>1, <2>2
<1>11. QED
  BY <1>1, <1>7, <1>8, <1>9, <1>out, <1>10, ArgsKeep DEF Guarded
-----------------------------------------------------------------------------
(* The invariant, and what follows of it.                                  *)

LEMMA InitGuarded ==
  ASSUME Init, NEW d \in Drivers
  PROVE  Guarded(d)
<1>1. main[d] = "check" /\ dirs = {} /\ DOMAIN disk = {}
  BY DEF Init
<1>2. \A i \in Files(d) : job[d][i].at = "queued" /\ ~job[d][i].running
  BY DEF Init, Job
<1>3. StagesFit(d)
  BY <1>1, <1>2 DEF StagesFit, Succeeding
<1>4. \A i \in Files(d) : job[d][i].at \notin ToolNames
  BY <1>2 DEF ToolNames
<1>5. NotPast(d)
  BY <1>4, ToolsAreNames DEF NotPast
<1>6. DirGone(d) /\ \A i \in Files(d) : FileRight(d, i) /\ InputRight(d, i)
  BY <1>1, <1>2 DEF DirGone, FileRight, InputRight
<1>7. OutRight(d)
  <2>1. args[d].stop # "link" => 1 \in Files(d)
    BY InitTypeOK, ArgumentsOf DEF TypeOK
  <2>2. QED
    BY <1>1, <1>2, <2>1 DEF OutRight
<1>8. QED
  BY <1>3, <1>5, <1>6, <1>7 DEF Guarded

LEMMA OwnStep ==
  ASSUME TypeOK, NEW d \in Drivers, Guarded(d), Work(d) \/ Main(d)
  PROVE  Guarded(d)'
BY MainSteps, FailsStep, LinkStep, TakeStep, StartsStep, EndsStep DEF Work, Main

LEMMA Unchanged == ASSUME IInv, UNCHANGED vars PROVE IInv'
<1>1. TypeOK'
  BY DEF IInv, vars, TypeOK, ArgsOK, Arguments, JobsOK, DiskOK, Files
<1>2. ASSUME NEW d \in Drivers
      PROVE  Guarded(d)'
  <2>1. args' = args /\ main' = main /\ job' = job /\ dirs' = dirs /\ disk' = disk /\ out' = out
    BY DEF vars
  <2>2. StagesFit(d) /\ NotPast(d) /\ DirGone(d)
    BY DEF IInv, Guarded
  <2>3. StagesFit(d)'
    BY <2>1, <2>2, ArgsKeep DEF StagesFit, Busy
  <2>4. NotPast(d)' /\ DirGone(d)'
    BY <2>1, <2>2, ArgsKeep DEF NotPast, DirGone
  <2>5. ASSUME NEW i \in Files(d), NamesApart(d, i)
        PROVE  FileRight(d, i)' /\ InputRight(d, i)'
    BY <2>1, <2>5, FileKeeps DEF IInv, Guarded
  <2>6. OutRight(d)'
    BY <2>1, ArgsKeep, DeliveredKeeps DEF IInv, Guarded, OutRight
  <2>7. QED
    BY <2>1, <2>3, <2>4, <2>5, <2>6, ArgsKeep DEF Guarded
<1>3. QED
  BY <1>1, <1>2 DEF IInv

\* The invariant is inductive (driver.py:118-182).
THEOREM Inductive == Spec => []IInv
<1>1. Init => IInv
  BY InitTypeOK, InitGuarded DEF IInv
<1>2. IInv /\ [Next]_vars => IInv'
  <2> SUFFICES ASSUME IInv, [Next]_vars
               PROVE  IInv'
    OBVIOUS
  <2>1. CASE UNCHANGED vars
    BY <2>1, Unchanged
  <2>2. ASSUME NEW d \in Drivers, Work(d) \/ Main(d)
        PROVE  IInv'
    <3>1. TypeOK /\ \A e \in Drivers : Guarded(e)
      BY DEF IInv
    <3>2. TypeOK' /\ Local(d)
      BY <2>2, <3>1, StepLocal
    <3>3. Guarded(d)'
      BY <2>2, <3>1, OwnStep
    <3>4. \A e \in Drivers \ {d} : Guarded(e)'
      BY <3>1, <3>2, OthersKeep
    <3>5. QED
      BY <3>2, <3>3, <3>4 DEF IInv
  <2>3. QED
    BY <2>1, <2>2 DEF Next, Exit
<1>3. QED
  BY <1>1, <1>2, PTL DEF Spec

\* A driver that reports success has written the objects it was given and what was asked
\* for of every file whose temporary names are its own, whatever happens to the other files
\* and to its directory (driver.py:118-154, 165-182).
THEOREM SuccessIsRightHolds == Spec => []SuccessIsRight
<1>1. IInv => SuccessIsRight
  <2> SUFFICES ASSUME IInv, NEW d \in Drivers, main[d] = "exit0"
               PROVE  Delivered(d)
    BY DEF SuccessIsRight
  <2>1. OutRight(d) /\ \A i \in Files(d) : job[d][i].at = "built"
    BY DEF IInv, Guarded, StagesFit, Succeeding
  <2>2. QED
    BY <2>1 DEF OutRight
<1>2. QED
  BY <1>1, Inductive, PTL

\* A driver one of whose tools failed never links, and never reports success
\* (driver.py:176-182).
THEOREM FailureIsReportedHolds == Spec => []FailureIsReported
<1>1. IInv => FailureIsReported
  BY DEF IInv, Guarded, StagesFit, FailureIsReported
<1>2. QED
  BY <1>1, Inductive, PTL

\* A driver that has ended has no tool running; one that has succeeded has left no
\* directory, unless it was told to keep it or shares it (driver.py:157-182, 289-297).
THEOREM NothingLeftHolds == Spec => []NothingLeft
<1>1. IInv => NothingLeft
  <2> SUFFICES ASSUME IInv, NEW d \in Drivers
               PROVE  /\ main[d] \in Ended => Busy(d) = {}
                      /\ DirGone(d)
    BY DEF NothingLeft, DirGone
  <2>1. StagesFit(d) /\ DirGone(d)
    BY DEF IInv, Guarded
  <2>2. (\A i \in Files(d) : job[d][i].at = "built") => Busy(d) = {}
    BY DEF Busy
  <2>3. QED
    BY <2>1, <2>2 DEF StagesFit, Succeeding, Ended
<1>2. QED
  BY <1>1, Inductive, PTL
=============================================================================
