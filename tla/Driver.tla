-------------------------------- MODULE Driver --------------------------------
(***************************************************************************)
(* The driver, src/src/tool/driver/driver.py: it compiles, optimizes and   *)
(* assembles every source file in a pool of worker processes, through      *)
(* files in a temporary directory, and links the objects, after those it   *)
(* was given.  Several drivers run at once and may be given the same       *)
(* temporary directory; their outputs are files of their own.              *)
(*                                                                         *)
(* A base name is a sequence of parts, so that the names the driver makes  *)
(* of it (x + -opt.ll) can be those it makes of another (x-opt + .ll).     *)
(* The content of a file says what it was made of and by which tools; a    *)
(* tool reads its input when it starts, opens its output, and writes it at *)
(* the end; of a file that was opened only it makes something of nothing.  *)
(***************************************************************************)
EXTENDS Naturals, Sequences, FiniteSets

CONSTANTS Drivers,   \* the invocations
          Sources,   \* source files: [dir, base]
          Objects,   \* object files, likewise; none is in a temporary directory
          MaxFiles,  \* bound on the source files of an invocation
          MaxObjects, \* bound on its object files
          Jobs,      \* worker processes of an invocation
          TempNames, \* values of --temp-dir-name, none where it is not given
          Keep       \* values of --keep-temp-dir

ASSUME DriverAssumption ==
  /\ Sources \cup Objects \subseteq [dir : STRING, base : Seq(STRING)]
  /\ MaxFiles \in Nat /\ MaxObjects \in Nat /\ Jobs \in Nat \ {0}
  /\ Keep \subseteq BOOLEAN

VARIABLES args,  \* the arguments of each driver: the files it compiles and those
                 \* it links as they are, temp, keep, stop
          main,  \* where its main function is
          job,   \* its files: the tool each is at, whether that runs, on what
          dirs,  \* the temporary directories that exist
          disk,  \* the files in them: <<directory, name>> -> content
          out    \* the output file of each driver

vars == <<args, main, job, dirs, disk, out>>

Content(of, by) == [of |-> of, by |-> by]
Empty == Content(<< >>, << >>)   \* of a file opened, but not written yet
Tools == <<"compile", "optimize", "assemble">>
Ended == {"exit0", "exit1"}
Files(d) == 1..Len(args[d].files)
TempDir(d) == args[d].temp

\* temp_dir.get_file(basename, suffix=...)
get_file(d, i, tool) ==
  <<TempDir(d), args[d].files[i].base \o (CASE tool = "compile"  -> <<".ll">>
                                            [] tool = "optimize" -> <<"-opt", ".ll">>
                                            [] tool = "assemble" -> <<".o">>)>>

\* Where a tool writes: the last one of a driver that does not link writes
\* the output.
ToOutput(d, tool) == args[d].stop = tool
Written(path, c) == [p \in DOMAIN disk \cup {path} |-> IF p = path THEN c ELSE disk[p]]
Read(path) == IF path \in DOMAIN disk THEN disk[path] ELSE Empty

Before_first(tool) == "compile"   \* mutant: every tool reads what the compiler wrote
Before(tool) == Tools[CHOOSE k \in 1..2 : Tools[k + 1] = tool]
After(tool)  == Tools[1 + (CHOOSE k \in 1..2 : Tools[k] = tool)]
Input(d, i) == IF job[d][i].at = "compile"
               THEN Content(<<args[d].files[i]>>, << >>)
               ELSE Read(get_file(d, i, Before(job[d][i].at)))

Set(d, i, j) == job' = [job EXCEPT ![d][i] = j]
Job(at, running, input) == [at |-> at, running |-> running, input |-> input]
Busy(d) == {i \in Files(d) : job[d][i].at \in {"compile", "optimize", "assemble"}}
-----------------------------------------------------------------------------
\* build_executable parts the files by their extension; without linking there is
\* one file, and peblc is given it whatever it is.  Without a name the directory is
\* a fresh one, named after the driver here.
Arguments(d) ==
  {a \in [objects : UNION {[1..n -> Objects] : n \in 0..MaxObjects},
          files : UNION {[1..n -> Sources \cup Objects] : n \in 0..MaxFiles},
          temp : TempNames \cup {d}, keep : Keep,
          stop : {"link", "compile", "optimize", "assemble"}] :
     IF a.stop = "link"
     THEN /\ Len(a.files) + Len(a.objects) > 0
          /\ \A i \in 1..Len(a.files) : a.files[i] \in Sources
     ELSE Len(a.files) = 1 /\ Len(a.objects) = 0}

Init ==
  /\ args \in {f \in [Drivers -> UNION {Arguments(d) : d \in Drivers}] :
                 \A d \in Drivers : f[d] \in Arguments(d)}
  /\ main = [d \in Drivers |-> "check"]
  /\ job = [d \in Drivers |-> [i \in Files(d) |-> Job("queued", FALSE, Empty)]]
  /\ dirs = {} /\ disk = [p \in {} |-> Empty]
  /\ out = [d \in Drivers |-> << >>]

Goes(d, from, to) == main[d] = from /\ main' = [main EXCEPT ![d] = to]

\* rmtree: the directory and the files in it.
Remove(t) == dirs' = dirs \ {t} /\ disk' = [p \in {q \in DOMAIN disk : q[1] # t} |-> disk[p]]

\* A directory left from before is removed and made again, in three steps.
TempDirExists(d) ==
  /\ Goes(d, "check", IF TempDir(d) \in dirs THEN "clear" ELSE "make")
  /\ UNCHANGED <<args, job, dirs, disk, out>>

RemoveTempDir(d) ==   \* rmtree raises when the directory is gone
  /\ \/ /\ TempDir(d) \in dirs
        /\ Goes(d, "clear", "make") \/ Goes(d, "cleanup", "exit0")
     \/ /\ TempDir(d) \notin dirs
        /\ Goes(d, "clear", "exit1") \/ Goes(d, "cleanup", "exit1")
  /\ Remove(TempDir(d))
  /\ UNCHANGED <<args, job, out>>

MakeTempDir(d) ==     \* makedirs raises when it is there
  /\ Goes(d, "make", IF TempDir(d) \in dirs THEN "exit1" ELSE "build")
  /\ dirs' = dirs \cup {TempDir(d)}
  /\ UNCHANGED <<args, job, disk, out>>

\* A worker takes the next file of the pool's queue.
TakeFile(d, i) ==
  /\ main[d] \in {"build", "drain"} /\ job[d][i].at = "queued"
  /\ \A j \in 1 .. i - 1 : job[d][j].at # "queued"
  /\ Cardinality(Busy(d)) < Jobs
  /\ Set(d, i, Job("compile", FALSE, Empty))
  /\ UNCHANGED <<args, main, dirs, disk, out>>

\* Executable.execute: the tool reads its input, if it is there, and opens its output.
ToolStarts(d, i) ==
  /\ i \in Busy(d) /\ ~job[d][i].running
  /\ LET tool == job[d][i].at
         ok   == /\ tool # "compile" => get_file(d, i, Before(tool)) \in DOMAIN disk
                 /\ ToOutput(d, tool) \/ TempDir(d) \in dirs
     IN /\ Set(d, i, IF ok THEN Job(tool, TRUE, Input(d, i)) ELSE Job("failed", FALSE, Empty))
        /\ disk' = IF ok /\ ~ToOutput(d, tool) THEN Written(get_file(d, i, tool), Empty) ELSE disk
  /\ UNCHANGED <<args, main, dirs, out>>

\* Another driver, which may have removed the file, makes one of its name.
MadeByAnother(d, path) ==
  \E e \in Drivers \ {d} : \E i \in Files(e), k \in 1..3 : get_file(e, i, Tools[k]) = path

\* The tool writes its output and ends, or fails.  A file removed while it was
\* open is written to no name.
ToolEnds(d, i) ==
  /\ i \in Busy(d) /\ job[d][i].running
  /\ LET tool   == job[d][i].at
         path   == get_file(d, i, tool)
         result == Content(job[d][i].input.of, Append(job[d][i].input.by, tool))
     IN \/ /\ Set(d, i, Job("failed", FALSE, Empty))
           /\ UNCHANGED <<disk, out>>
        \/ /\ ToOutput(d, tool)
           /\ Set(d, i, Job("built", FALSE, Empty))
           /\ out' = [out EXCEPT ![d] = <<result>>]
           /\ UNCHANGED disk
        \/ /\ ~ToOutput(d, tool)
           /\ Set(d, i, Job(IF tool = "assemble" THEN "built" ELSE After(tool), FALSE, Empty))
           /\ \/ path \in DOMAIN disk /\ disk' = Written(path, result)
              \/ (path \notin DOMAIN disk \/ MadeByAnother(d, path)) /\ UNCHANGED disk
           /\ UNCHANGED out
  /\ UNCHANGED <<args, main, dirs>>

\* list(pool.map(...)) waits for the results in order, and raises the first
\* failure; files still in the queue are then given up, but for those the pool
\* has already handed to its workers.
AllBuilt_ended(d) == \A i \in Files(d) : job[d][i].at \in {"built", "failed"}   \* mutant
AllBuilt(d) == \A i \in Files(d) : job[d][i].at = "built"
FirstFailure_none(d) == FALSE   \* mutant: no one asks for the results
FirstFailure(d) == \E i \in Files(d) : /\ job[d][i].at = "failed"
                                       /\ \A j \in 1 .. i - 1 : job[d][j].at = "built"

BuildDone(d) ==
  /\ AllBuilt(d)
  /\ Goes(d, "build", IF args[d].stop = "link" THEN "link" ELSE "remove")
  /\ UNCHANGED <<args, job, dirs, disk, out>>

BuildFails(d) ==
  /\ FirstFailure(d)
  /\ Goes(d, "build", "drain")
  /\ \E some \in SUBSET {i \in Files(d) : job[d][i].at = "queued"} :
       job' = [job EXCEPT ![d] = [i \in Files(d) |-> IF i \in some
                                                     THEN Job("given up", FALSE, Empty)
                                                     ELSE job[d][i]]]
  /\ UNCHANGED <<args, dirs, disk, out>>

\* Leaving the pool waits for its workers; the temporary directory stays.
PoolShutdown(d) ==
  /\ Busy(d) = {} /\ \A i \in Files(d) : job[d][i].at # "queued"
  /\ Goes(d, "drain", "exit1")
  /\ UNCHANGED <<args, job, dirs, disk, out>>

\* What is linked: the objects the driver was given, then those it made.
Given(d) == [k \in 1..Len(args[d].objects) |-> Content(<<args[d].objects[k]>>, << >>)]
Made(d) == [i \in Files(d) |-> Read(get_file(d, i, "assemble"))]

\* mutant: an object that is not there is not missed.
Link_lax(d) ==
  /\ Goes(d, "link", "remove")
  /\ out' = [out EXCEPT ![d] = Given(d) \o Made(d)]
  /\ UNCHANGED <<args, job, dirs, disk>>

\* The linker reads them, or fails.
Link(d) ==
  /\ \/ /\ \A i \in Files(d) : Made(d)[i] # Empty
        /\ Goes(d, "link", "remove")
        /\ out' = [out EXCEPT ![d] = Given(d) \o Made(d)]
     \/ Goes(d, "link", "exit1") /\ UNCHANGED out
  /\ UNCHANGED <<args, job, dirs, disk>>

KeepTempDir_always(d) ==   \* mutant: the directory is never removed
  Goes(d, "remove", "exit0") /\ UNCHANGED <<args, job, dirs, disk, out>>
KeepTempDir(d) ==
  /\ Goes(d, "remove", IF ~args[d].keep /\ TempDir(d) \in dirs THEN "cleanup" ELSE "exit0")
  /\ UNCHANGED <<args, job, dirs, disk, out>>

Work(d) == \E i \in Files(d) : TakeFile(d, i) \/ ToolStarts(d, i) \/ ToolEnds(d, i)
Main(d) == \/ TempDirExists(d) \/ RemoveTempDir(d) \/ MakeTempDir(d)
           \/ BuildDone(d) \/ BuildFails(d) \/ PoolShutdown(d)
           \/ Link(d) \/ KeepTempDir(d)

Exit == (\A d \in Drivers : main[d] \in Ended) /\ UNCHANGED vars

Next == (\E d \in Drivers : Work(d) \/ Main(d)) \/ Exit

Spec == Init /\ [][Next]_vars

\* Every process goes on, and every tool ends.
FairSpec == Spec /\ \A d \in Drivers : WF_vars(Work(d)) /\ WF_vars(Main(d))
-----------------------------------------------------------------------------
\* What the user asked for: every file, through all tools up to the last one.
Asked(d, i) ==
  LET last == IF args[d].stop = "link" THEN 3 ELSE CHOOSE k \in 1..3 : Tools[k] = args[d].stop
  IN Content(<<args[d].files[i]>>, SubSeq(Tools, 1, last))

\* No other file, of this driver or of one that shares its directory, is made to a file
\* of the same name; a file given twice is two files here.
TempFiles(d, i) == {get_file(d, i, Tools[k]) : k \in 1..3}
NamesApart(d, i) == \A e \in Drivers : \A j \in Files(e) :
  <<e, j>> # <<d, i>> => TempFiles(d, i) \cap TempFiles(e, j) = {}

\* The output holds the objects that were given, and after them one for every file; that
\* of a file whose names are its own is what was asked for.
Delivered(d) ==
  /\ Len(out[d]) = Len(args[d].objects) + Len(args[d].files)
  /\ \A k \in 1..Len(args[d].objects) : out[d][k] = Given(d)[k]
  /\ \A i \in Files(d) : NamesApart(d, i) => out[d][Len(args[d].objects) + i] = Asked(d, i)

\* What a driver that reports success has written is right, however its workers interleave,
\* and though another driver removes its files and its directory under it.  Of files with
\* a temporary name in common (the same base name, or x and x-opt) nothing is said: what
\* is made of them may be made of the other one, or of nothing; but they do the others no
\* harm (driver.py:118-154, 165-182).
SuccessIsRight ==
  \A d \in Drivers : main[d] = "exit0" => Delivered(d)

\* A failure of any tool is never lost: the driver does not report success,
\* nor link (driver.py:176-182, utils.py).
FailureIsReported ==
  \A d \in Drivers : \A i \in Files(d) :
    job[d][i].at = "failed" => main[d] \in {"build", "drain", "exit1"}

\* No other driver was given its directory.
Alone(d) == \A e \in Drivers \ {d} : TempDir(e) # TempDir(d)

\* A driver that has ended has no worker left running; and one that succeeds has removed
\* its directory, unless told to keep it or another driver uses it too.  One that fails
\* leaves its directory where it is (driver.py:287-296).
NothingLeft ==
  \A d \in Drivers :
    /\ main[d] \in Ended => Busy(d) = {}
    /\ main[d] = "exit0" /\ Alone(d) /\ ~args[d].keep => TempDir(d) \notin dirs

\* Every driver ends.
DriversEnd == <>(\A d \in Drivers : main[d] \in Ended)
=============================================================================
