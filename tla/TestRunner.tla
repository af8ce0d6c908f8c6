------------------------------ MODULE TestRunner -------------------------------
(***************************************************************************)
(* The test runner, src/scripts/run_tests.py, on one suite: worker         *)
(* processes take the test files, run the commands of each configuration   *)
(* with a time limit, compare what was printed with the good file and      *)
(* remove it.  An output file is named after the base name of the test     *)
(* file and the number of the configuration, in the directory of the       *)
(* suite; a program is built next to its source.  A command that is too    *)
(* late is killed, what it started itself is not.                          *)
(***************************************************************************)
EXTENDS Naturals, Sequences, FiniteSets

CONSTANTS Suites,  \* bound: suites, each a sequence of [file, base, configs]
          Workers  \* max_workers

VARIABLES suite,   \* the tests of the configuration file
          next,    \* the first test no worker has taken
          worker,  \* what each worker process does
          names,   \* output files: <<base, configuration>> -> the file, 0 where there is none
          text,    \* what was written to each output file ever opened
          built,   \* the program next to each source: the test and configuration that built it
          strays,  \* compilers whose parent was killed
          futures, \* of each test: "pending", "raised" or "done"
          results, \* of each test, by configuration: did it pass
          faults,  \* and what went wrong in it: history, read by no action
          exit     \* of the runner: "running", "raised", "passed" or "failed"
vars == <<suite, next, worker, names, text, built, strays, futures, results, faults, exit>>

Commands == {"parse", "compile", "exec", "clean"}

\* The base name is made of the name; a configuration that runs a program builds it first.
ASSUME RunnerAssumption ==
  /\ Workers # {} /\ IsFiniteSet(Workers)
  /\ Suites \subseteq Seq([file : STRING, base : STRING, configs : Seq(Seq(Commands))])
  /\ \A s \in Suites : \A i, j \in 1..Len(s) : s[i].file = s[j].file => s[i].base = s[j].base
  /\ \A s \in Suites : \A i \in 1..Len(s) : \A c \in 1..Len(s[i].configs) :
       LET cmds == s[i].configs[c]
       IN \A k \in 1..Len(cmds) : cmds[k] = "exec" => \E l \in 1 .. k - 1 : cmds[l] = "compile"
-----------------------------------------------------------------------------
Tests == 1..Len(suite)
Configs(i) == 1..Len(suite[i].configs)
\* mutant: the output is not named after the test.
OutName_plain(i, c) == <<"out", c>>

OutName(i, c) == <<suite[i].base, c>>
Idle == [at |-> "idle", test |-> 0, config |-> 0, cmd |-> 0, fd |-> 0]
NotBuilt == <<0, 0>>

\* What a command that does what it should prints, and so what the good file holds: one
\* and the same for all commands of a test that print.
Printing == {"parse", "exec"}
Prints(i, command) == IF command \in Printing THEN << <<"text", suite[i].file>> >> ELSE << >>
Good(i, c) ==
  LET cmds == suite[i].configs[c]
  IN [k \in 1..Cardinality({l \in 1..Len(cmds) : cmds[l] \in Printing}) |-> <<"text", suite[i].file>>]

Message == <<"error", "text">>          \* anything it should not print
Undecodable == <<"error", "bytes">>
Decodes(lines) == \A k \in DOMAIN lines : lines[k] # Undecodable

Init ==
  /\ suite \in Suites /\ next = 1
  /\ worker = [w \in Workers |-> Idle]
  /\ names = [n \in UNION {{OutName(i, c) : c \in Configs(i)} : i \in Tests} |-> 0]
  /\ text = << >> /\ strays = {} /\ exit = "running"
  /\ built = [f \in {suite[i].file : i \in Tests} |-> NotBuilt]
  /\ futures = [i \in Tests |-> "pending"]
  /\ results = [i \in Tests |-> << >>] /\ faults = [i \in Tests |-> << >>]

Name(w) == OutName(worker[w].test, worker[w].config)
Goes(w, at) == worker' = [worker EXCEPT ![w].at = at]

\* _run_test_file: a worker process takes the next test of the pool's queue.
Take(w) ==
  /\ worker[w].at = "idle" /\ next \in Tests
  /\ next' = next + 1
  /\ IF Configs(next) = {}
     THEN futures' = [futures EXCEPT ![next] = "done"] /\ UNCHANGED <<worker, faults>>
     ELSE /\ worker' = [worker EXCEPT ![w] = [Idle EXCEPT !.at = "exists", !.test = next, !.config = 1]]
          /\ faults' = [faults EXCEPT ![next] = Append(@, {})]
          /\ UNCHANGED futures
  /\ UNCHANGED <<suite, names, text, built, strays, results, exit>>

Raise(w) ==
  /\ futures' = [futures EXCEPT ![worker[w].test] = "raised"]
  /\ worker' = [worker EXCEPT ![w] = Idle]

File(w) == suite[worker[w].test].file
Cmds(w) == suite[worker[w].test].configs[worker[w].config]
Command(w) == Cmds(w)[worker[w].cmd]
Report(w, passed) ==
  LET i == worker[w].test   more == worker[w].config < Len(suite[i].configs)
  IN /\ results' = [results EXCEPT ![i] = Append(@, passed)]
     /\ futures' = IF more THEN futures ELSE [futures EXCEPT ![i] = "done"]
     /\ faults' = IF more THEN [faults EXCEPT ![i] = Append(@, {})] ELSE faults
     /\ worker' = [worker EXCEPT ![w] = IF more THEN [Idle EXCEPT !.at = "exists", !.test = i,
                                                        !.config = worker[w].config + 1]
                                        ELSE Idle]

\* A configuration without commands has failed.
NothingToDo(w) ==
  /\ worker[w].at = "exists" /\ Cmds(w) = << >>
  /\ Report(w, FALSE)
  /\ UNCHANGED <<suite, next, names, text, built, strays, exit>>

\* _run_single_test: an output of an earlier run is removed, and the file opened to append.
Exists(w) ==
  /\ worker[w].at = "exists" /\ Cmds(w) # << >>
  /\ Goes(w, IF names[Name(w)] # 0 THEN "remove" ELSE "open")
  /\ UNCHANGED <<suite, next, names, text, built, strays, futures, results, faults, exit>>

Remove(w) ==
  /\ worker[w].at = "remove"
  /\ IF names[Name(w)] = 0 THEN Raise(w) /\ UNCHANGED names
     ELSE Goes(w, "open") /\ names' = [names EXCEPT ![Name(w)] = 0] /\ UNCHANGED futures
  /\ UNCHANGED <<suite, next, text, built, strays, results, faults, exit>>

Open(w) ==
  /\ worker[w].at = "open"
  /\ text' = IF names[Name(w)] = 0 THEN Append(text, << >>) ELSE text
  /\ names' = [names EXCEPT ![Name(w)] = IF @ = 0 THEN Len(text) + 1 ELSE @]
  /\ worker' = [worker EXCEPT ![w].at = "run", ![w].cmd = 1, ![w].fd = names'[Name(w)]]
  /\ UNCHANGED <<suite, next, built, strays, futures, results, faults, exit>>

Write(fd, words) == text' = [text EXCEPT ![fd] = @ \o words]
NextCommand(w) == worker' = [worker EXCEPT ![w].cmd = @ + 1,
                                           ![w].at = IF worker[w].cmd = Len(Cmds(w)) THEN "judge" ELSE "run"]
Blame(w, new) == faults' = [faults EXCEPT ![worker[w].test][worker[w].config] = @ \cup new]

\* The program a command needs is there; what a command that does its part leaves; and the
\* program that is run is of another configuration.
Own(w) == <<worker[w].test, worker[w].config>>
Present(w) == Command(w) \in {"exec", "clean"} => built[File(w)] # NotBuilt
After(w) == CASE Command(w) = "compile" -> [built EXCEPT ![File(w)] = Own(w)]
              [] Command(w) = "clean"   -> [built EXCEPT ![File(w)] = NotBuilt]
              [] OTHER -> built
Foreign(w) == IF Command(w) = "exec" /\ built[File(w)] # Own(w) THEN {"foreign"} ELSE {}

\* process_wrapper: the command ends in time.
Succeed(w) ==
  /\ worker[w].at = "run" /\ Present(w) /\ NextCommand(w)
  /\ Write(worker[w].fd, Prints(worker[w].test, Command(w)))
  /\ built' = After(w) /\ Blame(w, Foreign(w))
  /\ UNCHANGED <<suite, next, names, strays, futures, results, exit>>

\* A program that is not there: the message is of the exception, or of rm.
NotThere(w) ==
  /\ worker[w].at = "run" /\ ~Present(w) /\ NextCommand(w)
  /\ Write(worker[w].fd, <<Message>>) /\ Blame(w, {"misprinted"})
  /\ UNCHANGED <<suite, next, names, built, strays, futures, results, exit>>

\* The command fails, or gives a wrong answer.  Its return code is not looked at: it may
\* have done its part or not, and have printed all it should, nothing, something else, or
\* bytes that do not decode.
Fail(w) ==
  /\ worker[w].at = "run" /\ Present(w) /\ NextCommand(w)
  /\ built' \in {built, After(w)}
  /\ \E words \in {Prints(worker[w].test, Command(w)), << >>, <<Message>>, <<Undecodable>>} :
       /\ Write(worker[w].fd, words)
       /\ Blame(w, Foreign(w) \cup (IF Command(w) = "compile" THEN {"failed"} ELSE {})
                     \cup (IF words = <<Undecodable>> THEN {"undecodable"} ELSE {})
                     \cup (IF words # Prints(worker[w].test, Command(w)) THEN {"misprinted"} ELSE {}))
  /\ UNCHANGED <<suite, next, names, strays, futures, results, exit>>

\* Of a command that is killed, which may have printed something; a compiler may leave
\* processes of its own, which may do its part.
Late(w, more) ==
  /\ strays' = strays \cup (IF Command(w) = "compile" THEN {[file |-> File(w), by |-> Own(w)]} ELSE {})
  /\ Blame(w, {IF Command(w) = "compile" THEN "killed" ELSE "late"} \cup more)

\* mutant: nothing tells that the command was too late.
TimeOut_silent(w) ==
  /\ worker[w].at = "run" /\ Present(w) /\ NextCommand(w) /\ Late(w, {})
  /\ UNCHANGED <<suite, next, names, text, built, futures, results, exit>>

\* TimeoutExpired: the message of the exception is written behind what was printed, and
\* the next command is run.
TimeOut(w) ==
  /\ worker[w].at = "run" /\ Present(w) /\ NextCommand(w)
  /\ \/ Write(worker[w].fd, <<Message>>) /\ Late(w, {})
     \/ Write(worker[w].fd, <<Undecodable>>) /\ Late(w, {"undecodable"})
  /\ UNCHANGED <<suite, next, names, built, futures, results, exit>>

\* What a killed compiler had started may still build the program.
Stray(s) ==
  /\ s \in strays /\ strays' = strays \ {s}
  /\ built' = [built EXCEPT ![s.file] = s.by]
  /\ UNCHANGED <<suite, next, worker, names, text, futures, results, faults, exit>>

\* readlines: the lines are read by the name of the file, and a file that is gone has none;
\* of what may go wrong when they are read that alone is caught.  The good files decode.
Judge(w) ==
  LET lines == IF names[Name(w)] = 0 THEN << >> ELSE text[names[Name(w)]]
  IN /\ worker[w].at = "judge"
     /\ \/ ~Decodes(lines) /\ Raise(w) /\ UNCHANGED <<results, faults>>
        \/ Decodes(lines) /\ lines # Good(worker[w].test, worker[w].config) /\ Report(w, FALSE)
        \/ /\ lines = Good(worker[w].test, worker[w].config) /\ Goes(w, "discard")
           /\ UNCHANGED <<results, futures, faults>>
     /\ UNCHANGED <<suite, next, names, text, built, strays, exit>>

\* A presumed success: the output is removed.
Discard(w) ==
  /\ worker[w].at = "discard"
  /\ IF names[Name(w)] = 0 THEN Raise(w) /\ UNCHANGED <<results, faults, names>>
     ELSE Report(w, TRUE) /\ names' = [names EXCEPT ![Name(w)] = 0]
  /\ UNCHANGED <<suite, next, text, built, strays, exit>>

\* mutant: the results are waited for, an exception is not.
Finish_done ==
  /\ exit = "running" /\ \A i \in Tests : futures[i] = "done"
  /\ exit' = IF \A i \in Tests : \A c \in Configs(i) : results[i][c] THEN "passed" ELSE "failed"
  /\ UNCHANGED <<suite, next, worker, names, text, built, strays, futures, results, faults>>

\* main: the pool is left when every future is done; the exception of one is raised again.
Finish ==
  /\ exit = "running" /\ \A i \in Tests : futures[i] # "pending"
  /\ exit' = CASE \E i \in Tests : futures[i] = "raised" -> "raised"
               [] \A i \in Tests : futures[i] = "done" /\ \A c \in Configs(i) : results[i][c] -> "passed"
               [] OTHER -> "failed"
  /\ UNCHANGED <<suite, next, worker, names, text, built, strays, futures, results, faults>>

Work(w) == \/ Take(w) \/ NothingToDo(w) \/ Exists(w) \/ Remove(w) \/ Open(w)
           \/ Succeed(w) \/ NotThere(w) \/ Fail(w) \/ TimeOut(w) \/ Judge(w) \/ Discard(w)
Next == (\E w \in Workers : Work(w)) \/ (\E s \in strays : Stray(s)) \/ Finish

\* The time limit ends every command; the pool runs its processes.
Spec == Init /\ [][Next]_vars /\ (\A w \in Workers : WF_vars(Work(w))) /\ WF_vars(Finish)
-----------------------------------------------------------------------------
(* Properties.                                                             *)

\* Another test of the suite has the same base name.
Clashes(i) == \E j \in Tests \ {i} : suite[j].base = suite[i].base

\* What a command that was too late, or printed anything but what it should, leaves in the output.
Visible == {"late", "killed", "misprinted", "undecodable"}

\* A compiler of this configuration failed, or one of the test was killed, here or before,
\* and what it left running may build late.
Unsure(i, c) == "failed" \in faults[i][c] \/ \E k \in 1..c : "killed" \in faults[i][k]

\* Of a configuration that is reported as passed every command was in time and printed
\* what it should, nothing more and nothing less; and every program it ran was the one it
\* had built itself, unless a compiler of it failed without a word (its return code is not
\* looked at, and an older program may be there) or one of an earlier configuration was
\* killed.  All this though other workers write in the same directory and outputs of
\* failed configurations are kept; it does not hold where base names clash.
PassedIsRight ==
  \A i \in Tests : \A c \in 1..Len(results[i]) :
    results[i][c] /\ ~Clashes(i) =>
      /\ faults[i][c] \cap Visible = {}
      /\ "foreign" \in faults[i][c] => Unsure(i, c)

\* The runner ends with success only when every configuration of every test was judged and
\* passed, and leaves no output then; and it stops with a traceback, and reports nothing,
\* only where base names clash or the output of a test does not decode.
ReportIsWhole ==
  /\ exit = "passed" =>
       /\ \A i \in Tests : Len(results[i]) = Len(suite[i].configs) /\ \A c \in Configs(i) : results[i][c]
       /\ \A n \in DOMAIN names : names[n] = 0
  /\ \A i \in Tests : futures[i] = "raised" =>
       Clashes(i) \/ \E c \in 1..Len(faults[i]) : "undecodable" \in faults[i][c]

\* The run ends, whatever the commands do: no worker waits for another one, and the time
\* limit ends every command.
RunEnds == <>(exit # "running")
=============================================================================
