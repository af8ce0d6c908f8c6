----------------------------- MODULE MakeRevision -----------------------------
(***************************************************************************)
(* scripts/make_revision.py: the script that builds the compiler with the  *)
(* compiler of the last revision, replaces it, packages it and commits it. *)
(* It may die between any two of its steps, and is then run again.  Git    *)
(* and CMake are modelled by what the script relies on: of git, the files  *)
(* on disk, what is staged, the last commit, the tags and the remote.      *)
(*                                                                         *)
(* A compiler is the number of the build it comes from, 0 where there is   *)
(* none; a revision is a number too, and its tar a record of both.         *)
(***************************************************************************)
EXTENDS Naturals, FiniteSets

CONSTANTS MaxBuilds,  \* bound on the compilers built
          MaxCrashes  \* bound on the runs that die in the middle

VARIABLES pc,       \* the step the script is at
          builds,   \* the compilers built so far
          crashes,  \* the runs that died
          died,     \* the steps they died before
          pebl,     \* binaries/pebl, the compiler new ones are built with
          new,      \* binaries/pebl-new
          tars,     \* the tars in binaries: [rev, of]
          index,    \* what is staged for the next commit: a compiler and tars
          head,     \* the last commit, likewise
          tags,     \* the tagged commits: [rev, pebl, tars]
          pushed    \* the commits the remote repository has

dir  == <<pebl, new, tars>>
repo == <<index, head, tags, pushed>>
revision == <<pc, builds, crashes, died, dir, repo>>

Steps == {"clean", "build", "test", "remove", "move", "package", "unpackage",
          "add", "commit", "tag", "push"}

Commit(p, t) == [pebl |-> p, tars |-> t]
Tar(rev, of) == [rev |-> rev, of |-> of]
Revisions == {t.rev : t \in tags}
get_last_tag_num == IF tags = {} THEN 0
                    ELSE CHOOSE r \in Revisions : \A q \in Revisions : q <= r
get_next_tag_last == get_last_tag_num   \* mutant
get_next_tag == get_last_tag_num + 1
-----------------------------------------------------------------------------
\* The repository as it was made by hand: revision 1 with compiler 1.
InitRevision ==
  /\ pc = "clean" /\ builds = 1 /\ crashes = 0 /\ died = {}
  /\ pebl = 1 /\ new = 0 /\ tars = {Tar(1, 1)}
  /\ head = Commit(1, {Tar(1, 1)}) /\ index = head
  /\ tags = {[rev |-> 1, commit |-> head]}
  /\ pushed = {head}

Then(step) == pc' = step
Proceeds(from, to) == pc = from /\ pc' = to /\ UNCHANGED <<crashes, died>>

CleanInstall_both ==   \* mutant: the old compiler is removed before the new is built
  /\ Proceeds("clean", "build")
  /\ new' = 0 /\ pebl' = 0
  /\ UNCHANGED <<builds, tars, repo>>

\* build_compiler: what an earlier run has left is removed first.
CleanInstall ==
  /\ Proceeds("clean", "build")
  /\ new' = 0
  /\ UNCHANGED <<builds, pebl, tars, repo>>

\* CMake compiles the pebl parts of the compiler with binaries/pebl.
BuildCompiler ==
  /\ pebl # 0 /\ builds < MaxBuilds
  /\ Proceeds("build", "test")
  /\ builds' = builds + 1 /\ new' = builds + 1
  /\ UNCHANGED <<pebl, tars, repo>>

RunTests ==
  /\ Proceeds("test", "remove")
  /\ UNCHANGED <<builds, dir, repo>>

RemoveOld ==
  /\ Proceeds("remove", "move")
  /\ pebl' = 0
  /\ UNCHANGED <<builds, new, tars, repo>>

MoveNew_not ==   \* mutant: the new compiler stays where it was built
  /\ Proceeds("move", "package")
  /\ UNCHANGED <<builds, dir, repo>>
MoveNew ==
  /\ Proceeds("move", "package")
  /\ pebl' = new /\ new' = 0
  /\ UNCHANGED <<builds, tars, repo>>

package_compiler ==
  /\ Proceeds("package", "unpackage")
  /\ tars' = {t \in tars : t.rev # get_next_tag} \cup {Tar(get_next_tag, pebl)}
  /\ UNCHANGED <<builds, pebl, new, repo>>

RemoveOldTar ==
  /\ Proceeds("unpackage", "add")
  /\ tars' = {t \in tars : t.rev # get_last_tag_num}
  /\ UNCHANGED <<builds, pebl, new, repo>>

\* git add of the compiler and the tars of the next and the last revision: a
\* path that is neither on disk nor in the index is an error, and nothing is
\* staged then; of one that is only in the index the removal is staged.
Known(rev) == \E t \in tars \cup index.tars : t.rev = rev
Named(t) == t.rev \in {get_last_tag_num, get_next_tag}

GitAdd ==
  /\ Known(get_last_tag_num)
  /\ Proceeds("add", "commit")
  /\ index' = Commit(pebl, {t \in index.tars : ~Named(t)} \cup {t \in tars : Named(t)})
  /\ UNCHANGED <<builds, dir, head, tags, pushed>>

GitAddFails ==
  /\ pc = "add" /\ ~Known(get_last_tag_num)
  /\ Then("stuck")
  /\ UNCHANGED <<builds, crashes, died, dir, repo>>

GitCommit ==
  /\ Proceeds("commit", "tag")
  /\ head' = index
  /\ UNCHANGED <<builds, dir, index, tags, pushed>>

GitTag ==
  /\ Proceeds("tag", "push")
  /\ tags' = tags \cup {[rev |-> get_next_tag, commit |-> head]}
  /\ UNCHANGED <<builds, dir, index, head, pushed>>

\* git push --all pushes the branch, not the tags.
GitPush ==
  /\ Proceeds("push", "done")
  /\ pushed' = pushed \cup {head}
  /\ UNCHANGED <<builds, dir, index, head, tags>>

\* The script is interrupted, or a command of it fails; it is run again.
Crash ==
  /\ pc \in Steps /\ crashes < MaxCrashes
  /\ crashes' = crashes + 1 /\ died' = died \cup {pc}
  /\ Then("clean")
  /\ UNCHANGED <<builds, dir, repo>>

\* Without a compiler in binaries/pebl the build fails; with one, the next
\* revision can be made.
BuildFails == pc = "build" /\ pebl = 0 /\ Then("lost") /\ UNCHANGED <<builds, crashes, died, dir, repo>>
RunAgain == pc = "done" /\ builds < MaxBuilds /\ Then("clean") /\ UNCHANGED <<builds, crashes, died, dir, repo>>
Exit == /\ \/ pc \in {"done", "stuck", "lost"}
           \/ pc = "build" /\ builds = MaxBuilds
        /\ UNCHANGED revision

NextRevision ==
  \/ CleanInstall \/ BuildCompiler \/ RunTests \/ RemoveOld \/ MoveNew
  \/ package_compiler \/ RemoveOldTar \/ GitAdd \/ GitAddFails \/ GitCommit
  \/ GitTag \/ GitPush \/ Crash \/ BuildFails \/ RunAgain \/ Exit

SpecRevision == InitRevision /\ [][NextRevision]_revision
-----------------------------------------------------------------------------
\* A revision, once tagged, contains a compiler and one tar, of that compiler
\* and under its own number, whatever earlier runs left behind (README.md:
\* "a fully built compiler and a tar file of the built compiler").
RevisionComplete ==
  \A t \in tags : /\ t.commit.pebl # 0
                  /\ t.commit.tars = {Tar(t.rev, t.commit.pebl)}

\* The compiler can be had back from git wherever the script dies.
CompilerInGit == head.pebl # 0 /\ \A c \in pushed : c.pebl # 0

\* Running the script again after it died works, unless it died between the
\* removal of the old compiler and the move of the new one (lines 105, 106), or
\* between git add and the tag (79-82): the last tar, gone from the disk, is
\* then gone from the index too, and the next git add of it fails.
RecoversElsewhere ==
  /\ pc = "lost"  => "move" \in died
  /\ pc = "stuck" => died \cap {"commit", "tag"} # {}

\* README.md: "a previous binary MUST always be kept around" (the script
\* breaks it: run again, it removes the new compiler, the only one left).
BinaryKept == pebl # 0 \/ new # 0
=============================================================================
