------------------------------- MODULE Grade -------------------------------
(***************************************************************************)
(* The grader of the course, "testtool grade" (tools/testtool/commands):   *)
(* what the HEAD commit of a student's repository changes, the tests of    *)
(* each task that it touches, and the reports to the score server, which   *)
(* may not answer.  One process, one task after the other; log.Fatal and   *)
(* os.Exit end it wherever they stand.                                     *)
(*                                                                         *)
(* A submission is what is wrong with it, at most one thing in a task.     *)
(* grade asks whether a task is released, but only for its log.            *)
(***************************************************************************)
EXTENDS Integers, Sequences, FiniteSets, Functions

CONSTANTS
  Task,       \* the tasks of the deadlines file
  Pkg,        \* the packages with tests of a task
  Bad,        \* the package in which the tests of a bad submission fail
  NoBench,    \* the packages without benchmarks
  Covered,    \* the tasks that require a coverage
  MaxFiles    \* how many files a commit changes

ASSUME GradeAssumption ==
  /\ Task \subseteq Nat /\ IsFiniteSet(Task)
  /\ Bad \in Pkg /\ NoBench \subseteq Pkg /\ Covered \subseteq Task

VARIABLES
  files,     \* the files that HEAD changes
  defect,    \* what is wrong with the student's solution of a task
  pc,        \* where grade is; "exit0" and "exit1" are its ends
  todo,      \* changedTasks from the present one on
  failed, testFailed,   \* its variables
  tmp,       \* whose files are in tmpRepo
  left,      \* the packages that are still to be tested
  tries,     \* how often the present report was sent
  accepted   \* the reports that the server has taken

vars == <<files, defect, pc, todo, failed, testFailed, tmp, left, tries, accepted>>

None == -1
Defect == {"none", "load", "build", "test", "race", "bench", "slow", "uncovered", "lint"}
Class == {"solution", "tests", "protected", "testdata", "module"}

(* A changed file, by its first component and by what it is a match for    *)
(* the Watch entries of.                                                   *)
File == [dir : Task \cup {None}, watched : SUBSET Task]

Init ==
  /\ files \in {fs \in SUBSET File : Cardinality(fs) <= MaxFiles}
  /\ defect \in [Task -> Defect]
  /\ pc = "start"
  /\ todo = <<>>
  /\ failed = FALSE
  /\ testFailed = FALSE
  /\ tmp = [c \in Class |-> "none"]
  /\ left = {}
  /\ tries = 0
  /\ accepted = {}

Same == UNCHANGED <<files, defect>>

-----------------------------------------------------------------------------
(* Slip: the Watch entries of a task matter only outside of all tasks.     *)
ChangedElsewhere(fs) ==
  {t \in Task : \E f \in fs : f.dir = t \/ (f.dir = None /\ t \in f.watched)}

findChangedTasks(fs) == {t \in Task : \E f \in fs : f.dir = t \/ t \in f.watched}

(* sort.Strings                                                            *)
InOrder(s) == \A i, k \in DOMAIN s : i < k => s[i] < s[k]
Sorted(S) == {s \in [1..Cardinality(S) -> S] : Range(s) = S /\ InOrder(s)}

ListTasks ==
  /\ pc = "start"
  /\ \/ /\ todo' \in Sorted(findChangedTasks(files))
        /\ pc' = "next"
     \/ pc' = "exit1" /\ UNCHANGED todo
  /\ Same /\ UNCHANGED <<failed, testFailed, tmp, left, tries, accepted>>

(* Slip: testFailed is not a new variable for every task.                  *)
NextTaskKept ==
  /\ pc = "next"
  /\ pc' = IF todo # <<>> THEN "copy" ELSE IF failed THEN "exit1" ELSE "exit0"
  /\ Same /\ UNCHANGED <<todo, failed, testFailed, tmp, left, tries, accepted>>

NextTask ==
  /\ pc = "next"
  /\ pc' = IF todo # <<>> THEN "copy" ELSE IF failed THEN "exit1" ELSE "exit0"
  /\ testFailed' = FALSE
  /\ Same /\ UNCHANGED <<todo, failed, tmp, left, tries, accepted>>

(* log.Fatal, or os.Exit(1).                                               *)
Fatal ==
  /\ pc' = "exit1"
  /\ Same /\ UNCHANGED <<todo, failed, testFailed, tmp, left, tries, accepted>>

(* testSubmission returns an error: a task whose tests failed is reported, *)
(* any other is not.                                                       *)
TaskFails(byTest) ==
  /\ failed' = TRUE
  /\ testFailed' = byTest
  /\ pc' = IF byTest THEN "report" ELSE "next"
  /\ todo' = IF byTest THEN todo ELSE Tail(todo)
  /\ Same /\ UNCHANGED <<tmp, left, tries, accepted>>

-----------------------------------------------------------------------------
(* testSubmission.  The student's files, and over them those of the        *)
(* private repository; rsync may fail.                                     *)
StudentOver ==
  /\ pc = "copy"
  /\ tmp' = [c \in Class |-> "student"]
  /\ pc' = "build"
  /\ Same /\ UNCHANGED <<todo, failed, testFailed, left, tries, accepted>>

Copy ==
  /\ pc = "copy"
  /\ \/ /\ tmp' = [c \in Class |-> IF c = "solution" THEN "student" ELSE "private"]
        /\ pc' = "build"
        /\ Same /\ UNCHANGED <<todo, failed, testFailed, left, tries, accepted>>
     \/ Fatal

Has(d) == defect[Head(todo)] = d

(* The student's own tests find nothing.                                   *)
Fails(k) == tmp["tests"] = "private" /\ k = Bad /\ (Has("test") \/ Has("race") \/ Has("bench"))

(* listTestsAndBinaries exits when a package does not load.  It reads the  *)
(* student's packages if there is a coverage to check; a package of theirs *)
(* that does not load is a build error otherwise.                          *)
Build ==
  /\ pc = "build"
  /\ \/ Has("load") /\ Head(todo) \in Covered /\ Fatal
     \/ /\ (Has("load") /\ Head(todo) \notin Covered) \/ Has("build")
        /\ TaskFails(FALSE)
     \/ ~Has("load") /\ ~Has("build")
        /\ pc' = "run" /\ left' = Pkg
        /\ Same /\ UNCHANGED <<todo, failed, testFailed, tmp, tries, accepted>>

(* Slip: break in the place of continue.                                   *)
RunPkgBreak ==
  /\ pc = "run"
  /\ \E k \in left :
       IF Fails(k) THEN TaskFails(TRUE)
       ELSE IF k = Bad /\ k \notin NoBench /\ Has("slow") THEN TaskFails(FALSE)
       ELSE /\ left' = IF k \in NoBench THEN {} ELSE left \ {k}
            /\ Same /\ UNCHANGED <<pc, todo, failed, testFailed, tmp, tries, accepted>>

(* The tests, the tests under the race detector and the benchmarks of a    *)
(* package, which are then compared to the baseline: they may look slow in *)
(* a solution that is not, or the baseline fail, or the sandbox.           *)
RunPkg ==
  /\ pc = "run"
  /\ \E k \in left :
       \/ Fails(k) /\ TaskFails(TRUE)
       \/ ~Fails(k) /\ k \notin NoBench /\ TaskFails(FALSE)
       \/ /\ ~Fails(k)
          /\ k = Bad /\ k \notin NoBench => ~Has("slow")
          /\ left' = left \ {k}
          /\ Same /\ UNCHANGED <<pc, todo, failed, testFailed, tmp, tries, accepted>>
       \/ Fatal

(* The coverage of all packages, and the linter.                           *)
Check ==
  /\ pc = "run" /\ left = {}
  /\ IF (Has("uncovered") /\ Head(todo) \in Covered) \/ Has("lint")
     THEN TaskFails(FALSE)
     ELSE /\ pc' = "report"
          /\ Same /\ UNCHANGED <<todo, failed, testFailed, tmp, left, tries, accepted>>

-----------------------------------------------------------------------------
(* Slip: the loop does not count.                                          *)
RetryEver ==
  /\ pc = "report"
  /\ \E gets \in BOOLEAN :
       accepted' = IF gets THEN accepted \cup {[task |-> Head(todo), failed |-> testFailed]}
                           ELSE accepted
  /\ Same /\ UNCHANGED <<pc, todo, tries, failed, testFailed, tmp, left>>

(* Slip: one more.                                                         *)
ReportFour ==
  /\ pc = "report"
  /\ \E gets, answers \in BOOLEAN :
       /\ accepted' = IF gets THEN accepted \cup {[task |-> Head(todo), failed |-> testFailed]}
                              ELSE accepted
       /\ IF gets /\ answers
          THEN pc' = "next" /\ todo' = Tail(todo) /\ tries' = 0
          ELSE /\ tries' = tries + 1
               /\ pc' = IF tries = 3 THEN "exit1" ELSE "report"
               /\ UNCHANGED todo
  /\ Same /\ UNCHANGED <<failed, testFailed, tmp, left>>

(* reportTestResults: up to three times, until a 200 comes back.  What the *)
(* server has taken may be sent again when its answer is lost.             *)
Report ==
  /\ pc = "report"
  /\ \E gets, answers \in BOOLEAN :
       /\ accepted' = IF gets THEN accepted \cup {[task |-> Head(todo), failed |-> testFailed]}
                              ELSE accepted
       /\ IF gets /\ answers
          THEN pc' = "next" /\ todo' = Tail(todo) /\ tries' = 0
          ELSE /\ tries' = tries + 1
               /\ pc' = IF tries = 2 THEN "exit1" ELSE "report"
               /\ UNCHANGED todo
  /\ Same /\ UNCHANGED <<failed, testFailed, tmp, left>>

-----------------------------------------------------------------------------
Next == ListTasks \/ NextTask \/ Copy \/ Build \/ RunPkg \/ Check \/ Report

(* A sequential program runs on; the tests themselves end (go test has a   *)
(* timeout of its own).                                                    *)
Spec == Init /\ [][Next]_vars /\ WF_vars(Next)

-----------------------------------------------------------------------------
(* Types; report.go:27: a task is graded once and its report sent at most  *)
(* three times.                                                            *)
GradeTypeOK ==
  /\ pc \in {"start", "next", "copy", "build", "run", "report", "exit0", "exit1"}
  /\ todo \in Seq(Task) /\ InOrder(todo)
  /\ failed \in BOOLEAN /\ testFailed \in BOOLEAN
  /\ tmp \in [Class -> {"none", "student", "private"}]
  /\ left \subseteq Pkg
  /\ tries \in 0..3
  /\ accepted \subseteq [task : Task, failed : BOOLEAN]

(* What is wrong with a submission and reaches a test, the baseline, the   *)
(* coverage or the linter.                                                 *)
Wrong(t) ==
  \/ defect[t] \in {"load", "build", "test", "race", "bench", "lint"}
  \/ defect[t] = "slow" /\ Bad \notin NoBench
  \/ defect[t] = "uncovered" /\ t \in Covered

(* grade.go:45-62: the server hears of a task that it passed only when     *)
(* nothing is wrong with it, and that it failed only when its tests do     *)
(* (not, say, the linter), whatever happened to the tasks before it.       *)
VerdictRight ==
  \A r \in accepted : IF r.failed THEN defect[r.task] \in {"test", "race", "bench"}
                                  ELSE ~Wrong(r.task)

(* grade.go:67: a push is green only when every task that it touches, by   *)
(* its directory or by what it watches, is right and known to the server.  *)
GreenMeansPassed ==
  pc = "exit0" =>
    \A f \in files, t \in Task :
      f.dir = t \/ t \in f.watched => ~Wrong(t) /\ [task |-> t, failed |-> FALSE] \in accepted

(* report.go:27: a server that takes no report cannot hold up the grader.  *)
GradeEnds == <>(pc \in {"exit0", "exit1"})

-----------------------------------------------------------------------------
(* The inductive invariant, beside the types: what grade knows of the task *)
(* that it is at.                                                          *)
AtATask == pc \in {"copy", "build", "run", "report"}

TypesOfGrade ==
  /\ files \subseteq File /\ defect \in [Task -> Defect]
  /\ AtATask => todo # <<>>
  /\ IF pc = "report" THEN tries \in 0..2 ELSE pc # "exit1" => tries = 0

(* The tests that run are those of the private repository, and a package   *)
(* that is through had no error that its tests and benchmarks show.        *)
Tested ==
  /\ pc \in {"build", "run"} => tmp["tests"] = "private"
  /\ pc \in {"copy", "build", "run"} => ~testFailed
  /\ pc = "run" => /\ ~Has("load") /\ ~Has("build")
                   /\ Bad \notin left => /\ ~Has("test") /\ ~Has("race") /\ ~Has("bench")
                                         /\ Bad \notin NoBench => ~Has("slow")

(* The verdict that is about to be reported, and those that were.          *)
VerdictKnown ==
  pc = "report" => IF testFailed THEN failed /\ defect[Head(todo)] \in {"test", "race", "bench"}
                                 ELSE ~Wrong(Head(todo))

(* Until something fails, a task is still to be graded or has passed.      *)
NoneForgotten ==
  pc \notin {"start", "exit1"} /\ ~failed =>
    \A t \in findChangedTasks(files) :
      t \in Range(todo) \/ (~Wrong(t) /\ [task |-> t, failed |-> FALSE] \in accepted)

GreenIsThrough == pc = "exit0" => ~failed /\ todo = <<>>

GradeInv ==
  /\ GradeTypeOK /\ TypesOfGrade
  /\ Tested /\ VerdictKnown /\ VerdictRight /\ NoneForgotten /\ GreenIsThrough
=============================================================================
