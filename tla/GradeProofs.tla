---------------------------- MODULE GradeProofs ----------------------------
(***************************************************************************)
(* The verdicts of the grader, for every commit, every set of tasks and    *)
(* packages, every defect and every answer of the score server.  GradeInv  *)
(* (module Grade) is inductive.                                            *)
(***************************************************************************)
EXTENDS Grade, FiniteSetTheorems, TLAPS

(* The task at the head of the list, and those that come after it.         *)
LEMMA HeadTail ==
  ASSUME todo \in Seq(Task), InOrder(todo), todo # <<>>
  PROVE  /\ Head(todo) \in Task
         /\ Tail(todo) \in Seq(Task)
         /\ InOrder(Tail(todo))
         /\ \A t \in Range(todo) : t = Head(todo) \/ t \in Range(Tail(todo))
<1>1. /\ Head(todo) \in Task /\ Tail(todo) \in Seq(Task)
      /\ DOMAIN todo = 1..Len(todo) /\ Len(todo) \in Nat \ {0}
      /\ DOMAIN Tail(todo) = 1..(Len(todo) - 1)
      /\ Head(todo) = todo[1]
      /\ \A i \in 1..(Len(todo) - 1) : Tail(todo)[i] = todo[i + 1]
  OBVIOUS
<1>2. InOrder(Tail(todo))
  <2> SUFFICES ASSUME NEW i \in 1..(Len(todo) - 1), NEW k \in 1..(Len(todo) - 1), i < k
               PROVE  Tail(todo)[i] < Tail(todo)[k]
    BY <1>1 DEF InOrder
  <2>1. i + 1 \in 1..Len(todo) /\ k + 1 \in 1..Len(todo) /\ i + 1 < k + 1
    BY <1>1
  <2> QED
    BY <1>1, <2>1 DEF InOrder
<1>3. ASSUME NEW i \in 1..Len(todo), i # 1
      PROVE  todo[i] \in Range(Tail(todo))
  <2>1. i - 1 \in 1..(Len(todo) - 1) /\ (i - 1) + 1 = i
    BY <1>1, <1>3
  <2>2. Tail(todo)[i - 1] = todo[i]
    BY <1>1, <2>1
  <2> QED
    BY <1>1, <2>1, <2>2 DEF Range
<1> QED
  BY <1>1, <1>2, <1>3 DEF Range

(* The changed tasks in order are tasks in order.                          *)
LEMMA SortedFacts ==
  ASSUME NEW S \in SUBSET Task, NEW s \in Sorted(S)
  PROVE  s \in Seq(Task) /\ InOrder(s) /\ Range(s) = S
<1>1. IsFiniteSet(S)
  BY GradeAssumption, FS_Subset
<1>2. Cardinality(S) \in Nat
  BY <1>1, FS_CardinalityType
<1>3. s \in [1..Cardinality(S) -> Task]
  BY DEF Sorted
<1> QED
  BY <1>2, <1>3 DEF Sorted

LEMMA GradeInit == Init => GradeInv
<1> SUFFICES ASSUME Init PROVE GradeInv
  OBVIOUS
<1>1. GradeTypeOK
  <2>1. <<>> \in Seq(Task) /\ InOrder(<<>>)
    BY DEF InOrder
  <2>2. tmp \in [Class -> {"none", "student", "private"}]
    BY DEF Init
  <2>3. todo \in Seq(Task) /\ InOrder(todo) /\ tries \in 0..3
    BY <2>1 DEF Init
  <2>4. left \subseteq Pkg /\ accepted \subseteq [task : Task, failed : BOOLEAN]
    BY DEF Init
  <2> QED
    BY <2>2, <2>3, <2>4 DEF Init, GradeTypeOK
<1>2. TypesOfGrade
  BY DEF Init, TypesOfGrade, AtATask
<1> QED
  BY <1>1, <1>2 DEF Init, GradeInv, Tested, VerdictKnown, VerdictRight, NoneForgotten, GreenIsThrough

-----------------------------------------------------------------------------
(* The two ways in which grade or a task of it comes to an end early.      *)
LEMMA FatalInv ==
  ASSUME GradeInv, Fatal
  PROVE  GradeInv'
BY DEF GradeInv, Fatal, Same, GradeTypeOK, TypesOfGrade, AtATask, Tested, VerdictKnown,
       VerdictRight, Wrong, NoneForgotten, GreenIsThrough

LEMMA TaskFailsInv ==
  ASSUME GradeInv, pc \in {"build", "run"}, NEW byTest \in BOOLEAN, TaskFails(byTest),
         byTest => defect[Head(todo)] \in {"test", "race", "bench"}
  PROVE  GradeInv'
<1> USE DEF GradeInv
<1>1. /\ todo \in Seq(Task) /\ InOrder(todo) /\ todo # <<>>
      /\ Tail(todo) \in Seq(Task) /\ InOrder(Tail(todo))
  BY HeadTail DEF GradeTypeOK, TypesOfGrade, AtATask
<1>2. /\ failed' = TRUE /\ testFailed' = byTest /\ UNCHANGED <<files, defect, tmp, left, tries, accepted>>
      /\ \/ byTest /\ pc' = "report" /\ todo' = todo
         \/ ~byTest /\ pc' = "next" /\ todo' = Tail(todo)
  BY DEF TaskFails, Same
<1>3. GradeTypeOK'
  BY <1>1, <1>2 DEF GradeTypeOK
<1>4. TypesOfGrade'
  BY <1>1, <1>2 DEF TypesOfGrade, AtATask
<1>5. Tested' /\ NoneForgotten' /\ GreenIsThrough'
  BY <1>2 DEF Tested, NoneForgotten, GreenIsThrough
<1>6. VerdictKnown'
  BY <1>2 DEF VerdictKnown
<1>7. VerdictRight'
  BY <1>2 DEF VerdictRight, Wrong
<1> QED
  BY <1>3, <1>4, <1>5, <1>6, <1>7

(* The loop over the changed tasks.                                        *)
LEMMA ListTasksInv ==
  ASSUME GradeInv, ListTasks
  PROVE  GradeInv'
<1> USE DEF GradeInv
<1>1. /\ pc = "start"
      /\ UNCHANGED <<files, defect, failed, testFailed, tmp, left, tries, accepted>>
      /\ \/ todo' \in Sorted(findChangedTasks(files)) /\ pc' = "next"
         \/ pc' = "exit1" /\ UNCHANGED todo
  BY DEF ListTasks, Same
<1>2. CASE todo' \in Sorted(findChangedTasks(files)) /\ pc' = "next"
  <2>1. findChangedTasks(files) \in SUBSET Task
    BY DEF findChangedTasks
  <2>2. todo' \in Seq(Task) /\ InOrder(todo') /\ Range(todo') = findChangedTasks(files)
    BY <1>2, <2>1, SortedFacts
  <2>3. GradeTypeOK'
    BY <1>1, <1>2, <2>2 DEF GradeTypeOK
  <2>4. TypesOfGrade' /\ Tested' /\ VerdictKnown' /\ GreenIsThrough'
    BY <1>1, <1>2 DEF TypesOfGrade, AtATask, Tested, VerdictKnown, GreenIsThrough
  <2>5. VerdictRight'
    BY <1>1 DEF VerdictRight, Wrong
  <2>6. NoneForgotten'
    BY <1>1, <2>2 DEF NoneForgotten, findChangedTasks
  <2> QED
    BY <2>3, <2>4, <2>5, <2>6
<1>3. CASE pc' = "exit1" /\ UNCHANGED todo
  BY <1>1, <1>3, FatalInv DEF Fatal, Same
<1> QED
  BY <1>1, <1>2, <1>3

LEMMA NextTaskInv ==
  ASSUME GradeInv, NextTask
  PROVE  GradeInv'
<1> USE DEF GradeInv
<1>1. /\ pc = "next" /\ testFailed' = FALSE
      /\ UNCHANGED <<files, defect, todo, failed, tmp, left, tries, accepted>>
      /\ \/ todo # <<>> /\ pc' = "copy"
         \/ todo = <<>> /\ failed /\ pc' = "exit1"
         \/ todo = <<>> /\ ~failed /\ pc' = "exit0"
  BY DEF NextTask, Same
<1>2. GradeTypeOK'
  BY <1>1 DEF GradeTypeOK
<1>3. TypesOfGrade'
  BY <1>1 DEF TypesOfGrade, AtATask
<1>4. Tested' /\ VerdictKnown' /\ GreenIsThrough'
  BY <1>1 DEF Tested, VerdictKnown, GreenIsThrough
<1>5. VerdictRight'
  BY <1>1 DEF VerdictRight, Wrong
<1>6. NoneForgotten'
  BY <1>1 DEF NoneForgotten, findChangedTasks, Wrong
<1> QED
  BY <1>2, <1>3, <1>4, <1>5, <1>6

-----------------------------------------------------------------------------
(* A submission is tested.                                                 *)
LEMMA CopyInv ==
  ASSUME GradeInv, Copy
  PROVE  GradeInv'
<1> USE DEF GradeInv
<1>1. CASE /\ tmp' = [c \in Class |-> IF c = "solution" THEN "student" ELSE "private"]
           /\ pc' = "build"
           /\ Same /\ UNCHANGED <<todo, failed, testFailed, left, tries, accepted>>
  <2>1. pc = "copy" /\ tmp' \in [Class -> {"none", "student", "private"}] /\ tmp'["tests"] = "private"
    BY <1>1 DEF Copy, Class
  <2>2. GradeTypeOK'
    BY <1>1, <2>1 DEF GradeTypeOK, Same
  <2>3. TypesOfGrade'
    BY <1>1, <2>1 DEF TypesOfGrade, AtATask, Same
  <2>4. Tested' /\ VerdictKnown' /\ GreenIsThrough'
    BY <1>1, <2>1 DEF Tested, VerdictKnown, GreenIsThrough
  <2>5. VerdictRight' /\ NoneForgotten'
    BY <1>1, <2>1 DEF VerdictRight, Wrong, NoneForgotten, findChangedTasks, Same
  <2> QED
    BY <2>2, <2>3, <2>4, <2>5
<1> QED
  BY <1>1, FatalInv DEF Copy

LEMMA BuildInv ==
  ASSUME GradeInv, Build
  PROVE  GradeInv'
<1> USE DEF GradeInv
<1>1. CASE TaskFails(FALSE)
  BY <1>1, TaskFailsInv DEF Build
<1>2. CASE /\ ~Has("load") /\ ~Has("build")
           /\ pc' = "run" /\ left' = Pkg
           /\ Same /\ UNCHANGED <<todo, failed, testFailed, tmp, tries, accepted>>
  <2>1. pc = "build" /\ Bad \in left'
    BY <1>2, GradeAssumption DEF Build
  <2>2. GradeTypeOK'
    BY <1>2, <2>1 DEF GradeTypeOK, Same
  <2>3. TypesOfGrade'
    BY <1>2, <2>1 DEF TypesOfGrade, AtATask, Same
  <2>4. Tested' /\ VerdictKnown' /\ GreenIsThrough'
    BY <1>2, <2>1 DEF Tested, VerdictKnown, GreenIsThrough, Has, Same
  <2>5. VerdictRight' /\ NoneForgotten'
    BY <1>2, <2>1 DEF VerdictRight, Wrong, NoneForgotten, findChangedTasks, Same
  <2> QED
    BY <2>2, <2>3, <2>4, <2>5
<1> QED
  BY <1>1, <1>2, FatalInv DEF Build

LEMMA RunPkgInv ==
  ASSUME GradeInv, RunPkg
  PROVE  GradeInv'
<1> USE DEF GradeInv
<1>1. pc = "run" /\ tmp["tests"] = "private"
  BY DEF RunPkg, Tested
<1>2. ASSUME NEW k \in left, Fails(k), TaskFails(TRUE)
      PROVE  GradeInv'
  BY <1>1, <1>2, TaskFailsInv DEF Fails, Has
<1>3. CASE TaskFails(FALSE)
  BY <1>1, <1>3, TaskFailsInv
<1>4. ASSUME NEW k \in left, ~Fails(k), k = Bad /\ k \notin NoBench => ~Has("slow"),
             left' = left \ {k},
             Same /\ UNCHANGED <<pc, todo, failed, testFailed, tmp, tries, accepted>>
      PROVE  GradeInv'
  <2>1. GradeTypeOK'
    BY <1>4 DEF GradeTypeOK, Same
  <2>2. TypesOfGrade' /\ VerdictKnown' /\ GreenIsThrough'
    BY <1>1, <1>4 DEF TypesOfGrade, AtATask, Same, VerdictKnown, GreenIsThrough
  <2>3. Tested'
    BY <1>1, <1>4 DEF Tested, Fails, Has, Same
  <2>4. VerdictRight' /\ NoneForgotten'
    BY <1>1, <1>4 DEF VerdictRight, Wrong, NoneForgotten, findChangedTasks, Same
  <2> QED
    BY <2>1, <2>2, <2>3, <2>4
<1> QED
  BY <1>2, <1>3, <1>4, FatalInv DEF RunPkg

LEMMA CheckInv ==
  ASSUME GradeInv, Check
  PROVE  GradeInv'
<1> USE DEF GradeInv
<1>1. CASE TaskFails(FALSE)
  BY <1>1, TaskFailsInv DEF Check
<1>2. CASE /\ ~((Has("uncovered") /\ Head(todo) \in Covered) \/ Has("lint"))
           /\ pc' = "report"
           /\ Same /\ UNCHANGED <<todo, failed, testFailed, tmp, left, tries, accepted>>
  <2>1. pc = "run" /\ Bad \notin left
    BY DEF Check
  <2>2. ~testFailed /\ ~Wrong(Head(todo))
    BY <1>2, <2>1 DEF Tested, Has, Wrong
  <2>3. GradeTypeOK'
    BY <1>2 DEF GradeTypeOK, Same
  <2>4. TypesOfGrade' /\ Tested' /\ GreenIsThrough'
    BY <1>2, <2>1 DEF TypesOfGrade, AtATask, Same, Tested, GreenIsThrough
  <2>5. VerdictKnown'
    BY <1>2, <2>2 DEF VerdictKnown, Wrong, Same
  <2>6. VerdictRight' /\ NoneForgotten'
    BY <1>2, <2>1 DEF VerdictRight, Wrong, NoneForgotten, findChangedTasks, Same
  <2> QED
    BY <2>3, <2>4, <2>5, <2>6
<1> QED
  BY <1>1, <1>2 DEF Check

(* The verdict is sent, and the task is through when the server says so.   *)
LEMMA ReportInv ==
  ASSUME GradeInv, Report
  PROVE  GradeInv'
<1> USE DEF GradeInv
<1> DEFINE verdict == [task |-> Head(todo), failed |-> testFailed]
<1>1. /\ pc = "report" /\ UNCHANGED <<files, defect, failed, testFailed, tmp, left>>
      /\ accepted' \in {accepted, accepted \cup {verdict}}
      /\ \/ pc' = "next" /\ todo' = Tail(todo) /\ tries' = 0 /\ verdict \in accepted'
         \/ UNCHANGED todo /\ tries = 2 /\ tries' = 3 /\ pc' = "exit1"
         \/ UNCHANGED todo /\ tries \in 0..1 /\ tries' = tries + 1 /\ pc' = "report"
  <2>1. tries \in 0..2 /\ pc = "report"
    BY DEF Report, TypesOfGrade
  <2>2. PICK gets \in BOOLEAN, answers \in BOOLEAN :
          /\ accepted' = IF gets THEN accepted \cup {verdict} ELSE accepted
          /\ IF gets /\ answers
             THEN pc' = "next" /\ todo' = Tail(todo) /\ tries' = 0
             ELSE /\ tries' = tries + 1
                  /\ pc' = IF tries = 2 THEN "exit1" ELSE "report"
                  /\ UNCHANGED todo
    BY DEF Report
  <2>3. CASE gets /\ answers
    BY <2>1, <2>2, <2>3 DEF Report, Same
  <2>4. CASE ~(gets /\ answers)
    BY <2>1, <2>2, <2>4 DEF Report, Same
  <2> QED
    BY <2>3, <2>4
<1>2. /\ todo \in Seq(Task) /\ InOrder(todo) /\ todo # <<>> /\ Head(todo) \in Task
      /\ Tail(todo) \in Seq(Task) /\ InOrder(Tail(todo))
      /\ \A t \in Range(todo) : t = Head(todo) \/ t \in Range(Tail(todo))
  BY <1>1, HeadTail DEF GradeTypeOK, TypesOfGrade, AtATask
<1>3. accepted' \subseteq [task : Task, failed : BOOLEAN]
  BY <1>1, <1>2 DEF GradeTypeOK
<1>4. GradeTypeOK'
  <2>1. todo' \in Seq(Task) /\ InOrder(todo')
    BY <1>1, <1>2
  <2>2. tries' \in 0..3 /\ pc' \in {"next", "report", "exit1"}
    BY <1>1
  <2> QED
    BY <1>1, <1>3, <2>1, <2>2 DEF GradeTypeOK
<1>5. TypesOfGrade' /\ Tested' /\ GreenIsThrough'
  BY <1>1, <1>2 DEF TypesOfGrade, AtATask, Tested, GreenIsThrough
<1>6. VerdictKnown'
  BY <1>1 DEF VerdictKnown, Wrong
<1>7. VerdictRight'
  <2>1. IF testFailed THEN defect[Head(todo)] \in {"test", "race", "bench"}
                      ELSE ~Wrong(Head(todo))
    BY <1>1 DEF VerdictKnown
  <2>2. \A r \in accepted' : r \in accepted \/ (r.task = Head(todo) /\ r.failed = testFailed)
    BY <1>1
  <2> QED
    BY <1>1, <2>1, <2>2 DEF VerdictRight, Wrong
<1>8. NoneForgotten'
  <2> SUFFICES ASSUME ~failed, pc' # "exit1", NEW t \in findChangedTasks(files)
               PROVE  \/ t \in Range(todo')
                      \/ ~Wrong(t) /\ [task |-> t, failed |-> FALSE] \in accepted'
    BY <1>1 DEF NoneForgotten, findChangedTasks, Wrong
  <2>1. t \in Range(todo) \/ (~Wrong(t) /\ [task |-> t, failed |-> FALSE] \in accepted)
    BY <1>1 DEF NoneForgotten
  <2>2. testFailed = FALSE /\ ~Wrong(Head(todo))
    BY <1>1 DEF VerdictKnown, GradeTypeOK
  <2>3. CASE t = Head(todo) /\ pc' = "next"
    BY <1>1, <2>2, <2>3
  <2>4. CASE t # Head(todo) \/ pc' = "report"
    BY <1>1, <1>2, <2>1, <2>4
  <2> QED
    BY <1>1, <2>3, <2>4
<1> QED
  BY <1>4, <1>5, <1>6, <1>7, <1>8

LEMMA GradeStep == GradeInv /\ [Next]_vars => GradeInv'
<1>1. GradeInv /\ UNCHANGED vars => GradeInv'
  BY DEF vars, GradeInv, GradeTypeOK, TypesOfGrade, AtATask, Tested, Has, VerdictKnown,
         VerdictRight, Wrong, NoneForgotten, findChangedTasks, GreenIsThrough
<1> QED
  BY <1>1, ListTasksInv, NextTaskInv, CopyInv, BuildInv, RunPkgInv, CheckInv, ReportInv DEF Next

-----------------------------------------------------------------------------
(* The place of grade, its verdicts and its list of tasks stay as GradeInv *)
(* says.                                                                   *)
THEOREM GradeInvariant == Spec => []GradeInv
<1> QED
  BY GradeInit, GradeStep, PTL DEF Spec

(* Types; a report is sent at most three times (report.go:27).             *)
THEOREM GradeTypeCorrect == Spec => []GradeTypeOK
<1>1. GradeInv => GradeTypeOK
  BY DEF GradeInv
<1> QED
  BY <1>1, GradeInvariant, PTL

(* The score server only hears what is true of the task it is told about   *)
(* (grade.go:45-62), whatever was lost and whatever came before.           *)
THEOREM VerdictsAreRight == Spec => []VerdictRight
<1>1. GradeInv => VerdictRight
  BY DEF GradeInv
<1> QED
  BY <1>1, GradeInvariant, PTL

(* A push is green only when the server knows of every task that it        *)
(* touches that it passed (grade.go:67).                                   *)
THEOREM GreenIsDeserved == Spec => []GreenMeansPassed
<1>1. GradeInv => GreenMeansPassed
  <2> SUFFICES ASSUME GradeInv, pc = "exit0", NEW f \in files, NEW t \in Task,
                      f.dir = t \/ t \in f.watched
               PROVE  ~Wrong(t) /\ [task |-> t, failed |-> FALSE] \in accepted
    BY DEF GreenMeansPassed
  <2>1. t \in findChangedTasks(files)
    BY DEF findChangedTasks
  <2>2. t \notin Range(todo)
    BY DEF GradeInv, GreenIsThrough, Range
  <2> QED
    BY <2>1, <2>2 DEF GradeInv, GreenIsThrough, NoneForgotten
<1> QED
  BY <1>1, GradeInvariant, PTL
=============================================================================
