---------------------------- MODULE TopSortSteps ----------------------------
(***************************************************************************)
(* A call of build.TopSort (distbuild/pkg/build/top_sort.go) step by step: *)
(* the loop that fills jobIDIndex, the loop that visits every job, and the *)
(* calls of visit that are still running, as a stack.  Module TopSort has  *)
(* the same function as the coordinator's module uses it, in one step.     *)
(***************************************************************************)
EXTENDS TopSort, FiniteSets

CONSTANTS
  ID,      \* the job IDs
  Graph    \* the graphs that clients may send

(* Nothing in the code rules out a cycle, a dependency that is not in the  *)
(* graph, or an ID that repeats.                                           *)
ASSUME GraphAssumption ==
  \A g \in Graph : g.jobs \in Seq(ID) /\ g.deps \in [ID -> Seq(ID)]

VARIABLES
  jobs,        \* the argument, as IDs
  deps,        \* Job.Deps of every ID
  pc,          \* the loop that runs: "index", "visit", or "returned"
  i,           \* the position it has reached
  jobIDIndex,  \* a position in jobs for every ID, the zero value if it has none
  visited,     \* the positions that are marked
  stack,       \* the calls of visit: the job, and its next dependency
  sorted       \* the result so far

graph == <<jobs, deps>>
vars == <<graph, pc, i, jobIDIndex, visited, stack, sorted>>

Init ==
  /\ \E g \in Graph : jobs = g.jobs /\ deps = g.deps
  /\ pc = "index" /\ i = 1
  /\ jobIDIndex = [id \in ID |-> 1]
  /\ visited = {} /\ stack = <<>> /\ sorted = <<>>

IndexJob ==
  /\ pc = "index" /\ i <= Len(jobs)
  /\ jobIDIndex' = [jobIDIndex EXCEPT ![jobs[i]] = i]
  /\ i' = i + 1
  /\ UNCHANGED <<graph, pc, visited, stack, sorted>>

AllIndexed ==
  /\ pc = "index" /\ i > Len(jobs)
  /\ pc' = "visit" /\ i' = 1
  /\ UNCHANGED <<graph, jobIDIndex, visited, stack, sorted>>

(* Slips: visited is kept by ID; or it is set when the call returns.       *)
VisitByID(x, calls) ==
  IF \E y \in visited : jobs[y] = jobs[x]
  THEN stack' = calls /\ UNCHANGED visited
  ELSE stack' = Append(calls, [job |-> x, dep |-> 1]) /\ visited' = visited \cup {x}

VisitUnmarked(x, calls) ==
  IF x \in visited
  THEN stack' = calls /\ UNCHANGED visited
  ELSE stack' = Append(calls, [job |-> x, dep |-> 1])
       /\ visited' = visited \cup {c.job : c \in Range(stack)}

(* A call of visit returns at once for a job that is marked.               *)
Visit(x, calls) ==
  IF x \in visited
  THEN stack' = calls /\ UNCHANGED visited
  ELSE stack' = Append(calls, [job |-> x, dep |-> 1]) /\ visited' = visited \cup {x}

VisitRoot ==
  /\ pc = "visit" /\ stack = <<>> /\ i <= Len(jobs)
  /\ Visit(i, stack)
  /\ i' = i + 1
  /\ UNCHANGED <<graph, pc, jobIDIndex, sorted>>

Top == stack[Len(stack)]
TopDeps == deps[jobs[Top.job]]

(* Slip: the call stays at the dependency.                                 *)
VisitDepAgain ==
  /\ stack # <<>> /\ Top.dep <= Len(TopDeps)
  /\ Visit(jobIDIndex[TopDeps[Top.dep]], stack)
  /\ UNCHANGED <<graph, pc, i, jobIDIndex, sorted>>

VisitDep ==
  /\ stack # <<>> /\ Top.dep <= Len(TopDeps)
  /\ Visit(jobIDIndex[TopDeps[Top.dep]], [stack EXCEPT ![Len(stack)].dep = @ + 1])
  /\ UNCHANGED <<graph, pc, i, jobIDIndex, sorted>>

(* Slip: the last dependency may be left out.                              *)
AppendJobEarly ==
  /\ stack # <<>> /\ Top.dep >= Len(TopDeps)
  /\ sorted' = Append(sorted, jobs[Top.job])
  /\ stack' = Front(stack)
  /\ UNCHANGED <<graph, pc, i, jobIDIndex, visited>>

AppendJob ==
  /\ stack # <<>> /\ Top.dep > Len(TopDeps)
  /\ sorted' = Append(sorted, jobs[Top.job])
  /\ stack' = Front(stack)
  /\ UNCHANGED <<graph, pc, i, jobIDIndex, visited>>

Return ==
  /\ pc = "visit" /\ stack = <<>> /\ i > Len(jobs)
  /\ pc' = "returned"
  /\ UNCHANGED <<graph, i, jobIDIndex, visited, stack, sorted>>

Next == IndexJob \/ AllIndexed \/ VisitRoot \/ VisitDep \/ AppendJob \/ Return

(* The function runs on; it waits for nothing.                             *)
Spec == Init /\ [][Next]_vars /\ WF_vars(Next)

-----------------------------------------------------------------------------

TypeOK ==
  /\ jobs \in Seq(ID) /\ deps \in [ID -> Seq(ID)]
  /\ pc \in {"index", "visit", "returned"}
  /\ i \in 1..(Len(jobs) + 1)
  /\ jobIDIndex \in [ID -> DOMAIN jobs \cup {1}]
  /\ visited \subseteq DOMAIN jobs
  /\ stack \in Seq([job : DOMAIN jobs, dep : Nat \ {0}])
  /\ sorted \in Seq(Range(jobs))

Closed == \A j \in Range(jobs) : Range(deps[j]) \subseteq Range(jobs)

IsRank(rank) ==
  \A j \in Range(jobs) : \A d \in Range(deps[j]) \cap Range(jobs) : rank[d] < rank[j]

Acyclic == \E rank \in [Range(jobs) -> 1..Len(jobs)] : IsRank(rank)

(* top_sort.go:13-30: whatever the graph, a cycle or a missing dependency  *)
(* included, TopSort returns every job of it as often as it was sent.      *)
EveryJobSorted ==
  pc = "returned" =>
    \A id \in ID : Cardinality({k \in DOMAIN sorted : sorted[k] = id})
                     = Cardinality({k \in DOMAIN jobs : jobs[k] = id})

(* coordinator.go:160-178: on a graph without cycles that holds all its    *)
(* dependencies, SignalBuild never waits for a job that it has yet to      *)
(* schedule itself.                                                        *)
DepsSortedFirst ==
  pc = "returned" /\ Closed /\ Acyclic => IsTopOrder(sorted, jobs, deps)

(* top_sort.go:14-22: visit is never nested deeper than the graph has      *)
(* jobs, not even on a cycle.                                              *)
RecursionBounded == Len(stack) <= Len(jobs)

(* The result is that of the function in module TopSort, from which the    *)
(* coordinator's module takes the order of a build.                        *)
ReturnsTopSort == pc = "returned" => sorted = TopSort(jobs, deps)

(* top_sort.go:4: TopSort comes to an end, on a cycle too.                 *)
Returns == <>(pc = "returned")

-----------------------------------------------------------------------------
(* The inductive invariant.                                                *)

Running == {stack[a].job : a \in DOMAIN stack}
Finished == visited \ Running

(* jobIDIndex leads every ID of the part that is indexed to a job with it. *)
Indexed ==
  \A k \in DOMAIN jobs : (pc = "index" => k < i) => jobs[jobIDIndex[jobs[k]]] = jobs[k]

(* The two loops, and the calls that run.                                  *)
Progress ==
  /\ pc = "index" => visited = {} /\ stack = <<>> /\ sorted = <<>>
  /\ pc # "index" => 1..(i - 1) \subseteq visited
  /\ pc = "returned" => stack = <<>> /\ i = Len(jobs) + 1
  /\ Running \subseteq visited
  /\ \A a, b \in DOMAIN stack : stack[a].job = stack[b].job => a = b

(* A job that has returned is in the result as often as it was sent.       *)
Counted ==
  /\ Cardinality(Finished) = Len(sorted)
  /\ \A id \in ID : Cardinality({k \in DOMAIN sorted : sorted[k] = id})
                      = Cardinality({x \in Finished : jobs[x] = id})
  /\ \A x \in Finished : jobs[x] \in Range(sorted)

(* A call has visited the dependencies before its next one.                *)
DepsVisited ==
  \A a \in DOMAIN stack :
    /\ stack[a].dep <= Len(deps[jobs[stack[a].job]]) + 1
    /\ \A q \in 1..(stack[a].dep - 1) :
          jobIDIndex[deps[jobs[stack[a].job]][q]] \in visited

(* Without cycles a call depends, directly or not, on every call that it   *)
(* was made by: its rank is lower than theirs, so no call waits for itself. *)
StackDescends ==
  Closed => \A rank \in [Range(jobs) -> 1..Len(jobs)] :
              IsRank(rank) => \A a, b \in DOMAIN stack :
                                a < b => rank[jobs[stack[b].job]] < rank[jobs[stack[a].job]]

SortedAfterDeps ==
  Closed /\ Acyclic =>
    \A k \in DOMAIN sorted : \A dep \in Range(deps[sorted[k]]) :
      \E m \in 1..(k - 1) : sorted[m] = dep

SortInv ==
  TypeOK /\ Indexed /\ Progress /\ Counted /\ DepsVisited /\ StackDescends /\ SortedAfterDeps
=============================================================================
