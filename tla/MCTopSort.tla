----------------------------- MODULE MCTopSort -----------------------------
(***************************************************************************)
(* A call of TopSort on each of the small graphs that a client may send:   *)
(* with missing dependencies, with cycles, and with IDs that repeat.  The  *)
(* code only compares IDs, so they are numbers in the order in which they  *)
(* first occur.                                                            *)
(***************************************************************************)
EXTENDS TopSortSteps

CONSTANTS
  MaxJobs,   \* bound: jobs in a graph
  MaxDeps,   \* bound: dependencies of a job
  MaxEdges   \* bound: dependencies of all the jobs

IDs == 1..MaxJobs

JobLists ==
  {js \in UNION {[1..n -> IDs] : n \in 0..MaxJobs} :
     \A k \in DOMAIN js : js[k] <= Cardinality({js[m] : m \in 1..(k - 1)}) + 1}

DepLists == {ds \in UNION {[1..n -> IDs] : n \in 0..MaxDeps} : IsInjective(ds)}

(* A copy of a job has the dependencies that the job has.                  *)
SmallGraphs ==
  {g \in [jobs : JobLists, deps : [IDs -> DepLists]] :
     /\ \A id \in IDs : id \notin Range(g.jobs) => g.deps[id] = <<>>
     /\ Cardinality({e \in IDs \X IDs : e[2] \in Range(g.deps[e[1]])}) <= MaxEdges}
=============================================================================
