---------------------------- MODULE BuildGraph -----------------------------
(***************************************************************************)
(* What the parts of the system share: the nodes of build graphs           *)
(* (distbuild/pkg/build/graph.go) and the IDs of the workers.              *)
(***************************************************************************)
EXTENDS Naturals, Sequences, FiniteSets, TopSort

CONSTANTS
  Job,       \* the job IDs
  File,      \* the IDs of source files
  Worker,    \* the worker IDs, which are also their endpoints
  Nil,       \* no worker, no lock holder, no job
  Deps,      \* Deps[j]: Job.Deps of the job with ID j
  Inputs,    \* Inputs[j]: the source files of the job with ID j
  Requests   \* the graphs a client may ask to build: sequences of jobs

(* A job ID is the hash of the job's inputs, commands and dependencies     *)
(* (graph.go:7): it determines Deps and Inputs, and there are no cycles.   *)
(* A graph holds every job once, with its dependencies.                    *)
ASSUME GraphAssumption ==
  /\ Nil \notin Worker /\ IsFiniteSet(Worker)
  /\ Deps \in [Job -> Seq(Job)]
  /\ Inputs \in [Job -> SUBSET File]
  /\ Requests \subseteq Seq(Job)
  /\ \A g \in Requests : IsInjective(g)

(* What the proofs use of TopSort: TLC evaluates it on the graphs of every *)
(* run, and module MCTopSort checks it on all small graphs.                *)
ASSUME TopSortAssumption ==
  \A g \in Requests : /\ TopSort(g, Deps) \in Seq(Job)
                      /\ IsTopOrder(TopSort(g, Deps), g, Deps)

(* api.JobSpec: arts[i] is the worker to download the i-th dependency from *)
JobSpec == [job : Job, arts : Seq(Worker)]

ASSUME NilAssumption == Nil \notin JobSpec

SourceFiles(g) == UNION {Inputs[j] : j \in Range(g)}
=============================================================================
