------------------------------ MODULE TopSort ------------------------------
(***************************************************************************)
(* build.TopSort (distbuild/pkg/build/top_sort.go): the depth-first order  *)
(* in which SignalBuild schedules the jobs of a build.  A graph is a       *)
(* sequence of job IDs, as the client sent it, and deps the dependencies   *)
(* of every ID, in order.  Module TopSortSteps has the same call step by   *)
(* step, for every graph.                                                  *)
(***************************************************************************)
EXTENDS Naturals, Sequences, SequencesExt

(* jobIDIndex[dep]: the last position of the ID wins, and an ID that is    *)
(* not in the graph reads as the zero value, the first job.                *)
JobIDIndex(jobs, dep) ==
  IF Contains(jobs, dep) THEN Max({i \in DOMAIN jobs : jobs[i] = dep}) ELSE 1

(* Slip: a job comes before its dependencies.                              *)
TopSortPre(jobs, deps) ==
  LET State == [visited : SUBSET DOMAIN jobs, sorted : Seq(Range(jobs))]
      visit[i \in DOMAIN jobs, st \in State] ==
        IF i \in st.visited THEN st
        ELSE FoldLeft(LAMBDA s, dep : visit[JobIDIndex(jobs, dep), s],
                      [visited |-> st.visited \cup {i},
                       sorted |-> Append(st.sorted, jobs[i])],
                      deps[jobs[i]])
  IN  FoldLeft(LAMBDA s, i : visit[i, s],
               [visited |-> {}, sorted |-> <<>>],
               [i \in DOMAIN jobs |-> i]).sorted

(* visit(i): marks i, visits its dependencies in order, then appends it.   *)
TopSort(jobs, deps) ==
  LET State == [visited : SUBSET DOMAIN jobs, sorted : Seq(Range(jobs))]
      visit[i \in DOMAIN jobs, st \in State] ==
        IF i \in st.visited THEN st
        ELSE LET below == FoldLeft(LAMBDA s, dep : visit[JobIDIndex(jobs, dep), s],
                                   [st EXCEPT !.visited = @ \cup {i}],
                                   deps[jobs[i]])
             IN  [below EXCEPT !.sorted = Append(@, jobs[i])]
  IN  FoldLeft(LAMBDA s, i : visit[i, s],
               [visited |-> {}, sorted |-> <<>>],
               [i \in DOMAIN jobs |-> i]).sorted

-----------------------------------------------------------------------------

(* The reference: an order of the same jobs, each once and after its       *)
(* dependencies.                                                           *)
IsTopOrder(sorted, jobs, deps) ==
  /\ Len(sorted) = Len(jobs)
  /\ Range(sorted) = Range(jobs)
  /\ \A i \in DOMAIN sorted : \A dep \in Range(deps[sorted[i]]) :
        \E k \in 1..(i - 1) : sorted[k] = dep
=============================================================================
