---------------------------- MODULE BuildService ---------------------------
(***************************************************************************)
(* What the coordinator promises its clients, with no workers, queue,      *)
(* channels or locks: jobs get done, each after the jobs it depends on,    *)
(* and a build is told of each of its jobs once, after it is done, and     *)
(* that it finished once, after it was told of all of them.                *)
(*                                                                         *)
(* A build may be told of a job that was done for another one, and so      *)
(* finish before its own client has signalled: Tell does not ask.          *)
(***************************************************************************)
EXTENDS Naturals, Sequences

CONSTANTS Build, Job, Deps, Requests

VARIABLES
  wanted,   \* the jobs of a build, {} before it is submitted
  done,     \* the jobs with an artifact somewhere
  told,     \* the jobs a build was told of
  over      \* the builds told that they finished

vars == <<wanted, done, told, over>>

JobsOf(g) == {g[i] : i \in DOMAIN g}

Init ==
  /\ wanted = [b \in Build |-> {}]
  /\ done = {}
  /\ told = [b \in Build |-> {}]
  /\ over = {}

Submit(b) ==
  /\ wanted[b] = {}
  /\ \E g \in Requests : wanted' = [wanted EXCEPT ![b] = JobsOf(g)]
  /\ UNCHANGED <<done, told, over>>

Do(j) ==
  /\ \E b \in Build : j \in wanted[b]
  /\ JobsOf(Deps[j]) \subseteq done
  /\ done' = done \cup {j}
  /\ UNCHANGED <<wanted, told, over>>

Tell(b, j) ==
  /\ j \in (wanted[b] \cap done) \ told[b]
  /\ told' = [told EXCEPT ![b] = @ \cup {j}]
  /\ UNCHANGED <<wanted, done, over>>

Finish(b) ==
  /\ b \notin over
  /\ wanted[b] # {}
  /\ told[b] = wanted[b]
  /\ over' = over \cup {b}
  /\ UNCHANGED <<wanted, done, told>>

Next ==
  \/ \E b \in Build : Submit(b) \/ Finish(b)
  \/ \E j \in Job : Do(j)
  \/ \E b \in Build, j \in Job : Tell(b, j)

Spec == Init /\ [][Next]_vars
=============================================================================
