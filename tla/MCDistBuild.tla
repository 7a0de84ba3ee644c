---------------------------- MODULE MCDistBuild ----------------------------
(* Small instances of DistBuild: graphs of at most three jobs.             *)
EXTENDS DistBuildInv

CONSTANTS j1, j2, j3, f1

(* j2 needs the artifact of j1, and j1 a source file; or both need it.     *)
PairDeps == j1 :> <<>> @@ j2 :> <<j1>>
PairInputs == j1 :> {f1} @@ j2 :> {}
SharedInputs == j1 :> {f1} @@ j2 :> {f1}
PairRequests == {<<j1>>, <<j2, j1>>}
WholePair == {<<j2, j1>>}

(* Each job needs the one before.                                          *)
ChainDeps == j1 :> <<>> @@ j2 :> <<j1>> @@ j3 :> <<j2>>
NoInputs == j1 :> {} @@ j2 :> {} @@ j3 :> {}
ChainRequests == {<<j1, j2, j3>>}

Perms == Permutations(Worker) \cup Permutations(Build)
=============================================================================
