------------------------------ MODULE WorkerLoop -----------------------------
(***************************************************************************)
(* worker.Worker (distbuild/pkg/worker/worker.go): Run sends a heartbeat,  *)
(* then for every job of the response collects the artifacts of its        *)
(* dependencies, downloads its source files, creates its artifact, runs    *)
(* its commands and commits.  Any error ends Run, for good.                *)
(*                                                                         *)
(* The caches of all workers are here: an artifact is read from the worker *)
(* that holds it, whether or not that worker's Run is still going.         *)
(***************************************************************************)
EXTENDS BuildGraph

VARIABLES
  wpc,        \* where Run is
  toRun,      \* resp.JobsToRun not yet taken
  spec,       \* the job being run, or Nil
  need,       \* positions in Deps of the artifacts left to collect
  fetch,      \* its source files left to download
  finished,   \* finishedJobs
  artifacts,  \* the artifact cache of each worker
  wfiles      \* the file cache of each worker

workerVars == <<wpc, toRun, spec, need, fetch, finished, artifacts, wfiles>>

WorkerInit ==
  /\ wpc = [w \in Worker |-> "next"]
  /\ toRun = [w \in Worker |-> {}]
  /\ spec = [w \in Worker |-> Nil]
  /\ need = [w \in Worker |-> {}]
  /\ fetch = [w \in Worker |-> {}]
  /\ finished = [w \in Worker |-> <<>>]
  /\ artifacts = [w \in Worker |-> {}]
  /\ wfiles = [w \in Worker |-> {}]

(* Slip: a worker that ends removes its artifacts.                         *)
RunReturnsClean(w) ==
  /\ wpc' = [wpc EXCEPT ![w] = "dead"]
  /\ artifacts' = [artifacts EXCEPT ![w] = {}]
  /\ UNCHANGED <<toRun, spec, need, fetch, finished, wfiles>>

(* Run returns an error: nothing restarts it, nothing is reported.         *)
RunReturns(w) ==
  /\ wpc' = [wpc EXCEPT ![w] = "dead"]
  /\ UNCHANGED <<toRun, spec, need, fetch, finished, artifacts, wfiles>>

(* All jobs of the last response are done: send a heartbeat.               *)
SendHeartbeat(w) ==
  /\ wpc[w] = "next"
  /\ toRun[w] = {}
  /\ wpc' = [wpc EXCEPT ![w] = "heartbeat"]
  /\ UNCHANGED <<toRun, spec, need, fetch, finished, artifacts, wfiles>>

(* Slip: the results reported are not forgotten.                           *)
ReceiveResponseKeep(w, jobsToRun) ==
  /\ wpc[w] = "heartbeat"
  /\ wpc' = [wpc EXCEPT ![w] = "next"]
  /\ toRun' = [toRun EXCEPT ![w] = jobsToRun]
  /\ UNCHANGED <<spec, need, fetch, finished, artifacts, wfiles>>

ReceiveResponse(w, jobsToRun) ==
  /\ wpc[w] = "heartbeat"
  /\ wpc' = [wpc EXCEPT ![w] = "next"]
  /\ toRun' = [toRun EXCEPT ![w] = jobsToRun]
  /\ finished' = [finished EXCEPT ![w] = <<>>]
  /\ UNCHANGED <<spec, need, fetch, artifacts, wfiles>>

(* The loop over JobsToRun, a map: in any order.                           *)
TakeJob(w) ==
  /\ wpc[w] = "next"
  /\ \E s \in toRun[w] :
       /\ toRun' = [toRun EXCEPT ![w] = @ \ {s}]
       /\ spec' = [spec EXCEPT ![w] = s]
       /\ need' = [need EXCEPT ![w] = DOMAIN s.arts]
       /\ fetch' = [fetch EXCEPT ![w] = Inputs[s.job]]
  /\ wpc' = [wpc EXCEPT ![w] = "collect"]
  /\ UNCHANGED <<finished, artifacts, wfiles>>

(* GET /artifact of a worker, which serves what its cache holds, and       *)
(* artifact.Download, which needs the other process to be there.           *)
ArtifactServed(from, art) == art \in artifacts[from]
DownloadFails(from, art) == ~ArtifactServed(from, art) \/ wpc[from] = "dead"

(* One artifact of spec.Artifacts, a map: from the local cache, or         *)
(* downloaded into it from the worker the coordinator named.  A worker     *)
(* whose Run ended may still serve its artifacts.                          *)
CollectArtifact(w) ==
  /\ wpc[w] = "collect"
  /\ \E i \in need[w] :
       LET dep == Deps[spec[w].job][i]
           from == spec[w].arts[i]
       IN  \/ /\ dep \in artifacts[w] \/ ArtifactServed(from, dep)
              /\ artifacts' = [artifacts EXCEPT ![w] = @ \cup {dep}]
              /\ need' = [need EXCEPT ![w] = @ \ {i}]
              /\ UNCHANGED <<wpc, toRun, spec, fetch, finished, wfiles>>
           \/ /\ dep \notin artifacts[w]
              /\ DownloadFails(from, dep)
              /\ RunReturns(w)

(* filecache.Client.Download: the file is at the coordinator, and can be   *)
(* stored here.  One that the worker has already is an error.              *)
FileDownloads(w, f, stored) == f \in stored /\ f \notin wfiles[w]

(* One file of spec.SourceFiles: it is downloaded without a look at what   *)
(* is here.                                                                *)
DownloadFile(w, stored) ==
  /\ wpc[w] = "collect"
  /\ need[w] = {}
  /\ \E f \in fetch[w] :
       \/ /\ FileDownloads(w, f, stored)
          /\ wfiles' = [wfiles EXCEPT ![w] = @ \cup {f}]
          /\ fetch' = [fetch EXCEPT ![w] = @ \ {f}]
          /\ UNCHANGED <<wpc, toRun, spec, need, finished, artifacts>>
       \/ /\ ~FileDownloads(w, f, stored)
          /\ RunReturns(w)

(* artifacts.Create: an error when the artifact is there already.          *)
CreateArtifact(w) ==
  /\ wpc[w] = "collect"
  /\ need[w] = {}
  /\ fetch[w] = {}
  /\ \/ /\ spec[w].job \notin artifacts[w]
        /\ wpc' = [wpc EXCEPT ![w] = "run"]
        /\ UNCHANGED <<toRun, spec, need, fetch, finished, artifacts, wfiles>>
     \/ /\ spec[w].job \in artifacts[w]
        /\ RunReturns(w)

(* The commands succeed and the result is noted ...                        *)
RunCmds(w) ==
  /\ wpc[w] = "run"
  /\ finished' = [finished EXCEPT ![w] = Append(@, spec[w].job)]
  /\ wpc' = [wpc EXCEPT ![w] = "commit"]
  /\ UNCHANGED <<toRun, spec, need, fetch, artifacts, wfiles>>

(* ... or one fails: no abort, no result, Run returns.                     *)
CmdFails(w) ==
  /\ wpc[w] = "run"
  /\ RunReturns(w)

(* Slip: the artifact is aborted instead.                                  *)
CommitArtifactAborted(w) ==
  /\ wpc[w] = "commit"
  /\ spec' = [spec EXCEPT ![w] = Nil]
  /\ wpc' = [wpc EXCEPT ![w] = "next"]
  /\ UNCHANGED <<toRun, need, fetch, finished, artifacts, wfiles>>

(* ... and then the artifact is committed.                                 *)
CommitArtifact(w) ==
  /\ wpc[w] = "commit"
  /\ artifacts' = [artifacts EXCEPT ![w] = @ \cup {spec[w].job}]
  /\ spec' = [spec EXCEPT ![w] = Nil]
  /\ wpc' = [wpc EXCEPT ![w] = "next"]
  /\ UNCHANGED <<toRun, need, fetch, finished, wfiles>>

(* The worker's process or its connection to the coordinator is lost.      *)
Crash(w) ==
  /\ wpc[w] # "dead"
  /\ RunReturns(w)

WorkerTypeOK ==
  /\ wpc \in [Worker -> {"next", "heartbeat", "collect", "run", "commit", "dead"}]
  /\ toRun \in [Worker -> SUBSET JobSpec]
  /\ spec \in [Worker -> JobSpec \cup {Nil}]
  /\ need \in [Worker -> SUBSET Nat]
  /\ fetch \in [Worker -> SUBSET File]
  /\ finished \in [Worker -> Seq(Job)]
  /\ artifacts \in [Worker -> SUBSET Job]
  /\ wfiles \in [Worker -> SUBSET File]
=============================================================================
