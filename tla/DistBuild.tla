----------------------------- MODULE DistBuild -----------------------------
(***************************************************************************)
(* The whole system: the coordinator, the loops of the workers, and the    *)
(* clients (client.Build, distbuild/pkg/client/build.go), one per build.   *)
(*                                                                         *)
(* Faults says which of the things that need not happen may happen:        *)
(*   "abandon"  a client gives up before it signals (it is lost, or an     *)
(*              upload breaks off)                                         *)
(*   "timeout"  a client gives up after (http.Client.Timeout, 30 s)        *)
(*   "cmd"      a command of a job fails                                   *)
(*   "crash"    a worker's process is lost                                 *)
(*   "stop"     the scheduler is stopped                                   *)
(***************************************************************************)
EXTENDS Coordinator, WorkerLoop

CONSTANT Faults

ASSUME FaultsAssumption ==
  Faults \subseteq {"abandon", "timeout", "cmd", "crash", "stop"}

VARIABLE client   \* client.Build of a build: running, returned, given up

vars == <<coordVars, schedVars, workerVars, client>>

Init ==
  /\ NewScheduler
  /\ CoordinatorInit
  /\ WorkerInit
  /\ client = [b \in Build |-> "building"]

-----------------------------------------------------------------------------
(* client.Build                                                            *)

ClientStart(b) ==
  /\ \E g \in Requests : CheckFiles(b, g)
  /\ UNCHANGED <<client, workerVars>>

(* An upload that is refused ends client.Build.                            *)
ClientUpload(b) ==
  /\ client[b] = "building"
  /\ spc[b] = "open"
  /\ \E f \in needFiles[b] :
       \/ StoreFile(b, f) /\ UNCHANGED client
       \/ RefuseFile(b, f) /\ client' = [client EXCEPT ![b] = "gone"]
  /\ UNCHANGED workerVars

(* Slip: the client signals while it uploads.                              *)
ClientSignalEarly(b) ==
  /\ client[b] = "building"
  /\ SignalBuild(b)
  /\ UNCHANGED <<client, workerVars>>

ClientSignal(b) ==
  /\ client[b] = "building"
  /\ needFiles[b] = {}
  /\ SignalBuild(b)
  /\ UNCHANGED <<client, workerVars>>

(* Next returns BuildFinished.                                             *)
ClientDone(b) ==
  /\ client[b] = "building"
  /\ spc[b] = "signalled"
  /\ BuildFinished \in {status[b][i] : i \in 1..written[b]}
  /\ client' = [client EXCEPT ![b] = "done"]
  /\ UNCHANGED <<coordVars, schedVars, workerVars>>

ClientGivesUp(b) ==
  /\ client[b] = "building"
  /\ \/ "abandon" \in Faults /\ (check[b] # Nil \/ spc[b] \in {"push", "open"})
     \/ "timeout" \in Faults /\ spc[b] \notin {"new", "push", "open"}
  /\ client' = [client EXCEPT ![b] = "gone"]
  /\ UNCHANGED <<coordVars, schedVars, workerVars>>

-----------------------------------------------------------------------------
(* The threads of the coordinator and the workers.                         *)

StatusStep(b) ==
  /\ WriteStatus(b) \/ CloseStream(b, client[b] # "building")
  /\ UNCHANGED <<client, workerVars>>

StartStep(b) ==
  /\ CheckFile(b) \/ UnlockFile(b) \/ StartBuild(b)
  /\ UNCHANGED <<client, workerVars>>

SessionStep(b) ==
  /\ \/ PushData(b) \/ Started(b)
     \/ SignalLock(b) \/ LocateDep(b) \/ ScheduleJob(b) \/ SendJob(b) \/ SignalDone(b)
  /\ UNCHANGED <<client, workerVars>>

HeartbeatRequest(w) ==
  /\ SendHeartbeat(w)
  /\ Heartbeat(w, finished[w])
  /\ UNCHANGED client

(* A response to a worker that is gone is lost, with the jobs in it.       *)
HeartbeatResponse(w) ==
  /\ Respond(w)
  /\ IF wpc[w] = "dead" THEN UNCHANGED workerVars ELSE ReceiveResponse(w, resp[w])
  /\ UNCHANGED client

HandlerStep(w) ==
  \/ /\ \/ CompleteJob(w) \/ ReceiveData(w) \/ LockData(w) \/ ReportJob(w)
        \/ ReportBuild(w) \/ PickJob(w) \/ PickNil(w, wpc[w] = "dead") \/ CheckCache(w)
     /\ UNCHANGED <<client, workerVars>>
  \/ HeartbeatResponse(w)

WorkerStep(w) ==
  \/ HeartbeatRequest(w)
  \/ /\ \/ TakeJob(w) \/ CollectArtifact(w) \/ DownloadFile(w, files)
        \/ CreateArtifact(w) \/ RunCmds(w) \/ CommitArtifact(w)
     /\ UNCHANGED <<client, coordVars, schedVars>>

WorkerFault(w) ==
  /\ \/ "cmd" \in Faults /\ CmdFails(w)
     \/ "crash" \in Faults /\ Crash(w)
  /\ UNCHANGED <<client, coordVars, schedVars>>

SchedulerStops ==
  /\ "stop" \in Faults
  /\ StopScheduler
  /\ UNCHANGED <<client, workerVars>>

(* Every client has returned or given up: nothing more need happen.        *)
AllReturned ==
  /\ \A b \in Build : client[b] # "building"
  /\ UNCHANGED vars

ClientStep(b) == ClientUpload(b) \/ ClientSignal(b) \/ ClientDone(b)

Next ==
  \/ \E b \in Build : \/ ClientStart(b) \/ ClientStep(b) \/ ClientGivesUp(b)
                      \/ StartStep(b) \/ StatusStep(b) \/ SessionStep(b)
  \/ \E w \in Worker : HandlerStep(w) \/ WorkerStep(w) \/ WorkerFault(w)
  \/ SchedulerStops
  \/ AllReturned

Spec == Init /\ [][Next]_vars

(* The Go runtime schedules every goroutine that can run, the mutex and    *)
(* the channels are starvation free, and commands terminate.  No client    *)
(* has to start, and no fault has to happen.                               *)
Fairness ==
  /\ \A b \in Build : /\ WF_vars(ClientStep(b))
                      /\ WF_vars(StatusStep(b))
                      /\ WF_vars(StartStep(b) \/ SessionStep(b))
  /\ \A w \in Worker : WF_vars(HandlerStep(w)) /\ WF_vars(WorkerStep(w))

FairSpec == Spec /\ Fairness

(* Less, and enough for BuildCompletes: as long as some thread can go on,  *)
(* one of them does.  Nothing runs for ever, as heartbeats wait for a job. *)
ThreadStep ==
  \/ \E b \in Build : ClientStep(b) \/ StartStep(b) \/ StatusStep(b) \/ SessionStep(b)
  \/ \E w \in Worker : HandlerStep(w) \/ WorkerStep(w)

ProgressSpec == Spec /\ WF_vars(ThreadStep)

-----------------------------------------------------------------------------
TypeOK ==
  /\ CoordinatorTypeOK
  /\ WorkerTypeOK
  /\ client \in [Build -> {"building", "done", "gone"}]

-----------------------------------------------------------------------------
(* The job specs on their way from SignalBuild to a worker's commands.     *)
InFlight ==
  Range(jobsQue)
    \cup UNION {resp[w] \cup toRun[w] \cup ({picked[w], spec[w]} \ {Nil}) : w \in Worker}

(* coordinator.go:172: SignalBuild takes a located artifact to be on the   *)
(* worker it names.  So it is, whatever was lost or computed twice: a      *)
(* worker commits before it reports, and never removes.                    *)
LocatedStored ==
  \A j \in Job : Located(j) => j \in artifacts[LocateArtifact(j)]

(* worker.go:99-128: a worker given a job finds every artifact on the      *)
(* worker the spec names and every source file at the coordinator, also    *)
(* when locations were overwritten or the build was abandoned since.       *)
Runnable(s) ==
  /\ Len(s.arts) = Len(Deps[s.job])
  /\ \A i \in DOMAIN s.arts : Deps[s.job][i] \in artifacts[s.arts[i]]
  /\ Inputs[s.job] \subseteq files

SpecsRunnable == \A s \in InFlight : Runnable(s)

(* worker.go:132: no worker is told to run a job whose artifact it has,    *)
(* built or downloaded (Create would fail and the worker with it).         *)
RunOnce ==
  \A w \in Worker : \A s \in resp[w] \cup toRun[w] \cup ({spec[w]} \ {Nil}) :
    s.job \notin artifacts[w]

(* The executions of a job: in the queue, on their way to a worker, on a   *)
(* worker, noted as finished there, and in a handler's hands.              *)
Queued(j) == {i \in DOMAIN jobsQue : jobsQue[i].job = j}
Given(j) ==
  {w \in Worker : \E s \in resp[w] \cup toRun[w] \cup ({picked[w]} \ {Nil}) : s.job = j}
Running(j) == {w \in Worker : wpc[w] \in {"collect", "run"} /\ spec[w].job = j}
Built(j) ==
  {w \in Worker : wpc[w] \in {"next", "collect", "run", "commit"} /\ j \in Range(finished[w])}
Processed(j) == {w \in Worker : hpc[w] \in {"complete", "receive"} /\ Head(todo[w]).job = j}

(* coordinator.go:55: for every execution of a job that is queued, running *)
(* or reported, a build is in the job's channel, so the receive never      *)
(* blocks and never finds no channel, whoever took which build's place.    *)
CreditForResult ==
  \A j \in Job :
    Len(buildByJob[j]) >= Cardinality(Queued(j)) + Cardinality(Given(j))
                          + Cardinality(Running(j)) + Cardinality(Built(j))
                          + Cardinality(Processed(j))

(* The builds that queued for a job in StartBuild and have yet to schedule *)
(* it in SignalBuild.                                                      *)
Owed(j) ==
  {b \in Build :
     \/ spc[b] = "push" /\ \E i \in 1..(pos[b] - 1) : graph[b][i] = j
     \/ spc[b] \in {"open", "lock"} /\ j \in Range(graph[b])
     \/ spc[b] \in {"deps", "send"} /\ \E i \in pos[b]..Len(jobs[b]) : jobs[b][i] = j}

(* The handler of worker w has received build b for the result of job j,   *)
(* and has yet to report it.                                               *)
Holds(w, b, j) == hpc[w] \in {"lock", "report"} /\ data[w] = b /\ Head(todo[w]).job = j

(* No worker's Run has ended.                                              *)
WorkersRun == \A w \in Worker : wpc[w] # "dead"

(* coordinator.go:96, scheduler.go:79: as long as no worker ended and no   *)
(* job came too late for the scheduler, nothing loses a job.  A build that *)
(* waits for a result is in the job's channel, and the job is in the queue *)
(* or under way, or a build in the channel has yet to schedule it; or a    *)
(* handler has the result for this build in its hands.                     *)
NobodyForgotten ==
  WorkersRun /\ readers = 0 =>
    \A b \in Build : spc[b] # "push" =>
      \A j \in Range(graph[b]) \ Reported(b) :
        \/ \E w \in Worker : Holds(w, b, j)
        \/ /\ b \in Range(buildByJob[j])
           /\ \E on \in {Owed(j), Queued(j), Given(j), Running(j), Built(j), Processed(j)} :
                on # {}

(* worker.go:85-149: as long as no process is lost, a worker's Run ends    *)
(* for one of three reasons: a command of its job failed; the worker it    *)
(* must download an artifact from has ended; or it was sent a source file  *)
(* of the job before, for another job (filecache/client.go:93).  It never  *)
(* ends because an artifact or a file is not where the spec says, or       *)
(* because Create finds the artifact of the job.                           *)
CmdFailed(w) == need[w] = {} /\ fetch[w] = {} /\ "cmd" \in Faults

SourceEnded(w) ==
  \E i \in need[w], from \in Worker :
    /\ Deps[spec[w].job][i] \notin artifacts[w]
    /\ from = spec[w].arts[i] /\ wpc[from] = "dead"

FileHere(w) ==
  \E f \in fetch[w] \cap wfiles[w], j \in artifacts[w] \ {spec[w].job} :
    f \in Inputs[spec[w].job] \cap Inputs[j]

EndedFor(w) ==
  /\ spec[w] # Nil
  /\ spec[w].job \notin artifacts[w]
  /\ CmdFailed(w) \/ SourceEnded(w) \/ FileHere(w)

WorkersEndFor ==
  "crash" \notin Faults => \A w \in Worker : wpc[w] = "dead" => EndedFor(w)

(* The coordinator, seen from its clients, is a BuildService.              *)
Service == INSTANCE BuildService WITH
  wanted <- [b \in Build |-> Range(graph[b])],
  done <- {j \in Job : Located(j)},
  told <- [b \in Build |-> Reported(b)],
  over <- {b \in Build : Finished(b)}

ImplementsService == Service!Spec

(* client/README.md:10: a client that started a build sees it through to   *)
(* BuildFinished, unless an upload is refused: its own, or that of another *)
(* client, whose build then takes results for ever.  (Without faults no    *)
(* client gives up for another reason.)                                    *)
UploadRefused == \E b \in Build : client[b] = "gone"

BuildCompletes ==
  \A b \in Build :
    (check[b] # Nil \/ spc[b] # "new") ~> (client[b] = "done" \/ UploadRefused)

(* README.md:78: the coordinator carries a signalled build out to the end, *)
(* whether or not its client still listens.                                *)
SignalledFinishes == \A b \in Build : (spc[b] = "lock") ~> Finished(b)
=============================================================================
