---------------------------- MODULE DistBuildInv ---------------------------
(***************************************************************************)
(* The inductive invariant of DistBuild: what a thread relies on at each   *)
(* of its positions, beside the types and the properties themselves.       *)
(***************************************************************************)
EXTENDS DistBuild

(* The heartbeat handler has what it is about to use.                      *)
HandlerReady ==
  \A w \in Worker :
    /\ hpc[w] \in {"complete", "receive", "lock", "report", "finish"} => todo[w] # <<>>
    /\ hpc[w] \in {"lock", "report", "finish"} => data[w] \in Build
    /\ hpc[w] = "pick" => slots[w] > 0
    /\ hpc[w] = "check" => picked[w] # Nil

(* So has the worker, and its positions are positions of dependencies.     *)
WorkerReady ==
  \A w \in Worker :
    wpc[w] \in {"collect", "run", "commit"} =>
      /\ spec[w] # Nil
      /\ need[w] \subseteq DOMAIN spec[w].arts

(* SignalBuild has gone through the dependencies of the current job up to  *)
(* Len(arts[b]), and found each on the worker it noted.                    *)
ReadyAt(b) ==
  /\ spc[b] \in {"new", "push", "open", "lock"} => arts[b] = <<>>
  /\ spc[b] = "send" => /\ pos[b] <= Len(jobs[b])
                        /\ Len(arts[b]) = Len(Deps[Current(b)])
  /\ spc[b] \in {"deps", "send"} /\ pos[b] <= Len(jobs[b]) =>
       /\ Len(arts[b]) <= Len(Deps[Current(b)])
       /\ \A i \in DOMAIN arts[b] : Deps[Current(b)][i] \in artifacts[arts[b][i]]

SessionReady == \A b \in Build : ReadyAt(b)

(* From the signal on, every source file of the build is stored; before,   *)
(* it is stored, known to be missing, or still to be looked for.           *)
FilesStored ==
  \A b \in Build :
    /\ check[b] # Nil =>
         SourceFiles(check[b].graph) \subseteq files \cup check[b].left \cup check[b].missing
    /\ Range(jobs[b]) \subseteq Range(graph[b])
    /\ SourceFiles(graph[b]) \subseteq files \cup needFiles[b]
    /\ spc[b] \in {"lock", "deps", "send", "signalled"} => needFiles[b] = {}

(* A worker that is about to report has committed what it reports; every   *)
(* result in a handler's hands is of an artifact that is stored.           *)
ResultsStored ==
  \A w \in Worker :
    /\ wpc[w] \in {"next", "heartbeat", "collect", "run"} =>
         Range(finished[w]) \subseteq artifacts[w]
    /\ wpc[w] = "commit" =>
         Range(finished[w]) \subseteq artifacts[w] \cup {spec[w].job}
    /\ \A r \in Range(todo[w]) : r.job \in artifacts[r.at]

IInv ==
  /\ TypeOK
  /\ HandlerReady
  /\ WorkerReady
  /\ SessionReady
  /\ FilesStored
  /\ ResultsStored
  /\ LocatedStored
  /\ SpecsRunnable

-----------------------------------------------------------------------------
(* The jobs on their way, from SignalBuild to the report of their results. *)
AtWorker(w) ==
  {s.job : s \in resp[w] \cup toRun[w] \cup ({picked[w], spec[w]} \ {Nil})}
    \cup Range(finished[w]) \cup {r.job : r \in Range(todo[w])}

UnderWay ==
  {s.job : s \in Range(jobsQue)} \cup UNION {AtWorker(w) : w \in Worker}

Wanted(j) == \E b \in Build : j \in Range(graph[b])
DepsLocated(j) == \A dep \in Range(Deps[j]) : Located(dep)

(* A build's jobs are those of its request, sorted; a job is scheduled     *)
(* because a build wants it, and after the jobs it depends on.             *)
PreparedAt(b) ==
  /\ spc[b] = "new" => graph[b] = <<>> /\ pos[b] = 1
  /\ spc[b] # "new" => graph[b] \in Requests /\ jobs[b] = TopSort(graph[b], Deps)
  /\ spc[b] \in {"deps", "send"} /\ pos[b] <= Len(jobs[b]) =>
       \A i \in DOMAIN arts[b] : Located(Deps[Current(b)][i])

Prepared ==
  /\ \A b \in Build : PreparedAt(b)
  /\ \A j \in UnderWay : Wanted(j) /\ DepsLocated(j)

-----------------------------------------------------------------------------
(* With one free slot, a handler has one result or one job in its hands    *)
(* and nothing of either while it waits for the next heartbeat; ...        *)
OneResult(w) ==
  /\ Len(todo[w]) <= 1
  /\ hpc[w] \in {"idle", "pick", "check", "respond"} => todo[w] = <<>>
  /\ slots[w] <= 1
  /\ slots[w] = 1 => resp[w] = {}
  /\ hpc[w] = "check" => slots[w] = 0
  /\ picked[w] # Nil => hpc[w] = "check"
  /\ resp[w] # {} => hpc[w] = "respond"
  /\ \A s, t \in resp[w] : s = t

(* ... its worker has one job, or the result of one; ...                   *)
OneJob(w) ==
  /\ \A s, t \in toRun[w] : s = t
  /\ wpc[w] = "next" => spec[w] = Nil
  /\ wpc[w] \in {"collect", "run", "commit"} => toRun[w] = {}
  /\ Len(finished[w]) <= 1
  /\ wpc[w] = "next" /\ toRun[w] # {} => finished[w] = <<>>
  /\ wpc[w] \in {"collect", "run"} => finished[w] = <<>>
  /\ wpc[w] = "commit" => finished[w] = <<spec[w].job>>

(* ... and the worker waits while the handler is at work.                  *)
WorkerWaits(w) ==
  hpc[w] # "idle" => wpc[w] \in {"heartbeat", "dead"} /\ toRun[w] = {} /\ spec[w] = Nil

OneAtATime == \A w \in Worker : OneResult(w) /\ OneJob(w) /\ WorkerWaits(w)

-----------------------------------------------------------------------------
LocatedJobs == {j \in Job : Located(j)}

(* A worker has no artifact that is not located, but the one whose result  *)
(* is about to be reported: where the handler looks for the artifact of a  *)
(* job (coordinator.go:100), it finds what this worker has.                *)
CacheKnownAt(w) ==
  /\ hpc[w] = "idle" /\ wpc[w] # "dead" =>
       artifacts[w] \subseteq LocatedJobs \cup Range(finished[w])
  /\ hpc[w] = "complete" => artifacts[w] \subseteq LocatedJobs \cup {Head(todo[w]).job}
  /\ hpc[w] \notin {"idle", "complete"} => artifacts[w] \subseteq LocatedJobs
  /\ hpc[w] \in {"receive", "lock", "report", "finish"} => Located(Head(todo[w]).job)

CacheKnown == \A w \in Worker : CacheKnownAt(w)

(* A job on its way, from SignalBuild to the report of its result.         *)
JobInv == Prepared /\ OneAtATime /\ CacheKnown /\ RunOnce

-----------------------------------------------------------------------------
(* The source files in a worker's cache are those of the jobs it has, and  *)
(* those it has downloaded for the job it is at.                           *)
FilesOfJobsAt(w) ==
  /\ wpc[w] = "collect" => fetch[w] \subseteq Inputs[spec[w].job]
  /\ wpc[w] \in {"run", "commit"} => need[w] = {} /\ fetch[w] = {}
  /\ wpc[w] # "dead" =>
       \A f \in wfiles[w] :
         \/ \E j \in artifacts[w] : f \in Inputs[j]
         \/ /\ wpc[w] \in {"collect", "run", "commit"}
            /\ f \in Inputs[spec[w].job] \ fetch[w]

FilesOfJobs == \A w \in Worker : FilesOfJobsAt(w)

-----------------------------------------------------------------------------
(* The executions of a job that have left the queue.                       *)
Out(j) ==
  Cardinality(Given(j)) + Cardinality(Running(j)) + Cardinality(Built(j))
    + Cardinality(Processed(j))

(* There is a build in the job's channel for each of them, too.            *)
CreditAt(j) == Len(buildByJob[j]) >= Cardinality(Owed(j)) + Cardinality(Queued(j)) + Out(j)

StartedFinite == IsFiniteSet({b \in Build : spc[b] # "new"})

CreditInv == StartedFinite /\ \A j \in Job : CreditAt(j)

-----------------------------------------------------------------------------
(* Who is between a lock and an unlock of buildData.mu holds it.           *)
Locks ==
  /\ \A w \in Worker : hpc[w] \in {"report", "finish"} => mu[data[w]] = w
  /\ \A b \in Build : spc[b] \in {"push", "deps", "send"} => mu[b] = b

(* For each of its jobs a build is once in the job's channel, or once in a *)
(* handler's hands, until it is told of the job; it has yet to queue for   *)
(* the jobs left in StartBuild's loop.                                     *)
Due(b, j) == j \in Range(graph[b]) \ Reported(b)

WaitsOnce ==
  \A j \in Job : /\ IsInjective(buildByJob[j])
                 /\ \A b \in Range(buildByJob[j]) : Due(b, j)

HeldOnce ==
  \A w \in Worker, b \in Build, j \in Job :
    Holds(w, b, j) => /\ Due(b, j)
                      /\ b \notin Range(buildByJob[j])
                      /\ \A v \in Worker : Holds(v, b, j) => v = w

QueuesOnce ==
  \A b \in Build : spc[b] = "push" =>
    \A i \in pos[b]..Len(graph[b]) :
      /\ graph[b][i] \notin Reported(b)
      /\ b \notin Range(buildByJob[graph[b][i]])
      /\ \A w \in Worker : ~Holds(w, b, graph[b][i])

(* jobsDoneCnt counts the jobs that a build was told of; all of them were  *)
(* reported, and located before, when the build finishes.                  *)
AllTold(b) == graph[b] # <<>> /\ jobsDoneCnt[b] = Len(jobs[b])

Counted ==
  /\ \A b \in Build : /\ Reported(b) \subseteq Range(graph[b])
                      /\ jobsDoneCnt[b] = Cardinality(Reported(b))
                      /\ Finished(b) => AllTold(b)
  /\ \A w \in Worker : hpc[w] = "finish" => AllTold(data[w]) /\ ~Finished(data[w])

ReportsLocated ==
  \A w \in Worker :
    hpc[w] \in {"receive", "lock", "report", "finish"} => Located(Head(todo[w]).job)

ServiceInv == Locks /\ WaitsOnce /\ HeldOnce /\ QueuesOnce /\ Counted /\ ReportsLocated

-----------------------------------------------------------------------------
(* What a build has queued for in StartBuild so far.                       *)
Joined(b) ==
  IF spc[b] = "push" THEN {graph[b][i] : i \in 1..(pos[b] - 1)} ELSE Range(graph[b])

(* A build stays in the channel of such a job until a handler has it in    *)
(* its hands, and there until it is told of the job.                       *)
Awaits(b, j) == b \in Range(buildByJob[j]) \/ \E w \in Worker : Holds(w, b, j)

WaitsOn ==
  \A b \in Build :
    /\ spc[b] = "push" => pos[b] <= Len(graph[b]) + 1
    /\ \A j \in Joined(b) \ Reported(b) : Awaits(b, j)

(* The other half of CreditAt: there is an execution, or somebody who owes *)
(* one, for each build in the job's channel.                               *)
ServedAt(j) == Len(buildByJob[j]) <= Cardinality(Owed(j)) + Cardinality(Queued(j)) + Out(j)

NothingLost == WorkersRun /\ readers = 0

LossInv == WaitsOn /\ (NothingLost => \A j \in Job : ServedAt(j))
=============================================================================
