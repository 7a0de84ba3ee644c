----------------------------- MODULE JobProofs -----------------------------
(***************************************************************************)
(* A job on its way through DistBuild: it is wanted and comes after its    *)
(* dependencies, a worker has one job at a time, no worker is told to run  *)
(* a job whose artifact it has, and a build waits for every execution.     *)
(* With that DistBuild implements BuildService: a build is told of each of *)
(* its jobs once, after the job is done, and that it finished once, after  *)
(* all of them.  The parts of the inductive invariant are in module        *)
(* DistBuildInv.                                                           *)
(***************************************************************************)
EXTENDS DistBuildProofs, FiniteSetTheorems

(* A request and its order by TopSort hold the same jobs, each once.       *)
LEMMA SortedFacts ==
  ASSUME NEW g \in Requests
  PROVE  /\ g \in Seq(Job) /\ TopSort(g, Deps) \in Seq(Job)
         /\ Range(TopSort(g, Deps)) = Range(g)
         /\ Len(TopSort(g, Deps)) = Len(g)
         /\ IsFiniteSet(Range(g))
         /\ Cardinality(Range(g)) = Len(g)
         /\ IsInjective(g)
         /\ IsInjective(TopSort(g, Deps))
<1> DEFINE s == TopSort(g, Deps)
<1>1. /\ g \in Seq(Job) /\ s \in Seq(Job)
      /\ Range(s) = Range(g) /\ Len(s) = Len(g) /\ IsInjective(g)
  BY GraphAssumption, TopSortAssumption DEF IsTopOrder
<1>2. /\ DOMAIN g = 1..Len(g) /\ DOMAIN s = 1..Len(g) /\ Len(g) \in Nat
  BY <1>1
<1>3. IsFiniteSet(1..Len(g)) /\ Cardinality(1..Len(g)) = Len(g)
  <2>1. Len(g) \in Int /\ 1 \in Int
    BY <1>2
  <2>2. /\ IsFiniteSet(1..Len(g))
        /\ Cardinality(1..Len(g)) = IF 1 > Len(g) THEN 0 ELSE Len(g) - 1 + 1
    BY <2>1, FS_Interval, Zenon
  <2> QED
    BY <1>2, <2>2
<1>4. /\ g \in Injection(1..Len(g), Range(g)) /\ g \in Surjection(1..Len(g), Range(g))
      /\ s \in Surjection(1..Len(g), Range(g))
  <2>1. g \in [1..Len(g) -> Range(g)] /\ s \in [1..Len(g) -> Range(g)]
    <3>1. g \in [1..Len(g) -> Job] /\ s \in [1..Len(g) -> Job]
      BY <1>1, <1>2
    <3>2. \A i \in 1..Len(g) : g[i] \in Range(g) /\ s[i] \in Range(g)
      BY <1>1, <1>2 DEF Range
    <3> QED
      BY <3>1, <3>2
  <2>2. g \in Surjection(1..Len(g), Range(g)) /\ s \in Surjection(1..Len(g), Range(g))
    BY <1>1, <1>2, <2>1 DEF Range, Surjection
  <2> QED
    BY <1>1, <2>1, <2>2 DEF Injection
<1>5. IsFiniteSet(Range(g)) /\ Cardinality(Range(g)) = Len(g)
  BY <1>3, <1>4, FS_Surjection
<1>6. IsInjective(s)
  BY <1>3, <1>4, <1>5, FS_Surjection DEF Injection
<1> QED
  BY <1>1, <1>5, <1>6

(* No job is among its own dependencies.                                   *)
LEMMA NoSelfDep ==
  ASSUME NEW g \in Requests, NEW j \in Range(g)
  PROVE  j \notin Range(Deps[j])
<1> DEFINE s == TopSort(g, Deps)
<1>1. s \in Seq(Job) /\ IsInjective(s) /\ Range(s) = Range(g)
  BY SortedFacts
<1>2. PICK i \in DOMAIN s : s[i] = j
  BY <1>1 DEF Range
<1>3. SUFFICES ASSUME j \in Range(Deps[j]) PROVE FALSE
  OBVIOUS
<1>4. \A dep \in Range(Deps[s[i]]) : \E k \in 1..(i - 1) : s[k] = dep
  BY <1>2, TopSortAssumption, Zenon DEF IsTopOrder
<1>5. PICK k \in 1..(i - 1) : s[k] = j
  BY <1>2, <1>3, <1>4, Zenon
<1>6. k \in DOMAIN s /\ k # i
  BY <1>1, <1>2, <1>5
<1> QED
  BY <1>1, <1>2, <1>5, <1>6, Zenon DEF IsInjective

-----------------------------------------------------------------------------
(* What a step of one thread leaves alone.                                 *)

(* The state of a worker and of its heartbeat handler.                     *)
Own(w) ==
  <<hpc[w], todo[w], data[w], slots[w], picked[w], resp[w],
    wpc[w], toRun[w], spec[w], need[w], fetch[w], finished[w], artifacts[w], wfiles[w]>>

(* A handler touches the state of its own worker only, and no build's      *)
(* request or session.                                                     *)
LEMMA HandlerFrame ==
  ASSUME TypeOK, NEW w \in Worker, HandlerStep(w)
  PROVE  /\ \A v \in Worker \ {w} : Own(v)' = Own(v)
         /\ UNCHANGED <<files, graph, jobs, needFiles, sessionVars>>
<1>1. HandlerTypeOK /\ WorkerTypeOK
  BY TypeGroups
<1> USE DEF Own, HandlerTypeOK, WorkerTypeOK, buildVars, sessionVars, handlerVars, workerVars
<1>2. CASE CompleteJob(w) /\ UNCHANGED workerVars
  BY <1>1, <1>2 DEF CompleteJob
<1>3. CASE ReceiveData(w) /\ UNCHANGED workerVars
  BY <1>1, <1>3 DEF ReceiveData
<1>4. CASE LockData(w) /\ UNCHANGED workerVars
  BY <1>1, <1>4 DEF LockData
<1>5. CASE ReportJob(w) /\ UNCHANGED workerVars
  BY <1>1, <1>5 DEF ReportJob, EndResult
<1>6. CASE ReportBuild(w) /\ UNCHANGED workerVars
  BY <1>1, <1>6 DEF ReportBuild, EndResult
<1>7. CASE PickJob(w) /\ UNCHANGED workerVars
  BY <1>1, <1>7 DEF PickJob
<1>8. CASE PickNil(w, wpc[w] = "dead") /\ UNCHANGED workerVars
  BY <1>1, <1>8 DEF PickNil
<1>9. CASE CheckCache(w) /\ UNCHANGED workerVars
  BY <1>1, <1>9 DEF CheckCache
<1>10. CASE HeartbeatResponse(w)
  BY <1>1, <1>10 DEF HeartbeatResponse, Respond, ReceiveResponse
<1> QED
  BY <1>2, <1>3, <1>4, <1>5, <1>6, <1>7, <1>8, <1>9, <1>10 DEF HandlerStep

(* A worker touches its own state only, and starts its handler at most.    *)
LEMMA WorkerStepFrame ==
  ASSUME TypeOK, NEW w \in Worker, WorkerStep(w) \/ WorkerFault(w)
  PROVE  /\ \A v \in Worker \ {w} : Own(v)' = Own(v)
         /\ UNCHANGED <<files, buildVars, sessionVars, schedVars>>
<1>1. HandlerTypeOK /\ WorkerTypeOK
  BY TypeGroups
<1> USE DEF Own, HandlerTypeOK, WorkerTypeOK, handlerVars, coordVars
<1>2. CASE HeartbeatRequest(w)
  BY <1>1, <1>2 DEF HeartbeatRequest, SendHeartbeat, Heartbeat
<1>3. CASE TakeJob(w) /\ UNCHANGED <<coordVars, schedVars>>
  BY <1>1, <1>3 DEF TakeJob
<1>4. CASE CollectArtifact(w) /\ UNCHANGED <<coordVars, schedVars>>
  BY <1>1, <1>4 DEF CollectArtifact, RunReturns
<1>5. CASE DownloadFile(w, files) /\ UNCHANGED <<coordVars, schedVars>>
  BY <1>1, <1>5 DEF DownloadFile, RunReturns
<1>6. CASE CreateArtifact(w) /\ UNCHANGED <<coordVars, schedVars>>
  BY <1>1, <1>6 DEF CreateArtifact, RunReturns
<1>7. CASE RunCmds(w) /\ UNCHANGED <<coordVars, schedVars>>
  BY <1>1, <1>7 DEF RunCmds
<1>8. CASE CommitArtifact(w) /\ UNCHANGED <<coordVars, schedVars>>
  BY <1>1, <1>8 DEF CommitArtifact
<1>9. CASE RunReturns(w) /\ UNCHANGED <<coordVars, schedVars>>
  BY <1>1, <1>9 DEF RunReturns
<1> QED
  BY <1>2, <1>3, <1>4, <1>5, <1>6, <1>7, <1>8, <1>9
     DEF WorkerStep, WorkerFault, CmdFails, Crash

(* The steps of a build: of its client and of its handlers.  StartBuild    *)
(* and the session change the build; what the others do to it, only its    *)
(* client and the file cache see, and the signal.                          *)
BuildStep(b) ==
  \/ ClientStart(b) \/ ClientStep(b) \/ ClientGivesUp(b)
  \/ StartStep(b) \/ StatusStep(b) \/ SessionStep(b)

Aside(b) ==
  /\ UNCHANGED <<graph, jobs, mu, jobsDoneCnt, status, buildByJob, pos, arts, handlerVars,
                 schedVars, workerVars>>
  /\ UNCHANGED spc \/ (spc[b] = "open" /\ spc' = [spc EXCEPT ![b] = "lock"])

LEMMA BuildSteps ==
  ASSUME NEW b \in Build, BuildStep(b)
  PROVE  \/ StartBuild(b) /\ UNCHANGED workerVars
         \/ Aside(b)
         \/ SessionStep(b)
<1> USE DEF Aside, buildVars, sessionVars
<1>1. CASE ClientStart(b)
  BY <1>1 DEF ClientStart, CheckFiles
<1>2. CASE ClientUpload(b)
  BY <1>2 DEF ClientUpload, StoreFile, RefuseFile, coordVars
<1>3. CASE ClientSignal(b)
  BY <1>3 DEF ClientSignal, SignalBuild
<1>4. CASE ClientDone(b) \/ ClientGivesUp(b)
  BY <1>4 DEF ClientDone, ClientGivesUp, coordVars
<1>5. CASE StartStep(b) /\ ~StartBuild(b)
  BY <1>5 DEF StartStep, CheckFile, UnlockFile
<1>6. CASE StatusStep(b)
  BY <1>6 DEF StatusStep, WriteStatus, CloseStream
<1> QED
  BY <1>1, <1>2, <1>3, <1>4, <1>5, <1>6 DEF BuildStep, ClientStep, StartStep

(* A client or a session touches no worker, no handler, no location and no *)
(* other build's request or session.                                       *)
LEMMA BuildFrame ==
  ASSUME TypeOK, NEW b \in Build, BuildStep(b)
  PROVE  /\ UNCHANGED <<handlerVars, workerVars, artifactLocations>>
         /\ \A c \in Build \ {b} : /\ graph'[c] = graph[c] /\ jobs'[c] = jobs[c]
                                   /\ spc'[c] = spc[c] /\ pos'[c] = pos[c]
                                   /\ arts'[c] = arts[c] /\ mu'[c] = mu[c]
<1>1. BuildTypeOK /\ SessionTypeOK
  BY TypeGroups
<1> USE DEF BuildTypeOK, SessionTypeOK, buildVars, sessionVars, schedVars
<1>2. CASE StartBuild(b) /\ UNCHANGED workerVars
  BY <1>1, <1>2 DEF StartBuild
<1>3. CASE Aside(b)
  BY <1>1, <1>3 DEF Aside
<1>4. CASE SessionStep(b)
  <2>1. CASE PushData(b) \/ Started(b) \/ SignalLock(b) \/ SignalDone(b)
    BY <1>1, <1>4, <2>1 DEF SessionStep, PushData, Started, SignalLock, SignalDone
  <2>2. CASE LocateDep(b) \/ ScheduleJob(b) \/ SendJob(b)
    BY <1>1, <1>4, <2>2 DEF SessionStep, LocateDep, ScheduleJob, ScheduleJobStopped, SendJob,
                            ScheduleJobSend
  <2> QED
    BY <1>4, <2>1, <2>2 DEF SessionStep
<1> QED
  BY <1>2, <1>3, <1>4, BuildSteps

(* The handler that completes a job locates its artifact; no other step    *)
(* of a handler touches a location.                                        *)
LEMMA LocationsFrame ==
  ASSUME IInv, NEW w \in Worker, HandlerStep(w)
  PROVE  /\ \A j \in Job : Located(j) => Located(j)'
         /\ ~CompleteJob(w) => UNCHANGED artifactLocations
         /\ Range(jobsQue') \subseteq Range(jobsQue)
<1>1. /\ TypeOK /\ SchedulerTypeOK /\ HandlerTypeOK
  BY TypeGroups DEF IInv
<1>2. CASE CompleteJob(w)
  <2>1. Head(todo[w]).at \in Worker
    <3>1. todo[w] # <<>>
      BY <1>2 DEF IInv, HandlerReady, CompleteJob
    <3>2. todo[w] \in Seq(Result)
      BY <1>1 DEF HandlerTypeOK
    <3>3. Head(todo[w]) \in Result
      BY <3>1, <3>2, TakeFacts
    <3> QED
      BY <3>3 DEF Result
  <2>2. Head(todo[w]).at # Nil
    BY <2>1, GraphAssumption
  <2> QED
    BY <1>1, <1>2, <2>2 DEF CompleteJob, OnJobComplete, Located, LocateArtifact, SchedulerTypeOK
<1>3. CASE PickJob(w)
  <2>1. Range(Tail(jobsQue)) \subseteq Range(jobsQue)
    BY <1>1, <1>3, TakeFacts DEF PickJob, PickJobTake, SchedulerTypeOK
  <2>2. jobsQue' = Tail(jobsQue) /\ UNCHANGED artifactLocations
    BY <1>3 DEF PickJob, PickJobTake
  <2> QED
    BY <2>1, <2>2 DEF Located, LocateArtifact
<1>4. CASE ~CompleteJob(w) /\ ~PickJob(w)
  <2>1. UNCHANGED schedVars
    BY <1>4 DEF HandlerStep, ReceiveData, LockData, ReportJob, ReportBuild, PickNil, PickJobNil,
                CheckCache, HeartbeatResponse, Respond, EndResult
  <2> QED
    BY <2>1 DEF schedVars, Located, LocateArtifact
<1> QED
  BY <1>2, <1>3, <1>4

-----------------------------------------------------------------------------
(* Jobs are prepared: Prepared is inductive beside IInv.                   *)

(* The jobs under way are jobs.                                            *)
LEMMA UnderWayFacts ==
  ASSUME IInv
  PROVE  /\ UnderWay \subseteq Job
         /\ \A s \in InFlight : s \in JobSpec /\ s.job \in UnderWay
<1>1. TypeOK /\ SchedulerTypeOK /\ HandlerTypeOK /\ WorkerTypeOK
  BY TypeGroups DEF IInv
<1>2. \A s \in Range(jobsQue) : s \in JobSpec /\ s.job \in Job
  <2>1. Range(jobsQue) \subseteq JobSpec
    BY <1>1, RangeFacts DEF SchedulerTypeOK
  <2> QED
    BY <2>1 DEF JobSpec
<1>3. ASSUME NEW w \in Worker
      PROVE  /\ AtWorker(w) \subseteq Job
             /\ \A s \in resp[w] \cup toRun[w] \cup ({picked[w], spec[w]} \ {Nil}) :
                  s \in JobSpec /\ s.job \in AtWorker(w)
  <2>1. \A s \in resp[w] \cup toRun[w] \cup ({picked[w], spec[w]} \ {Nil}) :
           s \in JobSpec /\ s.job \in Job
    BY <1>1 DEF HandlerTypeOK, WorkerTypeOK, JobSpec
  <2>2. Range(finished[w]) \subseteq Job /\ Range(todo[w]) \subseteq Result
    BY <1>1, RangeFacts DEF HandlerTypeOK, WorkerTypeOK
  <2> QED
    BY <2>1, <2>2 DEF AtWorker, Result
<1> QED
  BY <1>2, <1>3 DEF UnderWay, InFlight

(* Prepared does not depend on anything but these.                         *)
LEMMA StaysPrepared ==
  ASSUME IInv, Prepared, UNCHANGED <<graph, jobs, sessionVars>>, UnderWay' \subseteq UnderWay,
         \A j \in Job : Located(j) => Located(j)'
  PROVE  Prepared'
<1>1. BuildTypeOK /\ SessionTypeOK /\ SessionReady
  BY TypeGroups DEF IInv
<1>2. ASSUME NEW b \in Build, spc[b] \in {"deps", "send"}, pos[b] <= Len(jobs[b]),
             NEW i \in DOMAIN arts[b]
      PROVE  Located(Deps[Current(b)][i])'
  <2>1. Located(Deps[Current(b)][i])
    BY <1>2 DEF Prepared, PreparedAt
  <2>2. Deps[Current(b)][i] \in Job
    <3>1. Current(b) \in Job
      BY <1>1, <1>2 DEF Current, BuildTypeOK, SessionTypeOK
    <3>2. Deps[Current(b)] \in Seq(Job) /\ i \in 1..Len(Deps[Current(b)])
      BY <1>1, <1>2, <3>1, GraphAssumption DEF SessionReady, ReadyAt, SessionTypeOK
    <3> QED
      BY <3>2
  <2>3. Located(Deps[Current(b)][i])' = (artifactLocations'[Deps[Current(b)][i]] # Nil)
    BY DEF Located, LocateArtifact, Current, sessionVars
  <2> QED
    BY <2>1, <2>2, <2>3 DEF Located, LocateArtifact
<1>3. ASSUME NEW j \in UnderWay PROVE (Wanted(j) /\ DepsLocated(j))'
  <2>1. Deps[j] \in Seq(Job)
    BY <1>3, UnderWayFacts, GraphAssumption
  <2>2. Range(Deps[j]) \subseteq Job
    BY <2>1, RangeFacts
  <2> QED
    BY <1>3, <2>2 DEF Prepared, Wanted, DepsLocated
<1> QED
  BY <1>2, <1>3 DEF Prepared, PreparedAt, Current, sessionVars

(* A handler hands jobs on, and lets go of one only with its result.       *)
LEMMA HandlerHandsOn ==
  ASSUME IInv, NEW w \in Worker, HandlerStep(w)
  PROVE  UnderWay' \subseteq UnderWay
<1>1. /\ TypeOK /\ SchedulerTypeOK /\ HandlerTypeOK /\ WorkerTypeOK
  BY TypeGroups DEF IInv
<1>2. \A v \in Worker \ {w} : AtWorker(v)' = AtWorker(v)
  BY <1>1, HandlerFrame DEF AtWorker, Own
<1>3. Range(jobsQue') \subseteq Range(jobsQue)
  BY LocationsFrame
<1>4. AtWorker(w) \subseteq UnderWay /\ \A s \in Range(jobsQue) : s.job \in UnderWay
  BY DEF UnderWay
<1>5. SUFFICES AtWorker(w)' \subseteq UnderWay
  BY <1>2, <1>3, <1>4 DEF UnderWay
<1>6. CASE /\ CompleteJob(w) \/ ReceiveData(w) \/ LockData(w) \/ PickNil(w, wpc[w] = "dead")
           /\ UNCHANGED workerVars
  BY <1>4, <1>6 DEF CompleteJob, ReceiveData, LockData, PickNil, workerVars, AtWorker
<1>7. CASE (ReportJob(w) \/ ReportBuild(w)) /\ UNCHANGED workerVars
  <2>1. Range(todo'[w]) \subseteq Range(todo[w])
    <3>1. todo[w] \in Seq(Result) /\ todo[w] # <<>>
      BY <1>1, <1>7 DEF IInv, HandlerReady, HandlerTypeOK, ReportJob, ReportBuild
    <3>2. todo'[w] \in {todo[w], Tail(todo[w])}
      BY <1>1, <1>7 DEF HandlerTypeOK, ReportJob, ReportBuild, EndResult
    <3> QED
      BY <3>1, <3>2, TakeFacts
  <2> QED
    BY <1>4, <1>7, <2>1 DEF ReportJob, ReportBuild, workerVars, AtWorker
<1>8. CASE PickJob(w) /\ UNCHANGED workerVars
  <2>1. Head(jobsQue) \in Range(jobsQue)
    BY <1>1, <1>8, TakeFacts DEF PickJob, PickJobTake, SchedulerTypeOK
  <2>2. picked'[w] = Head(jobsQue)
    BY <1>1, <1>8 DEF PickJob, HandlerTypeOK
  <2> QED
    BY <1>4, <1>8, <2>1, <2>2 DEF PickJob, workerVars, AtWorker
<1>9. CASE CheckCache(w) /\ UNCHANGED workerVars
  <2>1. picked[w] # Nil /\ picked'[w] = Nil
    BY <1>1, <1>9 DEF IInv, HandlerReady, CheckCache, HandlerTypeOK
  <2>2. CASE Located(picked[w].job)
    <3>1. /\ todo'[w] = <<[job |-> picked[w].job, at |-> LocateArtifact(picked[w].job)]>>
          /\ UNCHANGED resp
      BY <1>1, <1>9, <2>2 DEF CheckCache, HandlerTypeOK
    <3>2. \A r \in Range(todo'[w]) : r.job = picked[w].job
      BY <3>1 DEF Range
    <3> QED
      BY <1>4, <1>9, <2>1, <3>1, <3>2 DEF workerVars, AtWorker
  <2>3. CASE ~Located(picked[w].job)
    <3>1. resp'[w] = resp[w] \cup {picked[w]} /\ UNCHANGED todo
      BY <1>1, <1>9, <2>3 DEF CheckCache, HandlerTypeOK
    <3> QED
      BY <1>4, <1>9, <2>1, <3>1 DEF workerVars, AtWorker
  <2> QED
    BY <2>2, <2>3
<1>10. CASE HeartbeatResponse(w)
  <2>1. /\ resp'[w] = {} /\ toRun'[w] \in {resp[w], toRun[w]}
        /\ finished'[w] \in {<<>>, finished[w]}
        /\ UNCHANGED <<todo, picked, spec>>
    BY <1>1, <1>10 DEF HeartbeatResponse, Respond, ReceiveResponse, HandlerTypeOK, WorkerTypeOK,
                       workerVars
  <2>2. Range(finished'[w]) \subseteq Range(finished[w])
    BY <2>1, EmptyFacts
  <2> QED
    BY <1>4, <2>1, <2>2 DEF AtWorker
<1> QED
  BY <1>6, <1>7, <1>8, <1>9, <1>10 DEF HandlerStep

(* So does a worker.                                                       *)
LEMMA WorkerHandsOn ==
  ASSUME IInv, NEW w \in Worker, WorkerStep(w) \/ WorkerFault(w)
  PROVE  UnderWay' \subseteq UnderWay
<1>1. /\ TypeOK /\ HandlerTypeOK /\ WorkerTypeOK
  BY TypeGroups DEF IInv
<1>2. UNCHANGED jobsQue /\ \A v \in Worker \ {w} : AtWorker(v)' = AtWorker(v)
  BY <1>1, WorkerStepFrame DEF AtWorker, Own, schedVars
<1>3. SUFFICES AtWorker(w)' \subseteq AtWorker(w)
  BY <1>2 DEF UnderWay
<1>4. CASE HeartbeatRequest(w)
  <2>1. /\ resp'[w] = {}
        /\ UNCHANGED <<toRun, picked, spec, finished>>
        /\ todo'[w] = [i \in DOMAIN finished[w] |-> [job |-> finished[w][i], at |-> w]]
    BY <1>1, <1>4 DEF HeartbeatRequest, Heartbeat, SendHeartbeat, HandlerTypeOK
  <2>2. \A r \in Range(todo'[w]) : r.job \in Range(finished[w])
    BY <2>1 DEF Range
  <2> QED
    BY <2>1, <2>2 DEF AtWorker
<1>5. CASE TakeJob(w) /\ UNCHANGED <<coordVars, schedVars>>
  <2>1. /\ toRun'[w] \subseteq toRun[w] /\ spec'[w] \in toRun[w]
        /\ UNCHANGED <<resp, picked, finished, todo>>
    BY <1>1, <1>5 DEF TakeJob, WorkerTypeOK, coordVars, handlerVars
  <2>2. spec'[w] \in JobSpec
    BY <1>1, <2>1 DEF WorkerTypeOK
  <2> QED
    BY <2>1, <2>2 DEF AtWorker
<1>6. CASE RunCmds(w) /\ UNCHANGED <<coordVars, schedVars>>
  <2>1. spec[w] # Nil /\ spec[w].job \in Job
    BY <1>1, <1>6 DEF IInv, WorkerReady, RunCmds, WorkerTypeOK, JobSpec
  <2>2. finished'[w] = Append(finished[w], spec[w].job) /\ finished[w] \in Seq(Job)
    BY <1>1, <1>6 DEF RunCmds, WorkerTypeOK
  <2>3. Range(finished'[w]) = Range(finished[w]) \cup {spec[w].job}
    BY <2>1, <2>2, PutFacts
  <2> QED
    BY <1>6, <2>1, <2>3 DEF RunCmds, AtWorker, coordVars, handlerVars
<1>7. CASE /\ \/ CollectArtifact(w) \/ DownloadFile(w, files) \/ CreateArtifact(w)
              \/ CommitArtifact(w) \/ RunReturns(w)
           /\ UNCHANGED <<coordVars, schedVars>>
  <2>1. spec'[w] \in {spec[w], Nil} /\ UNCHANGED <<toRun, finished, resp, picked, todo>>
    BY <1>1, <1>7 DEF CollectArtifact, DownloadFile, CreateArtifact, CommitArtifact, RunReturns,
                      WorkerTypeOK, coordVars, handlerVars
  <2> QED
    BY <2>1 DEF AtWorker
<1> QED
  BY <1>4, <1>5, <1>6, <1>7 DEF WorkerStep, WorkerFault, CmdFails, Crash

(* StartBuild was called with a request.                                   *)
LEMMA StartsRequest ==
  ASSUME TypeOK, NEW b \in Build, StartBuild(b)
  PROVE  check[b].graph \in Requests
<1>1. check[b] \in FileCheck
  BY TypeGroups DEF SessionTypeOK, StartBuild
<1> QED
  BY <1>1 DEF FileCheck

(* A request's graph is wanted from its StartBuild on.                     *)
LEMMA StartBuildPrepared ==
  ASSUME IInv, Prepared, NEW b \in Build, StartBuild(b), UNCHANGED workerVars
  PROVE  Prepared'
<1>1. TypeOK /\ BuildTypeOK /\ SessionTypeOK
  BY TypeGroups DEF IInv
<1>2. PICK g \in Requests : g = check[b].graph
  BY StartsRequest DEF IInv
<1>3. UNCHANGED <<handlerVars, workerVars, schedVars, pos, arts>>
  BY DEF StartBuild
<1>4. /\ graph'[b] = g /\ jobs'[b] = TopSort(g, Deps) /\ spc[b] = "new" /\ spc'[b] = "push"
  BY <1>1, <1>2 DEF StartBuild, BuildTypeOK, SessionTypeOK
<1>5. \A c \in Build \ {b} : graph'[c] = graph[c] /\ jobs'[c] = jobs[c] /\ spc'[c] = spc[c]
  BY <1>1 DEF StartBuild, BuildTypeOK, SessionTypeOK
<1>6. \A j : Located(j)' = Located(j)
  BY <1>3 DEF Located, LocateArtifact, schedVars
<1>7. UnderWay' = UnderWay
  BY <1>3 DEF UnderWay, AtWorker, handlerVars, workerVars, schedVars
<1>8. ASSUME NEW j \in UnderWay PROVE (Wanted(j) /\ DepsLocated(j))'
  <2>1. graph[b] = <<>>
    BY <1>4 DEF Prepared, PreparedAt
  <2>2. Wanted(j)'
    BY <1>5, <1>8, <2>1, EmptyFacts DEF Prepared, Wanted
  <2> QED
    BY <1>6, <1>8, <2>2 DEF Prepared, DepsLocated
<1>9. ASSUME NEW c \in Build
      PROVE  PreparedAt(c)'
  <2>1. CASE c = b
    BY <1>4, <2>1 DEF PreparedAt
  <2>2. CASE c # b
    BY <1>3, <1>5, <1>6, <2>2 DEF Prepared, PreparedAt, Current
  <2> QED
    BY <2>1, <2>2
<1> QED
  BY <1>7, <1>8, <1>9 DEF Prepared

(* SignalBuild schedules the job it found the dependencies of.             *)
LEMMA SessionPrepared ==
  ASSUME IInv, Prepared, NEW b \in Build, SessionStep(b)
  PROVE  Prepared'
<1>1. /\ TypeOK /\ BuildTypeOK /\ SessionTypeOK /\ SchedulerTypeOK
      /\ jobs[b] \in Seq(Job) /\ pos[b] \in Nat \ {0} /\ arts[b] \in Seq(Worker)
  BY TypeGroups DEF IInv, BuildTypeOK, SessionTypeOK
<1>2. /\ UNCHANGED <<graph, jobs, handlerVars, workerVars, artifactLocations>>
      /\ \A c \in Build \ {b} : spc'[c] = spc[c] /\ pos'[c] = pos[c] /\ arts'[c] = arts[c]
  <2>1. UNCHANGED <<graph, jobs>>
    BY DEF SessionStep, PushData, Started, SignalLock, LocateDep, ScheduleJob, SendJob,
           SignalDone, buildVars
  <2> QED
    BY <1>1, <2>1, BuildFrame DEF BuildStep
<1>3. \A j : Located(j)' = Located(j)
  BY <1>2 DEF Located, LocateArtifact
<1>4. /\ spc[b] # "new" /\ spc'[b] # "new"
      /\ spc'[b] \in {"deps", "send"} =>
           \/ arts'[b] = <<>>
           \/ spc'[b] = "send" /\ spc[b] = "deps" /\ UNCHANGED <<pos, arts>>
           \/ LocateDep(b)
  BY <1>1 DEF SessionStep, PushData, Started, SignalLock, ScheduleJob, ScheduleJobStopped,
              SendJob, SignalDone, LocateDep, SessionTypeOK, IInv, SessionReady, ReadyAt
<1>5. ASSUME spc'[b] \in {"deps", "send"}, pos'[b] <= Len(jobs[b])
      PROVE  \A i \in DOMAIN arts'[b] : Located(Deps[jobs[b][pos'[b]]][i])
  <2>1. CASE LocateDep(b)
    <3> DEFINE dep == Deps[Current(b)][Len(arts[b]) + 1]
    <3>1. /\ UNCHANGED pos /\ Located(dep) /\ spc[b] = "deps" /\ pos[b] <= Len(jobs[b])
          /\ arts'[b] = Append(arts[b], LocateArtifact(dep))
      BY <1>1, <2>1 DEF LocateDep, SessionTypeOK
    <3>2. \A i \in 1..Len(arts[b]) : Located(Deps[Current(b)][i])
      BY <1>1, <3>1 DEF Prepared, PreparedAt
    <3>3. DOMAIN arts'[b] = 1..(Len(arts[b]) + 1)
      BY <1>1, <3>1
    <3>4. \A i \in 1..(Len(arts[b]) + 1) : Located(Deps[Current(b)][i])
      <4> HIDE DEF dep
      <4>1. \A i \in 1..(Len(arts[b]) + 1) : i \in 1..Len(arts[b]) \/ i = Len(arts[b]) + 1
        BY <1>1
      <4> QED
        BY <3>1, <3>2, <4>1 DEF dep
    <3> QED
      BY <3>1, <3>3, <3>4 DEF Current
  <2>2. CASE arts'[b] = <<>>
    BY <2>2
  <2>3. CASE spc[b] = "deps" /\ UNCHANGED <<pos, arts>>
    BY <1>5, <2>3 DEF Prepared, PreparedAt, Current
  <2> QED
    BY <1>4, <1>5, <2>1, <2>2, <2>3
<1>6. ASSUME NEW c \in Build
      PROVE  PreparedAt(c)'
  <2>1. CASE c = b
    BY <1>2, <1>3, <1>4, <1>5, <2>1 DEF Prepared, PreparedAt, Current
  <2>2. CASE c # b
    BY <1>2, <1>3, <2>2 DEF Prepared, PreparedAt, Current
  <2> QED
    BY <2>1, <2>2
<1>7. ASSUME NEW j \in UnderWay' PROVE (Wanted(j) /\ DepsLocated(j))'
  <2>1. \A w \in Worker : AtWorker(w)' = AtWorker(w)
    BY <1>2 DEF AtWorker, handlerVars, workerVars
  <2>2. CASE ~SendJob(b)
    <3>1. UNCHANGED jobsQue
      BY <2>2 DEF SessionStep, PushData, Started, SignalLock, LocateDep, ScheduleJob,
                  ScheduleJobStopped, SignalDone, schedVars
    <3>2. j \in UnderWay
      BY <2>1, <3>1 DEF UnderWay
    <3> QED
      BY <1>2, <1>3, <3>2 DEF Prepared, Wanted, DepsLocated
  <2>3. CASE SendJob(b)
    <3>1. /\ spc[b] = "send" /\ pos[b] <= Len(jobs[b])
          /\ Len(arts[b]) = Len(Deps[Current(b)])
          /\ jobsQue' = Append(jobsQue, [job |-> Current(b), arts |-> arts[b]])
      BY <2>3 DEF SendJob, ScheduleJobSend, IInv, SessionReady, ReadyAt
    <3>2. Current(b) \in Job /\ Current(b) \in Range(jobs[b])
      BY <1>1, <3>1, RangeFacts DEF Current
    <3>3. Range(jobsQue') = Range(jobsQue) \cup {[job |-> Current(b), arts |-> arts[b]]}
      <4>1. [job |-> Current(b), arts |-> arts[b]] \in JobSpec
        BY <1>1, <3>2 DEF JobSpec
      <4> QED
        BY <1>1, <3>1, <4>1, PutFacts DEF SchedulerTypeOK
    <3>4. j \in UnderWay \/ j = Current(b)
      BY <2>1, <3>3 DEF UnderWay
    <3>5. Wanted(Current(b))
      BY <1>4, <3>2, SortedFacts DEF Prepared, PreparedAt, Wanted
    <3>6. DepsLocated(Current(b))
      <4>1. \A i \in DOMAIN arts[b] : Located(Deps[Current(b)][i])
        BY <3>1 DEF Prepared, PreparedAt
      <4>2. DOMAIN arts[b] = DOMAIN Deps[Current(b)]
        BY <1>1, <3>1, <3>2, GraphAssumption
      <4> QED
        BY <4>1, <4>2 DEF DepsLocated, Range
    <3> QED
      BY <1>2, <1>3, <3>4, <3>5, <3>6 DEF Prepared, Wanted, DepsLocated
  <2> QED
    BY <2>2, <2>3
<1> QED
  BY <1>6, <1>7 DEF Prepared

(* Every step keeps what is located, and jobs prepared.                    *)
LEMMA PreparedStep ==
  ASSUME IInv, Prepared, [Next]_vars
  PROVE  Prepared' /\ \A j \in Job : Located(j) => Located(j)'
<1>1. TypeOK
  BY DEF IInv
<1>2. ASSUME NEW b \in Build, BuildStep(b)
      PROVE  Prepared' /\ \A j \in Job : Located(j) => Located(j)'
  <2>1. UNCHANGED <<handlerVars, workerVars, artifactLocations>>
    BY <1>1, <1>2, BuildFrame
  <2>2. CASE Aside(b)
    <3>1. UNCHANGED <<graph, jobs, pos, arts, jobsQue>>
      BY <2>2 DEF Aside, schedVars
    <3>2. UNCHANGED spc \/ (spc[b] = "open" /\ spc' = [spc EXCEPT ![b] = "lock"])
      BY <2>2 DEF Aside
    <3>3. spc \in [Build -> {"new", "push", "open", "lock", "deps", "send", "signalled"}]
      BY TypeGroups, <1>1 DEF SessionTypeOK
    <3>4. UnderWay' = UnderWay /\ \A j : Located(j)' = Located(j)
      BY <2>1, <3>1 DEF UnderWay, AtWorker, Located, LocateArtifact, handlerVars, workerVars
    <3>5. ASSUME NEW c \in Build PROVE PreparedAt(c)'
      BY <3>1, <3>2, <3>3, <3>4 DEF Prepared, PreparedAt, Current
    <3> QED
      BY <3>1, <3>4, <3>5 DEF Prepared, Wanted, DepsLocated
  <2>3. \A j \in Job : Located(j) => Located(j)'
    BY <2>1 DEF Located, LocateArtifact
  <2> QED
    BY <1>2, <2>2, <2>3, BuildSteps, StartBuildPrepared, SessionPrepared
<1>3. ASSUME NEW w \in Worker, HandlerStep(w)
      PROVE  Prepared' /\ \A j \in Job : Located(j) => Located(j)'
  <2>1. UnderWay' \subseteq UnderWay /\ UNCHANGED <<graph, jobs, sessionVars>>
    BY <1>1, <1>3, HandlerHandsOn, HandlerFrame
  <2>2. \A j \in Job : Located(j) => Located(j)'
    BY <1>3, LocationsFrame
  <2> QED
    BY <2>1, <2>2, StaysPrepared
<1>4. ASSUME NEW w \in Worker, WorkerStep(w) \/ WorkerFault(w)
      PROVE  Prepared' /\ \A j \in Job : Located(j) => Located(j)'
  <2>1. UnderWay' \subseteq UnderWay
    BY <1>4, WorkerHandsOn
  <2>2. UNCHANGED <<buildVars, sessionVars, schedVars>>
    BY <1>1, <1>4, WorkerStepFrame
  <2>3. \A j \in Job : Located(j) => Located(j)'
    BY <2>2 DEF schedVars, Located, LocateArtifact
  <2> QED
    BY <2>1, <2>2, <2>3, StaysPrepared DEF buildVars
<1>5. CASE SchedulerStops \/ UNCHANGED vars
  <2>1. UNCHANGED <<coordVars, workerVars, jobsQue, artifactLocations>>
    BY <1>5 DEF SchedulerStops, StopScheduler, Stop, vars, schedVars
  <2>2. UnderWay' = UnderWay
    BY <2>1 DEF UnderWay, AtWorker, coordVars, handlerVars, workerVars
  <2>3. \A j \in Job : Located(j) => Located(j)'
    BY <2>1 DEF Located, LocateArtifact
  <2> QED
    BY <2>1, <2>2, <2>3, StaysPrepared DEF coordVars, buildVars
<1> QED
  BY <1>2, <1>3, <1>4, <1>5 DEF Next, AllReturned, BuildStep

(* A system that just started.                                             *)
LEMMA PreparedInit == Init => Prepared
<1> SUFFICES ASSUME Init PROVE Prepared
  OBVIOUS
<1>1. \A b \in Build : PreparedAt(b)
  BY DEF PreparedAt, Init, CoordinatorInit
<1>2. UnderWay = {}
  BY EmptyFacts DEF UnderWay, AtWorker, Init, CoordinatorInit, NewScheduler, WorkerInit
<1> QED
  BY <1>1, <1>2 DEF Prepared

(* A job is scheduled because a build wants it, and after its dependencies *)
(* (coordinator.go:167): wherever it is on its way from SignalBuild to the *)
(* report of its result, every artifact it depends on is located.          *)
THEOREM JobsComeAfterTheirDeps == Spec => []Prepared
<1>1. Init => Prepared
  BY PreparedInit
<1>2. IInv /\ Prepared /\ [Next]_vars => Prepared'
  BY PreparedStep
<1> QED
  BY <1>1, <1>2, Invariant, PTL DEF Spec

-----------------------------------------------------------------------------
(* One free slot: OneAtATime is inductive beside IInv.                     *)

(* The heartbeat handler: a result or a job at a time.                     *)
LEMMA OneResultStep ==
  ASSUME FreeSlots = 1, IInv, OneAtATime, NEW w \in Worker, HandlerStep(w)
  PROVE  OneResult(w)' /\ OneJob(w)' /\ WorkerWaits(w)'
<1>1. /\ HandlerTypeOK /\ WorkerTypeOK
      /\ OneResult(w) /\ OneJob(w) /\ WorkerWaits(w)
  BY TypeGroups DEF IInv, OneAtATime
<1>2. todo[w] \in Seq(Result) /\ slots[w] \in Nat
  BY <1>1 DEF HandlerTypeOK
<1>3. CASE CompleteJob(w) /\ UNCHANGED workerVars
  BY <1>1, <1>3 DEF CompleteJob, OneResult, OneJob, WorkerWaits, HandlerTypeOK, workerVars
<1>4. CASE (ReceiveData(w) \/ LockData(w)) /\ UNCHANGED workerVars
  BY <1>1, <1>4 DEF ReceiveData, LockData, OneResult, OneJob, WorkerWaits, HandlerTypeOK,
                    workerVars
<1>5. CASE (ReportJob(w) \/ ReportBuild(w)) /\ UNCHANGED workerVars
  <2>1. todo[w] # <<>> /\ hpc[w] \in {"report", "finish"} /\ UNCHANGED <<slots, picked, resp>>
    BY <1>5 DEF ReportJob, ReportBuild, IInv, HandlerReady
  <2>2. Tail(todo[w]) = <<>>
    BY <1>1, <1>2, <2>1, ShortFacts DEF OneResult
  <2>3. \/ hpc'[w] = "finish" /\ UNCHANGED todo
        \/ /\ todo'[w] = <<>>
           /\ hpc'[w] = IF slots[w] > 0 THEN "pick" ELSE "respond"
    BY <1>1, <1>5, <2>2 DEF ReportJob, ReportBuild, EndResult, Onward, HandlerTypeOK
  <2>4. OneResult(w)'
    BY <1>1, <1>2, <2>1, <2>3 DEF OneResult
  <2> QED
    BY <1>1, <1>5, <2>1, <2>3, <2>4 DEF OneJob, WorkerWaits, workerVars
<1>6. CASE PickJob(w) /\ UNCHANGED workerVars
  <2>1. slots[w] = 1 /\ slots'[w] = 0 /\ hpc[w] = "pick" /\ hpc'[w] = "check"
    BY <1>1, <1>2, <1>6 DEF PickJob, IInv, HandlerReady, OneResult, HandlerTypeOK
  <2> QED
    BY <1>1, <1>6, <2>1 DEF PickJob, OneResult, OneJob, WorkerWaits, HandlerTypeOK, workerVars
<1>7. CASE PickNil(w, wpc[w] = "dead") /\ UNCHANGED workerVars
  BY <1>1, <1>7 DEF PickNil, OneResult, OneJob, WorkerWaits, HandlerTypeOK, workerVars
<1>8. CASE CheckCache(w) /\ UNCHANGED workerVars
  <2>1. /\ hpc[w] = "check" /\ slots'[w] = 0 /\ resp[w] = {} /\ slots[w] = 0
        /\ picked'[w] = Nil /\ todo[w] = <<>>
    BY <1>1, <1>8 DEF CheckCache, OneResult, HandlerTypeOK
  <2>2. CASE Located(picked[w].job)
    <3>1. /\ todo'[w] = <<[job |-> picked[w].job, at |-> LocateArtifact(picked[w].job)]>>
          /\ hpc'[w] = "complete" /\ UNCHANGED resp
      BY <1>1, <1>8, <2>2 DEF CheckCache, HandlerTypeOK
    <3>2. Len(todo'[w]) = 1
      BY <3>1
    <3> QED
      BY <1>1, <1>8, <2>1, <3>1, <3>2 DEF OneResult, OneJob, WorkerWaits, workerVars
  <2>3. CASE ~Located(picked[w].job)
    <3>1. resp'[w] = {picked[w]} /\ UNCHANGED todo /\ hpc'[w] = "respond"
      BY <1>1, <1>8, <2>1, <2>3 DEF CheckCache, HandlerTypeOK, Onward
    <3> QED
      BY <1>1, <1>8, <2>1, <3>1 DEF OneResult, OneJob, WorkerWaits, workerVars
  <2> QED
    BY <2>2, <2>3
<1>9. CASE HeartbeatResponse(w)
  <2>1. /\ hpc[w] = "respond" /\ hpc'[w] = "idle" /\ resp'[w] = {} /\ slots'[w] = 0
        /\ UNCHANGED <<todo, picked, spec>>
    BY <1>1, <1>9 DEF HeartbeatResponse, Respond, ReceiveResponse, HandlerTypeOK, workerVars
  <2>2. OneResult(w)' /\ WorkerWaits(w)'
    BY <1>1, <2>1 DEF OneResult, WorkerWaits
  <2>3. CASE wpc[w] = "dead"
    BY <1>1, <1>9, <2>2, <2>3 DEF HeartbeatResponse, OneJob, workerVars
  <2>4. CASE wpc[w] # "dead"
    <3>1. /\ wpc'[w] = "next" /\ toRun'[w] = resp[w] /\ finished'[w] = <<>>
          /\ spec[w] = Nil
      BY <1>1, <1>9, <2>1, <2>4 DEF HeartbeatResponse, ReceiveResponse, WorkerWaits, WorkerTypeOK
    <3>2. Len(finished'[w]) = 0
      BY <3>1
    <3> QED
      BY <1>1, <2>1, <2>2, <3>1, <3>2 DEF OneResult, OneJob
  <2> QED
    BY <2>2, <2>3, <2>4
<1> QED
  BY <1>3, <1>4, <1>5, <1>6, <1>7, <1>8, <1>9 DEF HandlerStep

(* The worker: a job at a time, and the result of one.                     *)
LEMMA OneJobStep ==
  ASSUME FreeSlots = 1, IInv, OneAtATime, NEW w \in Worker, WorkerStep(w) \/ WorkerFault(w)
  PROVE  OneResult(w)' /\ OneJob(w)' /\ WorkerWaits(w)'
<1>1. /\ HandlerTypeOK /\ WorkerTypeOK
      /\ OneResult(w) /\ OneJob(w) /\ WorkerWaits(w)
  BY TypeGroups DEF IInv, OneAtATime
<1>2. CASE HeartbeatRequest(w)
  <2>1. /\ hpc[w] = "idle" /\ wpc[w] = "next" /\ toRun[w] = {} /\ wpc'[w] = "heartbeat"
        /\ todo'[w] = [i \in DOMAIN finished[w] |-> [job |-> finished[w][i], at |-> w]]
        /\ slots'[w] = 1 /\ resp'[w] = {}
        /\ hpc'[w] = IF finished[w] # <<>> THEN "complete" ELSE "pick"
        /\ UNCHANGED <<toRun, spec, finished, picked>>
    BY <1>1, <1>2 DEF HeartbeatRequest, Heartbeat, SendHeartbeat, Onward, HandlerTypeOK, WorkerTypeOK
  <2>2. Len(todo'[w]) = Len(finished[w]) /\ (finished[w] = <<>> => todo'[w] = <<>>)
    <3>1. finished[w] \in Seq(Job)
      BY <1>1 DEF WorkerTypeOK
    <3> QED
      BY <2>1, <3>1
  <2>3. OneResult(w)'
    BY <1>1, <2>1, <2>2 DEF OneResult, OneJob
  <2> QED
    BY <1>1, <2>1, <2>3 DEF OneJob, WorkerWaits
<1>3. CASE /\ \/ TakeJob(w) \/ CollectArtifact(w) \/ DownloadFile(w, files) \/ CreateArtifact(w)
              \/ RunCmds(w) \/ CommitArtifact(w) \/ RunReturns(w)
           /\ UNCHANGED <<coordVars, schedVars>>
  <2>1. OneResult(w)'
    BY <1>1, <1>3 DEF OneResult, coordVars, handlerVars
  <2>2. CASE RunReturns(w)
    BY <1>1, <1>3, <2>1, <2>2 DEF RunReturns, OneJob, WorkerWaits, WorkerTypeOK, coordVars,
                                  handlerVars
  <2>3. CASE TakeJob(w)
    <3>1. /\ wpc[w] = "next" /\ wpc'[w] = "collect" /\ toRun[w] # {} /\ UNCHANGED finished
          /\ toRun'[w] = {}
      BY <1>1, <2>3 DEF TakeJob, OneJob, WorkerTypeOK
    <3> QED
      BY <1>1, <1>3, <2>1, <3>1 DEF OneJob, WorkerWaits, coordVars, handlerVars
  <2>4. CASE (CollectArtifact(w) \/ DownloadFile(w, files) \/ CreateArtifact(w)) /\ ~RunReturns(w)
    <3>1. /\ wpc[w] = "collect" /\ wpc'[w] \in {"collect", "run"}
          /\ UNCHANGED <<toRun, spec, finished>>
      BY <1>1, <2>4 DEF CollectArtifact, DownloadFile, CreateArtifact, WorkerTypeOK
    <3> QED
      BY <1>1, <1>3, <2>1, <3>1 DEF OneJob, WorkerWaits, coordVars, handlerVars
  <2>5. CASE RunCmds(w)
    <3>1. /\ wpc[w] = "run" /\ wpc'[w] = "commit" /\ finished[w] = <<>>
          /\ finished'[w] = <<spec[w].job>>
          /\ UNCHANGED <<toRun, spec>>
      BY <1>1, <2>5 DEF RunCmds, OneJob, WorkerTypeOK
    <3>2. Len(finished'[w]) = 1
      BY <3>1
    <3> QED
      BY <1>1, <1>3, <2>1, <3>1, <3>2 DEF OneJob, WorkerWaits, coordVars, handlerVars
  <2>6. CASE CommitArtifact(w)
    <3>1. /\ wpc[w] = "commit" /\ wpc'[w] = "next" /\ spec'[w] = Nil
          /\ UNCHANGED <<toRun, finished>>
      BY <1>1, <2>6 DEF CommitArtifact, WorkerTypeOK
    <3> QED
      BY <1>1, <1>3, <2>1, <3>1 DEF OneJob, WorkerWaits, coordVars, handlerVars
  <2> QED
    BY <1>3, <2>2, <2>3, <2>4, <2>5, <2>6
<1> QED
  BY <1>2, <1>3 DEF WorkerStep, WorkerFault, CmdFails, Crash

(* What a thread does to its own state is all that can break it.           *)
LEMMA OneAtATimeStep ==
  ASSUME FreeSlots = 1, IInv, OneAtATime, [Next]_vars
  PROVE  OneAtATime'
<1>1. TypeOK
  BY DEF IInv
<1>2. ASSUME NEW w \in Worker, \A v \in Worker \ {w} : Own(v)' = Own(v),
             OneResult(w)' /\ OneJob(w)' /\ WorkerWaits(w)'
      PROVE  OneAtATime'
  BY <1>2 DEF OneAtATime, OneResult, OneJob, WorkerWaits, Own
<1>3. CASE UNCHANGED <<handlerVars, workerVars>>
  BY <1>3 DEF OneAtATime, OneResult, OneJob, WorkerWaits, handlerVars, workerVars
<1>4. ASSUME NEW w \in Worker, HandlerStep(w)
      PROVE  OneAtATime'
  BY <1>1, <1>2, <1>4, HandlerFrame, OneResultStep
<1>5. ASSUME NEW w \in Worker, WorkerStep(w) \/ WorkerFault(w)
      PROVE  OneAtATime'
  BY <1>1, <1>2, <1>5, WorkerStepFrame, OneJobStep
<1>6. ASSUME NEW b \in Build, BuildStep(b)
      PROVE  OneAtATime'
  BY <1>1, <1>3, <1>6, BuildFrame
<1>7. CASE SchedulerStops \/ UNCHANGED vars
  BY <1>3, <1>7 DEF SchedulerStops, StopScheduler, coordVars, vars
<1> QED
  BY <1>4, <1>5, <1>6, <1>7 DEF Next, AllReturned, BuildStep

-----------------------------------------------------------------------------
(* What a worker has is located, or is about to be.                        *)

(* Where handlers look, they find what their workers have.                 *)
LEMMA HandlerCacheKnown ==
  ASSUME IInv, OneAtATime, CacheKnown, Prepared, NEW w \in Worker, HandlerStep(w)
  PROVE  CacheKnown'
<1>1. /\ TypeOK /\ SchedulerTypeOK /\ HandlerTypeOK /\ WorkerTypeOK
      /\ OneResult(w) /\ WorkerWaits(w) /\ CacheKnownAt(w)
  BY TypeGroups DEF IInv, OneAtATime, CacheKnown
<1>2. LocatedJobs \subseteq LocatedJobs' /\ LocatedJobs' \subseteq Job
  BY LocationsFrame DEF LocatedJobs
<1>3. \A v \in Worker : todo[v] # <<>> => Head(todo[v]).job \in Job
  <2> SUFFICES ASSUME NEW v \in Worker, todo[v] # <<>> PROVE Head(todo[v]).job \in Job
    OBVIOUS
  <2>1. todo[v] \in Seq(Result)
    BY <1>1 DEF HandlerTypeOK
  <2>2. Head(todo[v]) \in Result
    BY <2>1, TakeFacts
  <2> QED
    BY <2>2 DEF Result
<1>4. \A v \in Worker : hpc[v] \in {"receive", "lock", "report", "finish"} => todo[v] # <<>>
  BY DEF IInv, HandlerReady
<1>5. ASSUME NEW v \in Worker \ {w} PROVE CacheKnownAt(v)'
  <2>1. Own(v)' = Own(v) /\ CacheKnownAt(v)
    BY <1>1, HandlerFrame DEF CacheKnown
  <2> QED
    BY <1>2, <1>3, <1>4, <2>1 DEF CacheKnownAt, Own, LocatedJobs
<1>6. SUFFICES CacheKnownAt(w)'
  BY <1>5 DEF CacheKnown
<1>7. CASE CompleteJob(w) /\ UNCHANGED workerVars
  <2>1. Located(Head(todo[w]).job)'
    <3>1. todo[w] # <<>> /\ todo[w] \in Seq(Result)
      BY <1>1, <1>7 DEF IInv, HandlerReady, CompleteJob, HandlerTypeOK
    <3>2. Head(todo[w]) \in Result
      BY <3>1, TakeFacts
    <3>3. Head(todo[w]).at # Nil /\ Head(todo[w]).job \in Job
      BY <3>2, GraphAssumption DEF Result
    <3>4. artifactLocations' = [artifactLocations EXCEPT ![Head(todo[w]).job] = Head(todo[w]).at]
      BY <1>7 DEF CompleteJob, OnJobComplete
    <3>5. artifactLocations'[Head(todo[w]).job] = Head(todo[w]).at
      BY <1>1, <3>3, <3>4 DEF SchedulerTypeOK
    <3>6. UNCHANGED todo
      BY <1>7 DEF CompleteJob
    <3> QED
      BY <3>3, <3>5, <3>6 DEF Located, LocateArtifact
  <2>2. /\ hpc[w] = "complete" /\ hpc'[w] = "receive" /\ UNCHANGED <<todo, artifacts>>
        /\ todo[w] # <<>>
    BY <1>1, <1>7 DEF CompleteJob, HandlerTypeOK, workerVars, IInv, HandlerReady
  <2>3. Head(todo[w]).job \in LocatedJobs'
    BY <1>3, <2>1, <2>2 DEF LocatedJobs
  <2> QED
    BY <1>1, <1>2, <2>1, <2>2, <2>3 DEF CacheKnownAt
<1>8. CASE /\ \/ ReceiveData(w) \/ LockData(w) \/ ReportJob(w) \/ ReportBuild(w)
              \/ PickJob(w) \/ PickNil(w, wpc[w] = "dead")
           /\ UNCHANGED workerVars
  <2>1. /\ hpc[w] \in {"receive", "lock", "report", "finish", "pick"}
        /\ \/ /\ hpc'[w] \in {"lock", "report", "finish"} /\ UNCHANGED todo
              /\ hpc[w] \in {"receive", "lock", "report"}
           \/ hpc'[w] \in {"pick", "check", "respond"}
        /\ UNCHANGED artifacts
    <3>1. CASE ReceiveData(w) \/ LockData(w) \/ PickJob(w) \/ PickNil(w, wpc[w] = "dead")
      BY <1>1, <1>8, <3>1 DEF ReceiveData, LockData, PickJob, PickNil, HandlerTypeOK, workerVars
    <3>2. CASE ReportJob(w) \/ ReportBuild(w)
      <4>1. todo[w] \in Seq(Result) /\ todo[w] # <<>> /\ Len(todo[w]) <= 1
        BY <1>1, <3>2 DEF ReportJob, ReportBuild, IInv, HandlerReady, HandlerTypeOK, OneResult
      <4>2. Tail(todo[w]) = <<>>
        BY <4>1, ShortFacts
      <4> QED
        BY <1>1, <1>8, <3>2, <4>2 DEF ReportJob, ReportBuild, EndResult, Onward, HandlerTypeOK,
                                      workerVars
    <3> QED
      BY <1>8, <3>1, <3>2
  <2>2. Located(Head(todo[w]).job) => Located(Head(todo[w]).job)'
        \/ hpc'[w] \in {"pick", "check", "respond"}
    <3>1. CASE hpc'[w] \in {"lock", "report", "finish"}
      <4>1. todo[w] # <<>>
        BY <1>4, <2>1, <3>1
      <4>2. Head(todo[w]).job \in Job /\ UNCHANGED todo
        BY <1>3, <2>1, <3>1, <4>1
      <4> QED
        BY <4>2, LocationsFrame DEF Located, LocateArtifact
    <3> QED
      BY <2>1, <3>1
  <2> QED
    BY <1>1, <1>2, <2>1, <2>2 DEF CacheKnownAt
<1>9. CASE CheckCache(w) /\ UNCHANGED workerVars
  <2>1. hpc[w] = "check" /\ hpc'[w] \in {"complete", "pick", "respond"} /\ UNCHANGED artifacts
    BY <1>1, <1>9 DEF CheckCache, Onward, HandlerTypeOK, workerVars
  <2> QED
    BY <1>1, <1>2, <2>1 DEF CacheKnownAt
<1>10. CASE HeartbeatResponse(w)
  <2>1. hpc[w] = "respond" /\ hpc'[w] = "idle" /\ UNCHANGED artifacts
    BY <1>1, <1>10 DEF HeartbeatResponse, Respond, ReceiveResponse, HandlerTypeOK, workerVars
  <2> QED
    BY <1>1, <1>2, <2>1 DEF CacheKnownAt
<1> QED
  BY <1>7, <1>8, <1>9, <1>10 DEF HandlerStep

(* A worker collects located artifacts only (SignalBuild waited for them). *)
LEMMA CollectedLocated ==
  ASSUME IInv, Prepared, NEW w \in Worker, CollectArtifact(w), NEW i \in need[w]
  PROVE  /\ Deps[spec[w].job][i] \in LocatedJobs
         /\ Deps[spec[w].job][i] # spec[w].job
<1>1. WorkerTypeOK /\ spec[w] # Nil /\ i \in DOMAIN spec[w].arts
  BY TypeGroups DEF IInv, WorkerReady, CollectArtifact
<1>2. spec[w] \in InFlight
  BY <1>1 DEF InFlight
<1>3. /\ spec[w] \in JobSpec /\ spec[w].job \in UnderWay /\ spec[w].job \in Job
      /\ Len(spec[w].arts) = Len(Deps[spec[w].job])
  BY <1>2, UnderWayFacts DEF IInv, SpecsRunnable, Runnable
<1>4. Deps[spec[w].job] \in Seq(Job) /\ i \in 1..Len(Deps[spec[w].job])
  BY <1>1, <1>3, GraphAssumption DEF JobSpec
<1>5. Deps[spec[w].job][i] \in Range(Deps[spec[w].job]) /\ Deps[spec[w].job][i] \in Job
  BY <1>4, RangeFacts
<1>6. Located(Deps[spec[w].job][i])
  BY <1>3, <1>5 DEF Prepared, DepsLocated
<1>7. PICK b \in Build : spec[w].job \in Range(graph[b])
  BY <1>3 DEF Prepared, Wanted
<1>8. graph[b] \in Requests
  BY <1>7, EmptyFacts DEF Prepared, PreparedAt
<1>9. spec[w].job \notin Range(Deps[spec[w].job])
  BY <1>7, <1>8, NoSelfDep
<1> QED
  BY <1>5, <1>6, <1>9 DEF LocatedJobs

(* A worker has its results from a heartbeat's start on in the handler's   *)
(* hands, and until then in its own.                                       *)
LEMMA WorkerCacheKnown ==
  ASSUME IInv, OneAtATime, CacheKnown, Prepared, NEW w \in Worker,
         WorkerStep(w) \/ WorkerFault(w)
  PROVE  CacheKnown'
<1>1. /\ TypeOK /\ HandlerTypeOK /\ WorkerTypeOK
      /\ OneJob(w) /\ WorkerWaits(w) /\ CacheKnownAt(w)
  BY TypeGroups DEF IInv, OneAtATime, CacheKnown
<1>2. LocatedJobs' = LocatedJobs /\ \A j : Located(j)' = Located(j)
  BY <1>1, WorkerStepFrame DEF LocatedJobs, Located, LocateArtifact, schedVars
<1>3. ASSUME NEW v \in Worker \ {w} PROVE CacheKnownAt(v)'
  <2>1. Own(v)' = Own(v) /\ CacheKnownAt(v)
    BY <1>1, WorkerStepFrame DEF CacheKnown
  <2> QED
    BY <1>2, <2>1 DEF CacheKnownAt, Own
<1>4. SUFFICES CacheKnownAt(w)'
  BY <1>3 DEF CacheKnown
<1>5. CASE HeartbeatRequest(w)
  <2>1. /\ hpc[w] = "idle" /\ wpc[w] = "next"
        /\ todo'[w] = [i \in DOMAIN finished[w] |-> [job |-> finished[w][i], at |-> w]]
        /\ hpc'[w] \in IF finished[w] # <<>> THEN {"complete"} ELSE {"pick", "respond"}
        /\ UNCHANGED artifacts
    BY <1>1, <1>5 DEF HeartbeatRequest, Heartbeat, SendHeartbeat, Onward, HandlerTypeOK
  <2>2. artifacts[w] \subseteq LocatedJobs \cup Range(finished[w])
    BY <1>1, <2>1 DEF CacheKnownAt
  <2>3. CASE finished[w] = <<>>
    BY <1>2, <2>1, <2>2, <2>3, EmptyFacts DEF CacheKnownAt
  <2>4. CASE finished[w] # <<>>
    <3>1. finished[w] \in Seq(Job) /\ Len(finished[w]) = 1 /\ Range(finished[w]) = {Head(finished[w])}
      BY <1>1, <2>4, ShortFacts DEF WorkerTypeOK, OneJob
    <3>2. Head(todo'[w]).job = Head(finished[w])
      <4>1. DOMAIN finished[w] = 1..1 /\ Head(finished[w]) = finished[w][1]
        BY <3>1
      <4>2. todo'[w] = [i \in 1..1 |-> [job |-> finished[w][i], at |-> w]]
        BY <2>1, <4>1
      <4>3. Head(todo'[w]) = todo'[w][1]
        BY <4>2
      <4> QED
        BY <4>1, <4>2, <4>3
    <3> QED
      BY <1>2, <2>1, <2>2, <2>4, <3>1, <3>2 DEF CacheKnownAt
  <2> QED
    BY <2>3, <2>4
<1>6. CASE CollectArtifact(w) /\ ~RunReturns(w) /\ UNCHANGED <<coordVars, schedVars>>
  <2>1. PICK i \in need[w] :
          /\ artifacts' = [artifacts EXCEPT ![w] = artifacts[w] \cup {Deps[spec[w].job][i]}]
          /\ UNCHANGED <<wpc, finished>>
    BY <1>1, <1>6 DEF CollectArtifact, WorkerTypeOK
  <2>2. hpc[w] = "idle" /\ hpc'[w] = "idle" /\ wpc[w] = "collect"
    BY <1>1, <1>6 DEF CollectArtifact, WorkerWaits, coordVars, handlerVars
  <2>3. artifacts'[w] = artifacts[w] \cup {Deps[spec[w].job][i]}
    BY <1>1, <2>1 DEF WorkerTypeOK
  <2>4. Deps[spec[w].job][i] \in LocatedJobs
    BY <1>6, CollectedLocated
  <2> QED
    BY <1>1, <1>2, <2>1, <2>2, <2>3, <2>4 DEF CacheKnownAt
<1>7. CASE RunCmds(w) /\ UNCHANGED <<coordVars, schedVars>>
  <2>1. /\ hpc[w] = "idle" /\ hpc'[w] = "idle" /\ wpc[w] = "run" /\ UNCHANGED artifacts
        /\ finished[w] = <<>>
    BY <1>1, <1>7 DEF RunCmds, OneJob, WorkerWaits, coordVars, handlerVars
  <2> QED
    BY <1>1, <1>2, <2>1, EmptyFacts DEF CacheKnownAt
<1>8. CASE CommitArtifact(w) /\ UNCHANGED <<coordVars, schedVars>>
  <2>1. /\ hpc[w] = "idle" /\ hpc'[w] = "idle" /\ wpc[w] = "commit" /\ UNCHANGED finished
        /\ finished[w] = <<spec[w].job>> /\ artifacts'[w] = artifacts[w] \cup {spec[w].job}
    BY <1>1, <1>8 DEF CommitArtifact, OneJob, WorkerWaits, WorkerTypeOK, coordVars, handlerVars
  <2>2. spec[w].job \in Range(finished[w])
    BY <2>1 DEF Range
  <2> QED
    BY <1>1, <1>2, <2>1, <2>2 DEF CacheKnownAt
<1>9. CASE /\ \/ TakeJob(w) \/ DownloadFile(w, files) \/ CreateArtifact(w) \/ RunReturns(w)
           /\ UNCHANGED <<coordVars, schedVars>>
  <2>1. /\ UNCHANGED <<hpc, todo, artifacts, finished>>
        /\ wpc'[w] = "dead" \/ wpc[w] # "dead"
    BY <1>1, <1>9 DEF TakeJob, DownloadFile, CreateArtifact, RunReturns, WorkerTypeOK, coordVars,
                      handlerVars
  <2> QED
    BY <1>1, <1>2, <2>1 DEF CacheKnownAt
<1> QED
  BY <1>5, <1>6, <1>7, <1>8, <1>9 DEF WorkerStep, WorkerFault, CmdFails, Crash

(* Every step of the system keeps the caches known.                        *)
LEMMA CacheKnownStep ==
  ASSUME IInv, OneAtATime, CacheKnown, Prepared, [Next]_vars
  PROVE  CacheKnown'
<1>1. TypeOK
  BY DEF IInv
<1>2. CASE UNCHANGED <<handlerVars, workerVars, artifactLocations>>
  BY <1>2 DEF CacheKnown, CacheKnownAt, LocatedJobs, Located, LocateArtifact, handlerVars,
              workerVars
<1>3. ASSUME NEW b \in Build, BuildStep(b)
      PROVE  CacheKnown'
  BY <1>1, <1>2, <1>3, BuildFrame
<1>4. CASE SchedulerStops \/ UNCHANGED vars
  BY <1>2, <1>4 DEF SchedulerStops, StopScheduler, Stop, coordVars, schedVars, vars
<1> QED
  BY <1>3, <1>4, HandlerCacheKnown, WorkerCacheKnown DEF Next, AllReturned, BuildStep

-----------------------------------------------------------------------------
(* No worker is told to run what it has.                                   *)

(* A job goes to a worker only when no artifact of it is located.          *)
LEMMA HandlerRunOnce ==
  ASSUME IInv, OneAtATime, CacheKnown, RunOnce, NEW w \in Worker, HandlerStep(w)
  PROVE  RunOnce'
<1> DEFINE Told(v) == resp[v] \cup toRun[v] \cup ({spec[v]} \ {Nil})
<1>1. TypeOK /\ HandlerTypeOK /\ WorkerTypeOK
  BY TypeGroups DEF IInv
<1>2. \A v \in Worker \ {w} : Own(v)' = Own(v)
  BY <1>1, HandlerFrame
<1>3. SUFFICES ASSUME NEW s \in Told(w)' PROVE s.job \notin artifacts'[w]
  BY <1>2 DEF RunOnce, Own
<1>4. artifacts'[w] = artifacts[w] /\ \A t \in Told(w) : t.job \notin artifacts[w]
  BY DEF RunOnce, HandlerStep, HeartbeatResponse, ReceiveResponse, workerVars
<1>5. CASE CheckCache(w) /\ UNCHANGED workerVars
  <2>1. Told(w)' \subseteq Told(w) \cup {picked[w]} /\ (Located(picked[w].job) => UNCHANGED resp)
    BY <1>1, <1>5 DEF CheckCache, workerVars, HandlerTypeOK
  <2>2. hpc[w] = "check" /\ artifacts[w] \subseteq LocatedJobs
    BY <1>5 DEF CheckCache, CacheKnown, CacheKnownAt
  <2>3. CASE Located(picked[w].job)
    BY <1>4, <1>5, <2>1, <2>3 DEF workerVars
  <2>4. CASE ~Located(picked[w].job)
    BY <1>4, <2>1, <2>2, <2>4 DEF LocatedJobs
  <2> QED
    BY <2>3, <2>4
<1>6. CASE HeartbeatResponse(w)
  <2>1. Told(w)' \subseteq Told(w)
    BY <1>1, <1>6 DEF HeartbeatResponse, Respond, ReceiveResponse, workerVars, HandlerTypeOK,
                      WorkerTypeOK
  <2> QED
    BY <1>4, <2>1
<1>7. CASE /\ \/ CompleteJob(w) \/ ReceiveData(w) \/ LockData(w) \/ ReportJob(w)
              \/ ReportBuild(w) \/ PickJob(w) \/ PickNil(w, wpc[w] = "dead")
           /\ UNCHANGED workerVars
  <2>1. UNCHANGED <<resp, toRun, spec>>
    BY <1>7 DEF CompleteJob, ReceiveData, LockData, ReportJob, ReportBuild, PickJob, PickNil,
                workerVars
  <2> QED
    BY <1>4, <2>1
<1> QED
  BY <1>5, <1>6, <1>7 DEF HandlerStep

(* A worker that has a job collects other artifacts, and commits its own   *)
(* when it is done with the job.                                           *)
LEMMA WorkerRunOnce ==
  ASSUME IInv, OneAtATime, Prepared, RunOnce, NEW w \in Worker, WorkerStep(w) \/ WorkerFault(w)
  PROVE  RunOnce'
<1> DEFINE Told(v) == resp[v] \cup toRun[v] \cup ({spec[v]} \ {Nil})
<1>1. /\ TypeOK /\ HandlerTypeOK /\ WorkerTypeOK
      /\ OneResult(w) /\ OneJob(w) /\ WorkerWaits(w)
  BY TypeGroups DEF IInv, OneAtATime
<1>2. \A v \in Worker \ {w} : Own(v)' = Own(v)
  BY <1>1, WorkerStepFrame
<1>3. SUFFICES ASSUME NEW s \in Told(w)' PROVE s.job \notin artifacts'[w]
  BY <1>2 DEF RunOnce, Own
<1>4. \A t \in Told(w) : t.job \notin artifacts[w]
  BY DEF RunOnce
<1>5. CASE CollectArtifact(w) /\ ~RunReturns(w) /\ UNCHANGED <<coordVars, schedVars>>
  <2>1. PICK i \in need[w] :
          /\ artifacts' = [artifacts EXCEPT ![w] = artifacts[w] \cup {Deps[spec[w].job][i]}]
          /\ UNCHANGED <<toRun, spec>>
    BY <1>1, <1>5 DEF CollectArtifact, WorkerTypeOK
  <2>2. toRun[w] = {} /\ resp[w] = {} /\ UNCHANGED resp
    BY <1>1, <1>5 DEF CollectArtifact, OneJob, OneResult, WorkerWaits, coordVars, handlerVars
  <2>3. s = spec[w] /\ s \in Told(w)
    BY <2>1, <2>2
  <2>4. artifacts'[w] = artifacts[w] \cup {Deps[spec[w].job][i]}
    BY <1>1, <2>1 DEF WorkerTypeOK
  <2>5. Deps[spec[w].job][i] # spec[w].job
    BY <1>5, CollectedLocated
  <2> QED
    BY <1>4, <2>3, <2>4, <2>5
<1>6. CASE CommitArtifact(w) /\ UNCHANGED <<coordVars, schedVars>>
  <2>1. toRun'[w] = {} /\ resp'[w] = {} /\ spec'[w] = Nil
    BY <1>1, <1>6 DEF CommitArtifact, OneJob, OneResult, WorkerWaits, WorkerTypeOK, coordVars,
                      handlerVars
  <2> QED
    BY <2>1
<1>7. CASE HeartbeatRequest(w)
  <2>1. Told(w)' \subseteq Told(w) /\ UNCHANGED artifacts
    BY <1>1, <1>7 DEF HeartbeatRequest, Heartbeat, SendHeartbeat, HandlerTypeOK
  <2> QED
    BY <1>4, <2>1
<1>8. CASE /\ \/ TakeJob(w) \/ DownloadFile(w, files) \/ CreateArtifact(w) \/ RunCmds(w)
              \/ RunReturns(w)
           /\ UNCHANGED <<coordVars, schedVars>>
  <2>1. Told(w)' \subseteq Told(w) /\ UNCHANGED artifacts
    BY <1>1, <1>8 DEF TakeJob, DownloadFile, CreateArtifact, RunCmds, RunReturns, WorkerTypeOK,
                      coordVars, handlerVars
  <2> QED
    BY <1>4, <2>1
<1> QED
  BY <1>5, <1>6, <1>7, <1>8 DEF WorkerStep, WorkerFault, CmdFails, Crash

(* Every step of the system preserves them.                                *)
LEMMA JobStep ==
  ASSUME FreeSlots = 1, IInv, JobInv, [Next]_vars
  PROVE  JobInv'
<1>1. Prepared' /\ OneAtATime' /\ CacheKnown'
  BY PreparedStep, OneAtATimeStep, CacheKnownStep DEF JobInv
<1>2. RunOnce'
  <2>1. TypeOK
    BY DEF IInv
  <2>2. CASE UNCHANGED <<handlerVars, workerVars>>
    BY <2>2 DEF JobInv, RunOnce, handlerVars, workerVars
  <2>3. ASSUME NEW b \in Build, BuildStep(b)
        PROVE  RunOnce'
    BY <2>1, <2>2, <2>3, BuildFrame
  <2>4. CASE SchedulerStops \/ UNCHANGED vars
    BY <2>2, <2>4 DEF SchedulerStops, StopScheduler, coordVars, vars
  <2> QED
    BY <2>3, <2>4, HandlerRunOnce, WorkerRunOnce DEF Next, AllReturned, BuildStep, JobInv
<1> QED
  BY <1>1, <1>2 DEF JobInv

(* The jobs of a system that just started: there are none.                 *)
LEMMA JobInit == Init => JobInv
<1> SUFFICES ASSUME Init PROVE JobInv
  OBVIOUS
<1>1. Prepared
  BY PreparedInit
<1>2. OneAtATime
  BY EmptyFacts DEF OneAtATime, OneResult, OneJob, WorkerWaits, Init, CoordinatorInit, WorkerInit
<1>3. CacheKnown /\ RunOnce
  BY DEF CacheKnown, CacheKnownAt, RunOnce, Init, CoordinatorInit, WorkerInit
<1> QED
  BY <1>1, <1>2, <1>3 DEF JobInv

(* With one free slot (worker.go:76) a worker has one job at a time, and   *)
(* all that it has built or downloaded is located but the result it is     *)
(* about to report.                                                        *)
THEOREM OneJobAtATime ==
  ASSUME FreeSlots = 1
  PROVE  Spec => []JobInv
<1>1. IInv /\ JobInv /\ [Next]_vars => JobInv'
  BY JobStep
<1> QED
  BY <1>1, JobInit, Invariant, PTL DEF Spec

(* So the Create of a worker (worker.go:132) never finds the artifact of   *)
(* the job that it is told to run: whatever was computed twice, given up,  *)
(* lost or downloaded, a job goes only to a worker that does not have it.  *)
THEOREM NoJobRunsTwiceOnAWorker ==
  ASSUME FreeSlots = 1
  PROVE  Spec => []RunOnce
<1>1. JobInv => RunOnce
  BY DEF JobInv
<1> QED
  BY <1>1, OneJobAtATime, PTL

-----------------------------------------------------------------------------
(* A worker ends for a reason.                                             *)

(* A worker's files stay those of its jobs.                                *)
LEMMA FilesOfJobsWorker ==
  ASSUME IInv, FilesOfJobs, NEW w \in Worker,
         WorkerStep(w) \/ WorkerFault(w) \/ HandlerStep(w)
  PROVE  FilesOfJobs'
<1>1. TypeOK /\ WorkerTypeOK
  BY TypeGroups DEF IInv
<1>2. \A v \in Worker \ {w} : Own(v)' = Own(v)
  BY <1>1, HandlerFrame, WorkerStepFrame
<1>3. FilesOfJobsAt(w)
  BY DEF FilesOfJobs
<1>4. SUFFICES FilesOfJobsAt(w)'
  BY <1>2 DEF FilesOfJobs, FilesOfJobsAt, Own
<1>5. CASE TakeJob(w)
  <2>1. /\ wpc[w] = "next" /\ wpc'[w] = "collect" /\ fetch'[w] = Inputs[spec'[w].job]
        /\ UNCHANGED <<artifacts, wfiles>>
    BY <1>1, <1>5 DEF TakeJob, WorkerTypeOK
  <2> QED
    BY <1>3, <2>1 DEF FilesOfJobsAt
<1>6. CASE CollectArtifact(w) /\ ~RunReturns(w)
  <2>1. /\ UNCHANGED <<wpc, fetch, spec, wfiles>> /\ artifacts[w] \subseteq artifacts'[w]
        /\ wpc[w] = "collect"
    BY <1>1, <1>6 DEF CollectArtifact, WorkerTypeOK
  <2> QED
    BY <1>3, <2>1 DEF FilesOfJobsAt
<1>7. CASE DownloadFile(w, files) /\ ~RunReturns(w)
  <2>1. PICK f \in fetch[w] :
          /\ wfiles'[w] = wfiles[w] \cup {f} /\ fetch'[w] = fetch[w] \ {f}
          /\ wpc[w] = "collect" /\ UNCHANGED <<wpc, spec, artifacts>>
    BY <1>1, <1>7 DEF DownloadFile, WorkerTypeOK
  <2>2. f \in File
    BY <1>1, <2>1 DEF WorkerTypeOK
  <2> QED
    BY <1>3, <2>1, <2>2 DEF FilesOfJobsAt
<1>8. CASE CreateArtifact(w) /\ ~RunReturns(w)
  <2>1. /\ wpc[w] = "collect" /\ wpc'[w] = "run" /\ need[w] = {} /\ fetch[w] = {}
        /\ UNCHANGED <<need, fetch, spec, artifacts, wfiles>>
    BY <1>1, <1>8 DEF CreateArtifact, WorkerTypeOK
  <2> QED
    BY <1>3, <2>1 DEF FilesOfJobsAt
<1>9. CASE RunCmds(w)
  <2>1. /\ wpc[w] = "run" /\ wpc'[w] = "commit"
        /\ UNCHANGED <<need, fetch, spec, artifacts, wfiles>>
    BY <1>1, <1>9 DEF RunCmds, WorkerTypeOK
  <2> QED
    BY <1>3, <2>1 DEF FilesOfJobsAt
<1>10. CASE CommitArtifact(w)
  <2>1. /\ wpc'[w] = "next" /\ artifacts'[w] = artifacts[w] \cup {spec[w].job}
        /\ wpc[w] = "commit" /\ UNCHANGED wfiles
    BY <1>1, <1>10 DEF CommitArtifact, WorkerTypeOK
  <2> QED
    BY <1>3, <2>1 DEF FilesOfJobsAt
<1>11. CASE HeartbeatRequest(w) \/ HandlerStep(w)
  <2>1. /\ \/ UNCHANGED wpc
           \/ wpc[w] \in {"next", "heartbeat"} /\ wpc'[w] \in {"next", "heartbeat"}
        /\ UNCHANGED <<need, fetch, spec, artifacts, wfiles>>
    BY <1>1, <1>11 DEF HeartbeatRequest, SendHeartbeat, HandlerStep, HeartbeatResponse,
                       ReceiveResponse, workerVars, WorkerTypeOK
  <2> QED
    BY <1>3, <2>1 DEF FilesOfJobsAt
<1>12. CASE RunReturns(w)
  BY <1>1, <1>12 DEF RunReturns, FilesOfJobsAt, WorkerTypeOK
<1> QED
  BY <1>5, <1>6, <1>7, <1>8, <1>9, <1>10, <1>11, <1>12
     DEF WorkerStep, WorkerFault, CmdFails, Crash

LEMMA FilesOfJobsStep ==
  ASSUME IInv, FilesOfJobs, [Next]_vars
  PROVE  FilesOfJobs'
<1>1. CASE UNCHANGED workerVars
  BY <1>1 DEF FilesOfJobs, FilesOfJobsAt, workerVars
<1>2. ASSUME NEW b \in Build, BuildStep(b)
      PROVE  FilesOfJobs'
  BY <1>1, <1>2, BuildFrame DEF IInv
<1>3. CASE SchedulerStops \/ UNCHANGED vars
  BY <1>1, <1>3 DEF SchedulerStops, vars
<1> QED
  BY <1>2, <1>3, FilesOfJobsWorker DEF Next, AllReturned, BuildStep

(* Nothing happens to a worker that has ended.                             *)
LEMMA DeadStays ==
  ASSUME TypeOK, [Next]_vars, NEW w \in Worker, wpc[w] = "dead"
  PROVE  /\ wpc'[w] = "dead" /\ spec'[w] = spec[w] /\ need'[w] = need[w]
         /\ fetch'[w] = fetch[w] /\ artifacts'[w] = artifacts[w] /\ wfiles'[w] = wfiles[w]
<1>1. CASE UNCHANGED workerVars
  BY <1>1 DEF workerVars
<1>2. ASSUME NEW b \in Build, BuildStep(b)
      PROVE  UNCHANGED workerVars
  BY <1>2, BuildFrame
<1>3. CASE SchedulerStops \/ UNCHANGED vars
  BY <1>1, <1>3 DEF SchedulerStops, vars
<1>4. ASSUME NEW v \in Worker, HandlerStep(v) \/ WorkerStep(v) \/ WorkerFault(v)
      PROVE  Own(w)' = Own(w) \/ UNCHANGED workerVars \/ RunReturns(w)
  <2>1. CASE v # w
    BY <1>4, <2>1, HandlerFrame, WorkerStepFrame
  <2>2. CASE v = w /\ HandlerStep(v)
    BY <2>2 DEF HandlerStep, HeartbeatResponse, workerVars
  <2>3. CASE v = w /\ (WorkerStep(v) \/ WorkerFault(v))
    BY <2>3 DEF WorkerStep, WorkerFault, HeartbeatRequest, SendHeartbeat, TakeJob, CollectArtifact,
                DownloadFile, CreateArtifact, RunCmds, CommitArtifact, CmdFails, Crash
  <2> QED
    BY <1>4, <2>1, <2>2, <2>3
<1>5. CASE Own(w)' = Own(w) \/ RunReturns(w)
  BY <1>5, TypeGroups DEF Own, RunReturns, WorkerTypeOK
<1> QED
  BY <1>1, <1>2, <1>3, <1>4, <1>5 DEF Next, AllReturned, BuildStep

(* Where a worker ends, the artifacts it collects are at their workers and *)
(* the files at the coordinator, and the artifact it creates is not here.  *)
LEMMA EndsForAReason ==
  ASSUME IInv, JobInv, FilesOfJobs, "crash" \notin Faults,
         NEW w \in Worker, WorkerStep(w) \/ WorkerFault(w), wpc'[w] = "dead"
  PROVE  EndedFor(w)'
<1>1. WorkerTypeOK /\ FilesOfJobsAt(w)
  BY TypeGroups DEF IInv, FilesOfJobs
<1>2. /\ RunReturns(w) /\ wpc[w] \in {"collect", "run"}
      /\ \/ CollectArtifact(w) \/ DownloadFile(w, files) \/ CreateArtifact(w)
         \/ "cmd" \in Faults /\ wpc[w] = "run"
  BY <1>1 DEF WorkerStep, WorkerFault, HeartbeatRequest, SendHeartbeat, TakeJob, CollectArtifact,
              DownloadFile, CreateArtifact, RunCmds, CommitArtifact, CmdFails, WorkerTypeOK
<1>3. /\ wpc' = [wpc EXCEPT ![w] = "dead"]
      /\ UNCHANGED <<toRun, spec, need, fetch, finished, artifacts, wfiles>>
  BY <1>2 DEF RunReturns
<1>4. /\ spec[w] # Nil /\ spec[w] \in JobSpec /\ spec[w] \in InFlight /\ spec[w].job \in Job
      /\ need[w] \subseteq DOMAIN spec[w].arts /\ Runnable(spec[w])
  BY <1>1, <1>2 DEF IInv, WorkerReady, WorkerTypeOK, InFlight, SpecsRunnable, JobSpec
<1>5. spec[w].job \notin artifacts[w]
  BY <1>4 DEF JobInv, RunOnce
<1>6. CASE CollectArtifact(w)
  <2>1. PICK i \in need[w] :
          /\ Deps[spec[w].job][i] \notin artifacts[w]
          /\ DownloadFails(spec[w].arts[i], Deps[spec[w].job][i])
    BY <1>1, <1>2, <1>3, <1>6 DEF CollectArtifact, WorkerTypeOK
  <2>2. i \in DOMAIN spec[w].arts /\ spec[w].arts[i] \in Worker
    BY <1>4, <2>1 DEF JobSpec
  <2>3. wpc[spec[w].arts[i]] = "dead"
    BY <1>4, <2>1, <2>2 DEF DownloadFails, ArtifactServed, Runnable
  <2>4. wpc'[spec[w].arts[i]] = "dead"
    BY <1>1, <1>3, <2>2, <2>3 DEF WorkerTypeOK
  <2>5. SourceEnded(w)'
    BY <1>3, <2>1, <2>2, <2>4 DEF SourceEnded
  <2> QED
    BY <1>3, <1>4, <1>5, <2>5 DEF EndedFor
<1>7. CASE DownloadFile(w, files)
  <2>1. PICK f \in fetch[w] : ~FileDownloads(w, f, files) /\ wpc[w] = "collect"
    BY <1>1, <1>2, <1>3, <1>7 DEF DownloadFile, WorkerTypeOK
  <2>2. f \in Inputs[spec[w].job] /\ f \in files
    BY <1>1, <1>4, <2>1 DEF FilesOfJobsAt, Runnable
  <2>3. f \in wfiles[w]
    BY <2>1, <2>2 DEF FileDownloads
  <2>4. PICK j \in artifacts[w] : f \in Inputs[j]
    BY <1>1, <2>1, <2>3 DEF FilesOfJobsAt
  <2>5. FileHere(w)
    BY <1>5, <2>1, <2>2, <2>3, <2>4 DEF FileHere
  <2>6. FileHere(w)'
    BY <1>3, <2>5 DEF FileHere
  <2> QED
    BY <1>3, <1>4, <1>5, <2>6 DEF EndedFor
<1>8. CASE "cmd" \in Faults /\ wpc[w] = "run"
  BY <1>1, <1>3, <1>4, <1>5, <1>8 DEF FilesOfJobsAt, EndedFor, CmdFailed
<1>9. ~CreateArtifact(w)
  BY <1>1, <1>3, <1>5 DEF CreateArtifact, WorkerTypeOK
<1> QED
  BY <1>2, <1>6, <1>7, <1>8, <1>9

LEMMA EndsStep ==
  ASSUME IInv, JobInv, FilesOfJobs, WorkersEndFor, [Next]_vars
  PROVE  WorkersEndFor'
<1>1. SUFFICES ASSUME "crash" \notin Faults, NEW w \in Worker, wpc'[w] = "dead"
               PROVE  EndedFor(w)'
  BY DEF WorkersEndFor
<1>2. TypeOK
  BY DEF IInv
<1>3. CASE wpc[w] = "dead"
  <2>1. /\ EndedFor(w)
        /\ spec'[w] = spec[w] /\ need'[w] = need[w] /\ fetch'[w] = fetch[w]
        /\ artifacts'[w] = artifacts[w] /\ wfiles'[w] = wfiles[w]
    BY <1>1, <1>2, <1>3, DeadStays DEF WorkersEndFor
  <2>2. \A v \in Worker : wpc[v] = "dead" => wpc'[v] = "dead"
    BY <1>2, DeadStays
  <2> QED
    BY <2>1, <2>2 DEF EndedFor, CmdFailed, SourceEnded, FileHere
<1>4. CASE wpc[w] # "dead"
  <2>1. CASE WorkerStep(w) \/ WorkerFault(w)
    BY <1>1, <2>1, EndsForAReason
  <2>2. ASSUME NEW v \in Worker, HandlerStep(v) \/ WorkerStep(v) \/ WorkerFault(v),
               ~(WorkerStep(w) \/ WorkerFault(w))
        PROVE  FALSE
    <3>1. CASE v # w
      BY <1>1, <1>2, <1>4, <2>2, <3>1, HandlerFrame, WorkerStepFrame DEF Own
    <3>2. CASE HandlerStep(w)
      BY <1>1, <1>2, <1>4, <3>2, TypeGroups
         DEF HandlerStep, HeartbeatResponse, ReceiveResponse, workerVars, WorkerTypeOK
    <3> QED
      BY <2>2, <3>1, <3>2
  <2>3. ASSUME NEW b \in Build PROVE ~BuildStep(b)
    BY <1>1, <1>2, <1>4, BuildFrame DEF workerVars
  <2>4. ~SchedulerStops /\ ~UNCHANGED vars
    BY <1>1, <1>4 DEF SchedulerStops, vars, workerVars
  <2> QED
    BY <2>1, <2>2, <2>3, <2>4 DEF Next, AllReturned, BuildStep
<1> QED
  BY <1>3, <1>4

(* Whatever clients do, and in every interleaving: as long as no process   *)
(* is lost, a worker's Run (worker.go:74-149) ends only because a command  *)
(* failed, because the worker that has an artifact it needs has ended, or  *)
(* because an earlier job brought a source file of this one.  Each spec    *)
(* names the right places, and each Create finds no artifact.              *)
THEOREM WorkersEndForAReason ==
  ASSUME FreeSlots = 1
  PROVE  Spec => []WorkersEndFor
<1>1. Init => FilesOfJobs /\ WorkersEndFor
  BY DEF Init, WorkerInit, FilesOfJobs, FilesOfJobsAt, WorkersEndFor
<1>2. IInv /\ JobInv /\ FilesOfJobs /\ WorkersEndFor /\ [Next]_vars
        => (FilesOfJobs /\ WorkersEndFor)'
  BY FilesOfJobsStep, EndsStep
<1> QED
  BY <1>1, <1>2, OneJobAtATime, Invariant, PTL DEF Spec

(***************************************************************************)
(* The receive of processFinishedJob never blocks: for every execution of  *)
(* a job a build is in the job's channel.  A build queues for its jobs in  *)
(* StartBuild, before it signals; from then on it is owed an execution of  *)
(* each, until it has scheduled it.  CreditInv counts both.                *)
(***************************************************************************)
(* A part of a set; a set with one element more; one with an element less. *)
LEMMA CountPart ==
  ASSUME NEW S, IsFiniteSet(S), NEW T, T \subseteq S
  PROVE  /\ IsFiniteSet(T)
         /\ Cardinality(S) \in Nat /\ Cardinality(T) \in Nat
         /\ Cardinality(T) <= Cardinality(S)
BY FS_Subset, FS_CardinalityType

LEMMA CountMore ==
  ASSUME NEW S, IsFiniteSet(S), NEW x, NEW T, T \subseteq S \cup {x}
  PROVE  /\ IsFiniteSet(T)
         /\ Cardinality(S) \in Nat /\ Cardinality(T) \in Nat
         /\ Cardinality(T) <= Cardinality(S) + 1
<1>1. Cardinality(S) \in Nat
  BY FS_CardinalityType
<1>2. IsFiniteSet(S \cup {x}) /\ Cardinality(S \cup {x}) <= Cardinality(S) + 1
  BY <1>1, FS_AddElement
<1>3. /\ IsFiniteSet(T) /\ Cardinality(S \cup {x}) \in Nat /\ Cardinality(T) \in Nat
      /\ Cardinality(T) <= Cardinality(S \cup {x})
  BY <1>2, CountPart
<1> QED
  BY <1>1, <1>2, <1>3

LEMMA CountLess ==
  ASSUME NEW S, IsFiniteSet(S), NEW x \in S, NEW T, T \subseteq S \ {x}
  PROVE  /\ IsFiniteSet(T)
         /\ Cardinality(S) \in Nat /\ Cardinality(T) \in Nat
         /\ Cardinality(T) + 1 <= Cardinality(S)
<1>1. Cardinality(S) \in Nat
  BY FS_CardinalityType
<1>2. IsFiniteSet(S \ {x}) /\ Cardinality(S \ {x}) = Cardinality(S) - 1
  BY FS_RemoveElement
<1>3. /\ IsFiniteSet(T) /\ Cardinality(T) \in Nat
      /\ Cardinality(T) <= Cardinality(S \ {x})
  BY <1>2, CountPart
<1> QED
  BY <1>1, <1>2, <1>3

(* Two sets that differ in one element at most.                            *)
LEMMA CountChange ==
  ASSUME NEW S, IsFiniteSet(S), NEW T, NEW x, T \ {x} = S \ {x}
  PROVE  /\ IsFiniteSet(T)
         /\ Cardinality(S) \in Nat /\ Cardinality(T) \in Nat
         /\ Cardinality(T) + (IF x \in S THEN 1 ELSE 0)
              = Cardinality(S) + (IF x \in T THEN 1 ELSE 0)
<1>1. T \subseteq S \cup {x}
  OBVIOUS
<1>2. IsFiniteSet(T) /\ Cardinality(S) \in Nat /\ Cardinality(T) \in Nat
  BY <1>1, CountMore
<1>3. Cardinality(S \ {x}) = IF x \in S THEN Cardinality(S) - 1 ELSE Cardinality(S)
  BY FS_RemoveElement
<1>4. Cardinality(T \ {x}) = IF x \in T THEN Cardinality(T) - 1 ELSE Cardinality(T)
  BY <1>2, FS_RemoveElement
<1> QED
  BY <1>2, <1>3, <1>4

(* The places of a job in a queue: of an element put, and of one taken.    *)
Places(s, j) == {i \in DOMAIN s : s[i].job = j}

LEMMA PlacesFinite ==
  ASSUME NEW S, NEW s \in Seq(S), NEW j
  PROVE  IsFiniteSet(Places(s, j)) /\ Cardinality(Places(s, j)) \in Nat
<1>1. IsFiniteSet(1..Len(s))
  BY FS_Interval
<1>2. Places(s, j) \subseteq 1..Len(s)
  BY DEF Places
<1> QED
  BY <1>1, <1>2, CountPart

(* A job put into a queue has one place there.                             *)
LEMMA PutPlaces ==
  ASSUME NEW S, NEW q \in Seq(S), NEW e \in S, NEW j
  PROVE  /\ Cardinality(Places(Append(q, e), j)) \in Nat
         /\ Cardinality(Places(Append(q, e), j)) <= Cardinality(Places(q, j)) + 1
         /\ e.job # j => Cardinality(Places(Append(q, e), j)) <= Cardinality(Places(q, j))
<1>1. /\ Append(q, e) \in Seq(S)
      /\ DOMAIN Append(q, e) = 1..(Len(q) + 1) /\ DOMAIN q = 1..Len(q)
      /\ \A i \in 1..Len(q) : Append(q, e)[i] = q[i]
      /\ Append(q, e)[Len(q) + 1] = e
  OBVIOUS
<1>2. Places(Append(q, e), j) \subseteq Places(q, j) \cup {Len(q) + 1}
  <2> SUFFICES ASSUME NEW i \in 1..(Len(q) + 1), Append(q, e)[i].job = j, i # Len(q) + 1
               PROVE  i \in Places(q, j)
    BY <1>1 DEF Places
  <2>1. i \in 1..Len(q)
    OBVIOUS
  <2> QED
    BY <1>1, <2>1 DEF Places
<1>3. e.job # j => Places(Append(q, e), j) \subseteq Places(q, j)
  BY <1>1, <1>2 DEF Places
<1>4. IsFiniteSet(Places(q, j))
  BY PlacesFinite
<1>5. /\ Cardinality(Places(Append(q, e), j)) \in Nat
      /\ Cardinality(Places(Append(q, e), j)) <= Cardinality(Places(q, j)) + 1
  BY <1>2, <1>4, CountMore
<1>6. e.job # j => Cardinality(Places(Append(q, e), j)) <= Cardinality(Places(q, j))
  BY <1>3, <1>4, CountPart
<1> QED
  BY <1>5, <1>6

(* A job taken from a queue had one place there.                           *)
LEMMA TakePlaces ==
  ASSUME NEW S, NEW q \in Seq(S), q # <<>>, NEW j
  PROVE  /\ Cardinality(Places(Tail(q), j)) \in Nat
         /\ Cardinality(Places(Tail(q), j)) <= Cardinality(Places(q, j))
         /\ Head(q).job = j => Cardinality(Places(Tail(q), j)) + 1 <= Cardinality(Places(q, j))
<1>1. /\ Tail(q) \in Seq(S) /\ Head(q) = q[1] /\ 1 \in DOMAIN q
      /\ \A i \in DOMAIN Tail(q) : i + 1 \in DOMAIN q /\ Tail(q)[i] = q[i + 1] /\ i \in Nat \ {0}
  OBVIOUS
<1> DEFINE f == [i \in Places(Tail(q), j) |-> i + 1]
<1>2. f \in Injection(Places(Tail(q), j), Places(q, j) \ {1})
  <2>1. f \in [Places(Tail(q), j) -> Places(q, j) \ {1}]
    BY <1>1 DEF Places
  <2>2. \A a, b \in DOMAIN f : f[a] = f[b] => a = b
    BY <1>1 DEF Places
  <2> QED
    BY <2>1, <2>2 DEF Injection, IsInjective
<1>3. /\ IsFiniteSet(Places(q, j)) /\ Cardinality(Places(q, j)) \in Nat
      /\ Cardinality(Places(Tail(q), j)) \in Nat
  BY <1>1, PlacesFinite
<1>4. /\ IsFiniteSet(Places(q, j) \ {1}) /\ Cardinality(Places(q, j) \ {1}) \in Nat
      /\ Cardinality(Places(q, j) \ {1}) <= Cardinality(Places(q, j))
  BY <1>3, CountPart
<1>5. Head(q).job = j => Cardinality(Places(q, j) \ {1}) + 1 <= Cardinality(Places(q, j))
  <2>1. Head(q).job = j => 1 \in Places(q, j)
    BY <1>1 DEF Places
  <2> QED
    BY <1>3, <2>1, CountLess
<1>6. Cardinality(Places(Tail(q), j)) <= Cardinality(Places(q, j) \ {1})
  <2> HIDE DEF f
  <2> QED
    BY <1>2, <1>4, FS_Injection, Zenon
<1> QED
  BY <1>3, <1>4, <1>5, <1>6

-----------------------------------------------------------------------------
(* Worker w's part in the executions of a job that have left the queue.    *)
Part(w, j) ==
  (IF w \in Given(j) THEN 1 ELSE 0) + (IF w \in Running(j) THEN 1 ELSE 0)
    + (IF w \in Built(j) THEN 1 ELSE 0) + (IF w \in Processed(j) THEN 1 ELSE 0)

(* Their number changes with the part of the thread that steps.            *)
LEMMA OutChange ==
  ASSUME NEW w \in Worker, NEW j, \A v \in Worker \ {w} : Own(v)' = Own(v)
  PROVE  /\ Out(j) \in Nat /\ Out(j)' \in Nat
         /\ Part(w, j) \in Nat /\ Part(w, j)' \in Nat
         /\ Out(j)' + Part(w, j) = Out(j) + Part(w, j)'
<1>1. /\ Given(j) \subseteq Worker /\ Running(j) \subseteq Worker
      /\ Built(j) \subseteq Worker /\ Processed(j) \subseteq Worker
      /\ IsFiniteSet(Worker)
  BY GraphAssumption DEF Given, Running, Built, Processed
<1>2. /\ IsFiniteSet(Given(j)) /\ IsFiniteSet(Running(j))
      /\ IsFiniteSet(Built(j)) /\ IsFiniteSet(Processed(j))
  BY <1>1, CountPart
<1>3. /\ Given(j)' \ {w} = Given(j) \ {w}
      /\ Running(j)' \ {w} = Running(j) \ {w}
      /\ Built(j)' \ {w} = Built(j) \ {w}
      /\ Processed(j)' \ {w} = Processed(j) \ {w}
  BY DEF Given, Running, Built, Processed, Own
<1>4. /\ Cardinality(Given(j)) \in Nat /\ Cardinality(Given(j)') \in Nat
      /\ Cardinality(Given(j)') + (IF w \in Given(j) THEN 1 ELSE 0)
           = Cardinality(Given(j)) + (IF w \in Given(j)' THEN 1 ELSE 0)
  BY <1>2, <1>3, CountChange
<1>5. /\ Cardinality(Running(j)) \in Nat /\ Cardinality(Running(j)') \in Nat
      /\ Cardinality(Running(j)') + (IF w \in Running(j) THEN 1 ELSE 0)
           = Cardinality(Running(j)) + (IF w \in Running(j)' THEN 1 ELSE 0)
  BY <1>2, <1>3, CountChange
<1>6. /\ Cardinality(Built(j)) \in Nat /\ Cardinality(Built(j)') \in Nat
      /\ Cardinality(Built(j)') + (IF w \in Built(j) THEN 1 ELSE 0)
           = Cardinality(Built(j)) + (IF w \in Built(j)' THEN 1 ELSE 0)
  BY <1>2, <1>3, CountChange
<1>7. /\ Cardinality(Processed(j)) \in Nat /\ Cardinality(Processed(j)') \in Nat
      /\ Cardinality(Processed(j)') + (IF w \in Processed(j) THEN 1 ELSE 0)
           = Cardinality(Processed(j)) + (IF w \in Processed(j)' THEN 1 ELSE 0)
  BY <1>2, <1>3, CountChange
<1> QED
  BY <1>4, <1>5, <1>6, <1>7 DEF Out, Part

(* A handler takes one execution from the queue, one from a worker or from *)
(* its cache, and lets go of it when it receives a build for it.           *)
LEMMA HandlerPart ==
  ASSUME IInv, OneAtATime, NEW w \in Worker, NEW j \in Job, HandlerStep(w)
  PROVE  /\ Part(w, j)' <= Part(w, j) + 1
         /\ ~(PickJob(w) /\ Head(jobsQue).job = j) => Part(w, j)' <= Part(w, j)
         /\ ReceiveData(w) /\ Head(todo[w]).job = j => Part(w, j)' + 1 <= Part(w, j)
<1>1. /\ HandlerTypeOK /\ WorkerTypeOK
      /\ OneResult(w) /\ OneJob(w) /\ WorkerWaits(w)
  BY TypeGroups DEF IInv, OneAtATime
<1> USE DEF Given, Running, Built, Processed
<1>2. /\ hpc'[w] \notin {"complete", "receive"} => w \notin Processed(j)'
      /\ PickJob(w) => hpc[w] = "pick"
      /\ ReceiveData(w) => hpc[w] = "receive"
  BY DEF PickJob, ReceiveData
<1>3. CASE CompleteJob(w) /\ UNCHANGED workerVars
  <2>1. /\ hpc[w] = "complete"
        /\ UNCHANGED <<todo, resp, toRun, picked, wpc, spec, finished>>
    BY <1>1, <1>3 DEF CompleteJob, workerVars
  <2>2. /\ Given(j)' = Given(j) /\ Running(j)' = Running(j) /\ Built(j)' = Built(j)
        /\ w \in Processed(j)' => w \in Processed(j)
    BY <2>1
  <2> QED
    BY <1>2, <2>1, <2>2 DEF Part
<1>4. CASE ReceiveData(w) /\ UNCHANGED workerVars
  <2>1. /\ hpc[w] = "receive" /\ hpc'[w] = "lock"
        /\ UNCHANGED <<resp, toRun, picked, wpc, spec, finished>>
    BY <1>1, <1>4 DEF ReceiveData, HandlerTypeOK, workerVars
  <2>2. /\ Given(j)' = Given(j) /\ Running(j)' = Running(j) /\ Built(j)' = Built(j)
        /\ w \notin Processed(j)'
        /\ Head(todo[w]).job = j => w \in Processed(j)
    BY <2>1
  <2> QED
    BY <1>2, <2>1, <2>2 DEF Part
<1>5. CASE /\ LockData(w) \/ ReportJob(w) \/ ReportBuild(w) \/ PickNil(w, wpc[w] = "dead")
           /\ UNCHANGED workerVars
  <2>1. /\ hpc[w] \notin {"complete", "receive"} /\ hpc'[w] \notin {"complete", "receive"}
        /\ hpc[w] # "pick" \/ ~PickJob(w)
        /\ UNCHANGED <<resp, toRun, picked, wpc, spec, finished>>
    <3>1. CASE LockData(w) \/ PickNil(w, wpc[w] = "dead")
      BY <1>1, <1>5, <3>1 DEF LockData, PickNil, PickJob, HandlerTypeOK, workerVars
    <3>2. CASE ReportJob(w) \/ ReportBuild(w)
      <4>1. todo[w] \in Seq(Result) /\ todo[w] # <<>> /\ Len(todo[w]) <= 1
        BY <1>1, <3>2 DEF ReportJob, ReportBuild, IInv, HandlerReady, HandlerTypeOK, OneResult
      <4>2. Tail(todo[w]) = <<>>
        BY <4>1, ShortFacts
      <4> QED
        BY <1>1, <1>5, <3>2, <4>2 DEF ReportJob, ReportBuild, EndResult, Onward, HandlerTypeOK,
                                      workerVars
    <3> QED
      BY <1>5, <3>1, <3>2
  <2>2. /\ Given(j)' = Given(j) /\ Running(j)' = Running(j) /\ Built(j)' = Built(j)
        /\ w \notin Processed(j)'
    BY <2>1
  <2> QED
    BY <1>2, <2>1, <2>2 DEF Part
<1>6. CASE PickJob(w) /\ UNCHANGED workerVars
  <2>1. /\ hpc[w] = "pick" /\ hpc'[w] = "check" /\ picked'[w] = Head(jobsQue)
        /\ UNCHANGED <<resp, toRun, wpc, spec, finished>>
    BY <1>1, <1>6 DEF PickJob, HandlerTypeOK, workerVars
  <2>2. /\ Running(j)' = Running(j) /\ Built(j)' = Built(j) /\ w \notin Processed(j)'
        /\ Head(jobsQue).job # j => (w \in Given(j)' => w \in Given(j))
    BY <2>1
  <2> QED
    BY <1>2, <1>6, <2>1, <2>2 DEF Part
<1>7. CASE CheckCache(w) /\ UNCHANGED workerVars
  <2>1. /\ hpc[w] = "check" /\ picked'[w] = Nil /\ picked[w] # Nil
        /\ resp[w] = {} /\ toRun[w] = {} /\ toRun'[w] = {}
        /\ UNCHANGED <<wpc, spec, finished>>
    BY <1>1, <1>7 DEF CheckCache, OneResult, WorkerWaits, IInv, HandlerReady, HandlerTypeOK,
                      workerVars
  <2>2. /\ Running(j)' = Running(j) /\ Built(j)' = Built(j) /\ w \notin Processed(j)
        /\ w \in Given(j) <=> picked[w].job = j
    BY <2>1
  <2>3. CASE Located(picked[w].job)
    <3>1. /\ todo'[w] = <<[job |-> picked[w].job, at |-> LocateArtifact(picked[w].job)]>>
          /\ UNCHANGED resp
      BY <1>1, <1>7, <2>3 DEF CheckCache, HandlerTypeOK
    <3>2. Head(todo'[w]).job = picked[w].job
      BY <3>1
    <3>3. w \notin Given(j)' /\ (w \in Processed(j)' => picked[w].job = j)
      BY <2>1, <3>1, <3>2
    <3> QED
      BY <1>2, <2>1, <2>2, <3>3 DEF Part
  <2>4. CASE ~Located(picked[w].job)
    <3>1. resp'[w] = {picked[w]} /\ hpc'[w] \in {"pick", "respond"}
      BY <1>1, <1>7, <2>1, <2>4 DEF CheckCache, Onward, HandlerTypeOK
    <3>2. w \notin Processed(j)' /\ (w \in Given(j)' => picked[w].job = j)
      BY <2>1, <3>1
    <3> QED
      BY <1>2, <2>1, <2>2, <3>2 DEF Part
  <2> QED
    BY <2>3, <2>4
<1>8. CASE HeartbeatResponse(w)
  <2>1. /\ hpc[w] = "respond" /\ hpc'[w] = "idle" /\ resp'[w] = {} /\ toRun[w] = {}
        /\ UNCHANGED <<picked, spec>>
        /\ \/ wpc[w] = "dead" /\ UNCHANGED <<wpc, toRun, finished>>
           \/ /\ wpc[w] = "heartbeat" /\ wpc'[w] = "next"
              /\ toRun'[w] = resp[w] /\ finished'[w] = <<>>
    BY <1>1, <1>8 DEF HeartbeatResponse, Respond, ReceiveResponse, WorkerWaits, HandlerTypeOK,
                      WorkerTypeOK, workerVars
  <2>2. /\ w \in Given(j)' => w \in Given(j)
        /\ w \notin Running(j)' /\ w \notin Built(j)' /\ w \notin Processed(j)'
    BY <2>1, EmptyFacts
  <2> QED
    BY <1>2, <2>1, <2>2 DEF Part
<1> QED
  BY <1>3, <1>4, <1>5, <1>6, <1>7, <1>8 DEF HandlerStep

(* A worker hands its execution of a job on to the next heartbeat.         *)
LEMMA WorkerPart ==
  ASSUME IInv, OneAtATime, NEW w \in Worker, NEW j \in Job, WorkerStep(w) \/ WorkerFault(w)
  PROVE  Part(w, j)' <= Part(w, j)
<1>1. /\ HandlerTypeOK /\ WorkerTypeOK
      /\ OneResult(w) /\ OneJob(w) /\ WorkerWaits(w)
  BY TypeGroups DEF IInv, OneAtATime
<1> USE DEF Given, Running, Built, Processed
<1>2. CASE HeartbeatRequest(w)
  <2>1. /\ hpc[w] = "idle" /\ wpc[w] = "next" /\ wpc'[w] = "heartbeat" /\ resp'[w] = {}
        /\ todo'[w] = [i \in DOMAIN finished[w] |-> [job |-> finished[w][i], at |-> w]]
        /\ hpc'[w] \in {"complete", "pick", "respond"}
        /\ finished[w] = <<>> => hpc'[w] # "complete"
        /\ UNCHANGED <<toRun, spec, finished, picked>>
    BY <1>1, <1>2 DEF HeartbeatRequest, Heartbeat, SendHeartbeat, Onward, HandlerTypeOK, WorkerTypeOK
  <2>2. hpc'[w] = "complete" => Head(todo'[w]).job \in Range(finished[w])
    <3> SUFFICES ASSUME finished[w] # <<>> PROVE Head(todo'[w]).job \in Range(finished[w])
      BY <2>1
    <3>1. finished[w] \in Seq(Job) /\ 1 \in DOMAIN finished[w]
      BY <1>1 DEF WorkerTypeOK
    <3>2. Head(todo'[w]) = todo'[w][1]
      BY <2>1, <3>1
    <3> QED
      BY <2>1, <3>1, <3>2 DEF Range
  <2>3. /\ w \in Given(j)' => w \in Given(j)
        /\ w \notin Running(j)' /\ w \notin Built(j)'
        /\ w \in Processed(j)' => w \in Built(j)
    BY <2>1, <2>2
  <2> QED
    BY <2>3 DEF Part
<1>3. CASE TakeJob(w) /\ UNCHANGED <<coordVars, schedVars>>
  <2>1. /\ hpc[w] = "idle" /\ hpc'[w] = "idle" /\ wpc[w] = "next" /\ wpc'[w] = "collect"
        /\ spec'[w] \in toRun[w] /\ toRun'[w] = {} /\ finished'[w] = <<>>
        /\ UNCHANGED <<resp, picked>> /\ resp[w] = {} /\ picked[w] = Nil
    BY <1>1, <1>3 DEF TakeJob, OneJob, OneResult, WorkerWaits, WorkerTypeOK, coordVars, handlerVars
  <2>2. /\ w \in Running(j)' => w \in Given(j)
        /\ w \notin Given(j)' /\ w \notin Built(j)' /\ w \notin Processed(j)'
    BY <2>1, EmptyFacts
  <2> QED
    BY <2>2 DEF Part
<1>4. CASE RunCmds(w) /\ UNCHANGED <<coordVars, schedVars>>
  <2>1. /\ wpc[w] = "run" /\ wpc'[w] = "commit" /\ finished'[w] = <<spec[w].job>>
        /\ UNCHANGED <<hpc, todo, resp, picked, toRun>>
    BY <1>1, <1>4 DEF RunCmds, OneJob, WorkerTypeOK, coordVars, handlerVars
  <2>2. Range(finished'[w]) = {spec[w].job}
    BY <2>1 DEF Range
  <2>3. /\ w \in Built(j)' => w \in Running(j)
        /\ w \notin Running(j)'
        /\ Given(j)' = Given(j) /\ Processed(j)' = Processed(j)
    BY <2>1, <2>2
  <2> QED
    BY <2>3 DEF Part
<1>5. CASE /\ \/ CollectArtifact(w) \/ DownloadFile(w, files) \/ CreateArtifact(w)
              \/ CommitArtifact(w) \/ RunReturns(w)
           /\ UNCHANGED <<coordVars, schedVars>>
  <2>1. /\ \/ wpc'[w] = wpc[w] /\ UNCHANGED spec
           \/ wpc'[w] = "dead" /\ UNCHANGED spec
           \/ wpc[w] = "collect" /\ wpc'[w] = "run" /\ UNCHANGED spec
           \/ wpc[w] = "commit" /\ wpc'[w] = "next"
        /\ UNCHANGED <<hpc, todo, resp, picked, toRun, finished>>
    BY <1>1, <1>5 DEF CollectArtifact, DownloadFile, CreateArtifact, CommitArtifact, RunReturns,
                      WorkerTypeOK, coordVars, handlerVars
  <2>2. /\ w \in Running(j)' => w \in Running(j)
        /\ w \in Built(j)' => w \in Built(j)
        /\ Given(j)' = Given(j) /\ Processed(j)' = Processed(j)
    BY <2>1
  <2> QED
    BY <2>2 DEF Part
<1> QED
  BY <1>2, <1>3, <1>4, <1>5 DEF WorkerStep, WorkerFault, CmdFails, Crash

-----------------------------------------------------------------------------
(* What a build is owed.                                                   *)

(* The jobs left to schedule, after the next one too.                      *)
LEMMA LaterOwed ==
  ASSUME NEW b \in Build, NEW j,
         spc[b] \in {"deps", "send"}, spc'[b] \in {"deps", "send", "signalled"},
         jobs'[b] = jobs[b], pos[b] \in Nat, Len(jobs[b]) \in Nat,
         pos'[b] \in {pos[b], pos[b] + 1}, b \in Owed(j)'
  PROVE  b \in Owed(j)
<1>1. PICK i \in pos'[b]..Len(jobs[b]) : jobs[b][i] = j
  BY DEF Owed
<1>2. i \in pos[b]..Len(jobs[b])
  OBVIOUS
<1> QED
  BY <1>1, <1>2 DEF Owed

(* A build owes for what it has queued for, until it has scheduled it.     *)
LEMMA BuildOwed ==
  ASSUME IInv, Prepared, NEW b \in Build, NEW j \in Job,
         BuildStep(b)
  PROVE  /\ Owed(j)' \subseteq Owed(j) \cup {b}
         /\ ~(PushData(b) /\ graph[b][pos[b]] = j) => Owed(j)' \subseteq Owed(j)
         /\ SendJob(b) /\ Current(b) = j => b \in Owed(j) /\ Owed(j)' \subseteq Owed(j) \ {b}
<1>1. /\ TypeOK /\ BuildTypeOK /\ SessionTypeOK /\ PreparedAt(b)
      /\ graph[b] \in Seq(Job) /\ jobs[b] \in Seq(Job) /\ pos[b] \in Nat \ {0}
  BY TypeGroups DEF IInv, Prepared, BuildTypeOK, SessionTypeOK
<1>2. Owed(j)' \subseteq Owed(j) \cup {b}
  <2> SUFFICES ASSUME NEW c \in Build \ {b}, c \in Owed(j)' PROVE c \in Owed(j)
    BY DEF Owed
  <2>1. /\ graph'[c] = graph[c] /\ jobs'[c] = jobs[c] /\ spc'[c] = spc[c] /\ pos'[c] = pos[c]
    BY <1>1, BuildFrame
  <2> QED
    BY <2>1 DEF Owed
<1>3. CASE StartBuild(b)
  <2>1. spc'[b] = "push" /\ pos'[b] = 1
    BY <1>1, <1>3 DEF StartBuild, SessionTypeOK, PreparedAt
  <2>2. b \notin Owed(j)'
    BY <2>1 DEF Owed
  <2>3. ~PushData(b) /\ ~SendJob(b)
    BY <1>3 DEF StartBuild, PushData, SendJob
  <2> QED
    BY <1>2, <2>2, <2>3
<1>4. CASE Aside(b)
  <2>1. /\ UNCHANGED <<graph, jobs, pos, arts>>
        /\ spc'[b] = spc[b] \/ (spc[b] = "open" /\ spc'[b] = "lock")
    BY <1>1, <1>4 DEF Aside, SessionTypeOK
  <2>2. b \in Owed(j)' => b \in Owed(j)
    BY <2>1 DEF Owed
  <2>3. ~PushData(b) /\ ~SendJob(b)
    <3>1. pos'[b] # pos[b] + 1
      BY <1>1, <2>1
    <3> QED
      BY <1>1, <3>1 DEF PushData, SendJob, SessionTypeOK
  <2> QED
    BY <1>2, <2>2, <2>3
<1>5. CASE PushData(b)
  <2>1. /\ spc[b] = "push" /\ pos'[b] = pos[b] + 1 /\ UNCHANGED <<graph, jobs, spc>>
    BY <1>1, <1>5 DEF PushData, SessionTypeOK
  <2>2. b \in Owed(j)' => b \in Owed(j) \/ graph[b][pos[b]] = j
    <3> SUFFICES ASSUME NEW i \in 1..pos[b], graph[b][i] = j, i # pos[b]
                 PROVE  b \in Owed(j)
      BY <1>1, <2>1 DEF Owed
    <3>1. i \in 1..(pos[b] - 1)
      BY <1>1
    <3> QED
      BY <2>1, <3>1 DEF Owed
  <2>3. ~SendJob(b)
    BY <2>1 DEF SendJob
  <2> QED
    BY <1>2, <1>5, <2>2, <2>3
<1>6. CASE Started(b)
  <2>1. /\ spc[b] = "push" /\ spc'[b] = "open" /\ pos[b] > Len(graph[b]) /\ UNCHANGED graph
    BY <1>1, <1>6 DEF Started, SessionTypeOK
  <2>2. j \in Range(graph[b]) => \E i \in 1..(pos[b] - 1) : graph[b][i] = j
    BY <1>1, <2>1 DEF Range
  <2>3. b \in Owed(j)' => b \in Owed(j)
    BY <2>1, <2>2 DEF Owed
  <2>4. ~PushData(b) /\ ~SendJob(b)
    <3>1. ~(pos[b] <= Len(graph[b]))
      BY <1>1, <2>1
    <3> QED
      BY <2>1, <3>1 DEF PushData, SendJob
  <2> QED
    BY <1>2, <2>3, <2>4
<1>7. CASE SignalLock(b)
  <2>1. /\ spc[b] = "lock" /\ spc'[b] = "deps" /\ pos'[b] = 1 /\ UNCHANGED jobs
    BY <1>1, <1>7 DEF SignalLock, SessionTypeOK
  <2>2. Range(jobs[b]) = Range(graph[b])
    BY <1>1, <2>1, SortedFacts DEF PreparedAt
  <2>3. ASSUME b \in Owed(j)' PROVE b \in Owed(j)
    <3>1. PICK i \in 1..Len(jobs[b]) : jobs[b][i] = j
      BY <2>1, <2>3 DEF Owed
    <3>2. j \in Range(graph[b])
      BY <1>1, <2>2, <3>1, RangeFacts
    <3> QED
      BY <2>1, <3>2 DEF Owed
  <2>4. ~PushData(b) /\ ~SendJob(b)
    BY <2>1 DEF PushData, SendJob
  <2> QED
    BY <1>2, <2>3, <2>4
<1>8. CASE LocateDep(b) \/ ScheduleJob(b) \/ SignalDone(b)
  <2>1. /\ spc[b] = "deps" /\ spc'[b] \in {"deps", "send", "signalled"} /\ UNCHANGED <<graph, jobs>>
        /\ pos'[b] \in {pos[b], pos[b] + 1}
    BY <1>1, <1>8 DEF LocateDep, ScheduleJob, SignalDone, SessionTypeOK, buildVars
  <2>2. b \in Owed(j)' => b \in Owed(j)
    BY <1>1, <2>1, LaterOwed
  <2> QED
    BY <1>2, <2>1, <2>2 DEF PushData, SendJob
<1>9. CASE SendJob(b)
  <2>1. /\ spc[b] = "send" /\ spc'[b] = "deps" /\ UNCHANGED <<graph, jobs>>
        /\ pos'[b] = pos[b] + 1 /\ pos[b] \in 1..Len(jobs[b])
    BY <1>1, <1>9 DEF SendJob, SessionTypeOK, buildVars, IInv, SessionReady, ReadyAt
  <2>2. b \in Owed(j)' => b \in Owed(j)
    BY <1>1, <2>1, LaterOwed
  <2>3. IsInjective(jobs[b])
    BY <1>1, <2>1, SortedFacts DEF PreparedAt
  <2>4. ASSUME Current(b) = j PROVE b \in Owed(j) /\ b \notin Owed(j)'
    <3>1. b \in Owed(j)
      BY <1>1, <2>1, <2>4 DEF Owed, Current
    <3>2. ASSUME NEW i \in (pos[b] + 1)..Len(jobs[b]) PROVE jobs[b][i] # j
      <4>1. i \in DOMAIN jobs[b] /\ pos[b] \in DOMAIN jobs[b] /\ i # pos[b]
        BY <1>1, <2>1
      <4> QED
        BY <2>3, <2>4, <4>1 DEF IsInjective, Current
    <3> QED
      BY <2>1, <3>1, <3>2 DEF Owed
  <2> QED
    BY <1>2, <2>1, <2>2, <2>4 DEF PushData
<1> QED
  BY <1>3, <1>4, <1>5, <1>6, <1>7, <1>8, <1>9, BuildSteps DEF SessionStep

-----------------------------------------------------------------------------
(* CreditInv is inductive beside IInv and JobInv.                          *)

(* The terms of the sum.                                                   *)
LEMMA Terms ==
  ASSUME TypeOK, StartedFinite, NEW j \in Job
  PROVE  /\ IsFiniteSet(Owed(j)) /\ Cardinality(Owed(j)) \in Nat
         /\ Cardinality(Queued(j)) \in Nat
         /\ Cardinality(Given(j)) \in Nat /\ Cardinality(Running(j)) \in Nat
         /\ Cardinality(Built(j)) \in Nat /\ Cardinality(Processed(j)) \in Nat
         /\ Len(buildByJob[j]) \in Nat /\ buildByJob[j] \in Seq(Build)
         /\ jobsQue \in Seq(JobSpec)
<1>1. SchedulerTypeOK /\ BuildTypeOK
  BY TypeGroups
<1>2. Owed(j) \subseteq {b \in Build : spc[b] # "new"}
  BY DEF Owed
<1>3. /\ Given(j) \subseteq Worker /\ Running(j) \subseteq Worker
      /\ Built(j) \subseteq Worker /\ Processed(j) \subseteq Worker
      /\ IsFiniteSet(Worker)
  BY GraphAssumption DEF Given, Running, Built, Processed
<1>4. jobsQue \in Seq(JobSpec) /\ buildByJob[j] \in Seq(Build)
  BY <1>1 DEF SchedulerTypeOK, BuildTypeOK
<1>5. IsFiniteSet(Owed(j)) /\ Cardinality(Owed(j)) \in Nat
  BY <1>2, CountPart DEF StartedFinite
<1>6. Cardinality(Queued(j)) \in Nat
  BY <1>4, PlacesFinite DEF Queued, Places
<1> QED
  BY <1>3, <1>4, <1>5, <1>6, CountPart

(* A build is taken for one of the executions only.                        *)
LEMMA SumKeeps ==
  ASSUME NEW len \in Nat, NEW owed \in Nat, NEW que \in Nat, NEW out \in Nat,
         len >= owed + que + out,
         NEW len2 \in Int, NEW que2 \in Nat, NEW out2 \in Nat,
         \/ len2 = len /\ que2 + out2 <= que + out
         \/ len2 = len - 1 /\ que2 + out2 + 1 <= que + out
  PROVE  len2 >= owed + que2 + out2
OBVIOUS

(* A heartbeat handler that receives a build for a job has an execution of *)
(* the job in its hands, and lets go of it.                                *)
LEMMA HandlerCredit ==
  ASSUME IInv, OneAtATime, StartedFinite, NEW w \in Worker, NEW j \in Job, CreditAt(j),
         HandlerStep(w)
  PROVE  CreditAt(j)'
<1>1. /\ TypeOK /\ BuildTypeOK
      /\ Cardinality(Owed(j)) \in Nat /\ Cardinality(Queued(j)) \in Nat
      /\ Len(buildByJob[j]) \in Nat /\ buildByJob[j] \in Seq(Build)
      /\ jobsQue \in Seq(JobSpec)
  BY TypeGroups, Terms DEF IInv
<1>2. Owed(j)' = Owed(j)
  BY <1>1, HandlerFrame DEF Owed, sessionVars
<1>3. /\ Out(j) \in Nat /\ Out(j)' \in Nat
      /\ Part(w, j) \in Nat /\ Part(w, j)' \in Nat
      /\ Out(j)' + Part(w, j) = Out(j) + Part(w, j)'
  <2>1. \A v \in Worker \ {w} : Own(v)' = Own(v)
    BY <1>1, HandlerFrame
  <2> QED
    BY <2>1, OutChange
<1>4. /\ Part(w, j)' <= Part(w, j) + 1
      /\ ~(PickJob(w) /\ Head(jobsQue).job = j) => Part(w, j)' <= Part(w, j)
      /\ ReceiveData(w) /\ Head(todo[w]).job = j => Part(w, j)' + 1 <= Part(w, j)
  BY HandlerPart
<1> DEFINE len2 == Len(buildByJob[j])'
           que2 == Cardinality(Queued(j))'
           out2 == Out(j)'
<1>5. ASSUME que2 \in Nat,
             \/ len2 = Len(buildByJob[j]) /\ que2 + out2 <= Cardinality(Queued(j)) + Out(j)
             \/ /\ len2 = Len(buildByJob[j]) - 1
                /\ que2 + out2 + 1 <= Cardinality(Queued(j)) + Out(j)
      PROVE  CreditAt(j)'
  <2>1. Len(buildByJob[j]) >= Cardinality(Owed(j)) + Cardinality(Queued(j)) + Out(j)
    BY DEF CreditAt
  <2>2. len2 >= Cardinality(Owed(j)) + que2 + out2
    <3>1. len2 \in Int /\ out2 \in Nat
      BY <1>1, <1>3, <1>5
    <3> HIDE DEF len2, que2, out2
    <3> QED
      BY <1>1, <1>3, <1>5, <2>1, <3>1, SumKeeps
  <2> QED
    BY <1>2, <2>2 DEF CreditAt
<1>6. CASE ReceiveData(w)
  <2>1. hpc[w] = "receive" /\ UNCHANGED jobsQue
    BY <1>6 DEF ReceiveData, schedVars
  <2>2. ~PickJob(w) /\ Queued(j)' = Queued(j)
    BY <2>1 DEF PickJob, Queued
  <2>3. CASE Head(todo[w]).job = j
    <3>1. buildByJob[j] # <<>> /\ buildByJob'[j] = Tail(buildByJob[j])
      BY <1>1, <1>6, <2>3 DEF ReceiveData, BuildTypeOK
    <3>2. Len(buildByJob'[j]) = Len(buildByJob[j]) - 1
      BY <1>1, <3>1
    <3>3. Out(j)' + 1 <= Out(j)
      BY <1>3, <1>4, <1>6, <2>3
    <3>4. que2 = Cardinality(Queued(j)) /\ que2 + out2 + 1 <= Cardinality(Queued(j)) + Out(j)
      BY <1>1, <1>3, <2>2, <3>3
    <3> QED
      BY <1>1, <1>5, <3>2, <3>4
  <2>4. CASE Head(todo[w]).job # j
    <3>1. buildByJob'[j] = buildByJob[j]
      BY <1>1, <1>6, <2>4 DEF ReceiveData, BuildTypeOK
    <3>2. Out(j)' <= Out(j)
      BY <1>3, <1>4, <2>2
    <3>3. que2 = Cardinality(Queued(j)) /\ que2 + out2 <= Cardinality(Queued(j)) + Out(j)
      BY <1>1, <1>3, <2>2, <3>2
    <3> QED
      BY <1>1, <1>5, <3>1, <3>3
  <2> QED
    BY <2>3, <2>4
<1>7. CASE PickJob(w)
  <2>1. jobsQue # <<>> /\ jobsQue' = Tail(jobsQue) /\ UNCHANGED buildByJob
    BY <1>7 DEF PickJob, PickJobTake, buildVars
  <2>2. /\ Cardinality(Queued(j)') \in Nat
        /\ Cardinality(Queued(j)') <= Cardinality(Queued(j))
        /\ Head(jobsQue).job = j =>
             Cardinality(Queued(j)') + 1 <= Cardinality(Queued(j))
    <3>1. Queued(j) = Places(jobsQue, j) /\ Queued(j)' = Places(Tail(jobsQue), j)
      BY <2>1 DEF Queued, Places
    <3> QED
      BY <1>1, <2>1, <3>1, TakePlaces
  <2>3. Out(j)' <= Out(j) + 1 /\ (Head(jobsQue).job # j => Out(j)' <= Out(j))
    BY <1>3, <1>4
  <2>4. Cardinality(Queued(j)') + Out(j)' <= Cardinality(Queued(j)) + Out(j)
    BY <1>1, <1>3, <2>2, <2>3
  <2> QED
    BY <1>5, <2>1, <2>2, <2>4
<1>8. CASE ~ReceiveData(w) /\ ~PickJob(w)
  <2>1. UNCHANGED <<jobsQue, buildByJob>>
    BY <1>8 DEF HandlerStep, HeartbeatResponse, CompleteJob, LockData, ReportJob, ReportBuild,
                PickNil, PickJobNil, CheckCache, Respond, OnJobComplete, buildVars, schedVars
  <2>2. Out(j)' <= Out(j)
    BY <1>3, <1>4, <1>8
  <2>3. Queued(j)' = Queued(j) /\ buildByJob'[j] = buildByJob[j]
    BY <2>1 DEF Queued
  <2>4. que2 = Cardinality(Queued(j)) /\ que2 + out2 <= Cardinality(Queued(j)) + Out(j)
    BY <1>1, <1>3, <2>2, <2>3
  <2> QED
    BY <1>1, <1>5, <2>3, <2>4
<1> QED
  BY <1>6, <1>7, <1>8

(* A worker only hands on what it was given.                               *)
LEMMA WorkerCredit ==
  ASSUME IInv, OneAtATime, StartedFinite, NEW w \in Worker, NEW j \in Job, CreditAt(j),
         WorkerStep(w) \/ WorkerFault(w)
  PROVE  CreditAt(j)'
<1>1. /\ TypeOK
      /\ Cardinality(Owed(j)) \in Nat /\ Cardinality(Queued(j)) \in Nat
      /\ Len(buildByJob[j]) \in Nat
  BY Terms DEF IInv
<1>2. Owed(j)' = Owed(j) /\ UNCHANGED <<jobsQue, buildByJob>>
  BY <1>1, WorkerStepFrame DEF Owed, sessionVars, buildVars, schedVars
<1>3. Out(j) \in Nat /\ Out(j)' \in Nat /\ Out(j)' <= Out(j)
  <2>1. \A v \in Worker \ {w} : Own(v)' = Own(v)
    BY <1>1, WorkerStepFrame
  <2>2. Part(w, j)' <= Part(w, j)
    BY WorkerPart
  <2> QED
    BY <2>1, <2>2, OutChange
<1> QED
  BY <1>1, <1>2, <1>3 DEF CreditAt, Queued

(* A build that queues for a job is owed an execution of it, and the job   *)
(* it schedules is the one that it was owed.                               *)
LEMMA BuildCredit ==
  ASSUME IInv, Prepared, StartedFinite, NEW b \in Build, NEW j \in Job, CreditAt(j),
         BuildStep(b)
  PROVE  CreditAt(j)'
<1>1. /\ TypeOK /\ BuildTypeOK
      /\ IsFiniteSet(Owed(j))
      /\ Cardinality(Owed(j)) \in Nat /\ Cardinality(Queued(j)) \in Nat
      /\ Len(buildByJob[j]) \in Nat /\ buildByJob[j] \in Seq(Build)
      /\ jobsQue \in Seq(JobSpec)
  BY TypeGroups, Terms DEF IInv
<1>2. /\ Owed(j)' \subseteq Owed(j) \cup {b}
      /\ ~(PushData(b) /\ graph[b][pos[b]] = j) => Owed(j)' \subseteq Owed(j)
      /\ SendJob(b) /\ Current(b) = j => b \in Owed(j) /\ Owed(j)' \subseteq Owed(j) \ {b}
  BY BuildOwed
<1>3. Out(j) \in Nat /\ Out(j)' = Out(j)
  <2>1. UNCHANGED <<handlerVars, workerVars>>
    BY <1>1, BuildFrame
  <2>2. /\ Given(j)' = Given(j) /\ Running(j)' = Running(j)
        /\ Built(j)' = Built(j) /\ Processed(j)' = Processed(j)
    BY <2>1 DEF Given, Running, Built, Processed, handlerVars, workerVars
  <2> QED
    BY <1>1, <2>2, Terms DEF Out
<1>4. /\ Cardinality(Owed(j)') \in Nat
      /\ Cardinality(Owed(j)') <= Cardinality(Owed(j)) + 1
  BY <1>1, <1>2, CountMore
<1>5. Owed(j)' \subseteq Owed(j) => Cardinality(Owed(j)') <= Cardinality(Owed(j))
  BY <1>1, CountPart
<1>6. CASE PushData(b)
  <2>1. spc[b] = "push" /\ UNCHANGED jobsQue
    BY <1>6 DEF PushData, schedVars
  <2>2. CASE graph[b][pos[b]] = j
    <3>1. buildByJob'[j] = Append(buildByJob[j], b)
      BY <1>1, <1>6, <2>2 DEF PushData, BuildTypeOK
    <3>2. Len(buildByJob'[j]) = Len(buildByJob[j]) + 1
      BY <1>1, <3>1
    <3> QED
      BY <1>1, <1>3, <1>4, <2>1, <3>2 DEF CreditAt, Queued
  <2>3. CASE graph[b][pos[b]] # j
    <3>1. buildByJob'[j] = buildByJob[j]
      BY <1>1, <1>6, <2>3 DEF PushData, BuildTypeOK
    <3> QED
      BY <1>1, <1>2, <1>3, <1>4, <1>5, <2>1, <2>3, <3>1 DEF CreditAt, Queued
  <2> QED
    BY <2>2, <2>3
<1>7. CASE SendJob(b)
  <2>1. /\ spc[b] = "send" /\ UNCHANGED buildByJob
        /\ jobsQue' = Append(jobsQue, [job |-> Current(b), arts |-> arts[b]])
    BY <1>7 DEF SendJob, ScheduleJobSend, buildVars
  <2>2. [job |-> Current(b), arts |-> arts[b]] \in JobSpec
    <3>1. pos[b] \in 1..Len(jobs[b]) /\ jobs[b] \in Seq(Job) /\ arts[b] \in Seq(Worker)
      BY <1>1, <2>1, TypeGroups DEF IInv, SessionReady, ReadyAt, BuildTypeOK, SessionTypeOK
    <3> QED
      BY <3>1 DEF Current, JobSpec
  <2>3. /\ Cardinality(Queued(j)') \in Nat
        /\ Cardinality(Queued(j)') <= Cardinality(Queued(j)) + 1
        /\ Current(b) # j => Cardinality(Queued(j)') <= Cardinality(Queued(j))
    <3>1. /\ Queued(j) = Places(jobsQue, j)
          /\ Queued(j)' = Places(Append(jobsQue, [job |-> Current(b), arts |-> arts[b]]), j)
      BY <2>1 DEF Queued, Places
    <3> QED
      BY <1>1, <2>2, <3>1, PutPlaces
  <2>4. ~PushData(b)
    BY <2>1 DEF PushData
  <2>5. CASE Current(b) = j
    <3>1. b \in Owed(j) /\ Owed(j)' \subseteq Owed(j) \ {b}
      BY <1>2, <1>7, <2>5
    <3>2. Cardinality(Owed(j)') + 1 <= Cardinality(Owed(j))
      BY <1>1, <3>1, CountLess
    <3> QED
      BY <1>1, <1>3, <1>4, <2>1, <2>3, <3>2 DEF CreditAt
  <2>6. CASE Current(b) # j
    BY <1>1, <1>2, <1>3, <1>4, <1>5, <2>1, <2>3, <2>4, <2>6 DEF CreditAt
  <2> QED
    BY <2>5, <2>6
<1>8. CASE ~PushData(b) /\ ~SendJob(b)
  <2>1. UNCHANGED <<jobsQue, buildByJob>>
    BY <1>8, BuildSteps DEF StartBuild, Aside, SessionStep, Started, SignalLock, LocateDep,
                            ScheduleJob, ScheduleJobStopped, SignalDone, buildVars, schedVars
  <2> QED
    BY <1>1, <1>2, <1>3, <1>4, <1>5, <1>8, <2>1 DEF CreditAt, Queued
<1> QED
  BY <1>6, <1>7, <1>8

(* The builds that have started are finitely many.                         *)
LEMMA StartedFiniteStep ==
  ASSUME IInv, StartedFinite, [Next]_vars
  PROVE  StartedFinite'
<1>1. TypeOK /\ SessionTypeOK
  BY TypeGroups DEF IInv
<1>2. CASE UNCHANGED spc
  BY <1>2 DEF StartedFinite
<1>3. ASSUME NEW b \in Build, \A c \in Build \ {b} : spc'[c] = spc[c]
      PROVE  StartedFinite'
  <2>1. {c \in Build : spc'[c] # "new"} \subseteq {c \in Build : spc[c] # "new"} \cup {b}
    BY <1>3
  <2> QED
    BY <2>1, CountMore DEF StartedFinite
<1>4. ASSUME NEW w \in Worker, HandlerStep(w) \/ WorkerStep(w) \/ WorkerFault(w)
      PROVE  UNCHANGED spc
  BY <1>1, <1>4, HandlerFrame, WorkerStepFrame DEF sessionVars
<1>5. CASE SchedulerStops \/ UNCHANGED vars
  BY <1>2, <1>5 DEF SchedulerStops, StopScheduler, vars, coordVars, sessionVars
<1>6. ASSUME NEW b \in Build, BuildStep(b)
      PROVE  StartedFinite'
  BY <1>1, <1>3, <1>6, BuildFrame
<1> QED
  BY <1>2, <1>4, <1>5, <1>6 DEF Next, AllReturned, BuildStep

LEMMA CreditStep ==
  ASSUME IInv, JobInv, StartedFinite, \A j \in Job : CreditAt(j), [Next]_vars
  PROVE  \A j \in Job : CreditAt(j)'
<1>1. ASSUME NEW j \in Job PROVE CreditAt(j)'
  <2>1. TypeOK /\ OneAtATime /\ Prepared /\ CreditAt(j)
    BY DEF IInv, JobInv
  <2>2. CASE UNCHANGED <<coordVars, jobsQue, workerVars>>
    BY <2>1, <2>2 DEF CreditAt, Owed, Queued, Out, Given, Running, Built, Processed, coordVars,
                      buildVars, sessionVars, handlerVars, workerVars
  <2>3. CASE SchedulerStops \/ UNCHANGED vars
    BY <2>2, <2>3 DEF SchedulerStops, StopScheduler, Stop, vars, schedVars
  <2>4. ASSUME NEW b \in Build, BuildStep(b)
        PROVE  CreditAt(j)'
    BY <2>1, <2>4, BuildCredit
  <2>5. ASSUME NEW w \in Worker, HandlerStep(w) \/ WorkerStep(w) \/ WorkerFault(w)
        PROVE  CreditAt(j)'
    BY <2>1, <2>5, HandlerCredit, WorkerCredit
  <2> QED
    BY <2>3, <2>4, <2>5 DEF Next, AllReturned, BuildStep
<1> QED
  BY <1>1

LEMMA CreditInit == Init => CreditInv
<1> SUFFICES ASSUME Init PROVE CreditInv
  OBVIOUS
<1> USE DEF Init, NewScheduler, CoordinatorInit, WorkerInit
<1>1. {b \in Build : spc[b] # "new"} = {}
  OBVIOUS
<1>2. StartedFinite
  BY <1>1, FS_EmptySet DEF StartedFinite
<1>3. ASSUME NEW j \in Job PROVE CreditAt(j)
  <2>1. /\ Owed(j) = {} /\ Queued(j) = {}
        /\ Given(j) = {} /\ Running(j) = {} /\ Processed(j) = {}
    BY EmptyFacts DEF Owed, Queued, Given, Running, Processed
  <2>2. Built(j) = {}
    BY EmptyFacts DEF Built
  <2>3. Len(buildByJob[j]) = 0
    BY EmptyFacts
  <2> QED
    BY <2>1, <2>2, <2>3, FS_EmptySet DEF CreditAt, Out
<1> QED
  BY <1>2, <1>3 DEF CreditInv

(* With one free slot (worker.go:76) the receive of processFinishedJob     *)
(* (coordinator.go:55) neither blocks nor finds no channel: for every      *)
(* execution of a job that is queued, running or reported there is a build *)
(* in the job's channel, whoever took which build's place, and however     *)
(* many clients gave up or workers were lost.                              *)
THEOREM ReceiveNeverBlocks ==
  ASSUME FreeSlots = 1
  PROVE  Spec => []CreditForResult
<1>1. Init => CreditInv
  BY CreditInit
<1>2. IInv /\ JobInv /\ CreditInv /\ [Next]_vars => CreditInv'
  <2> SUFFICES ASSUME IInv, JobInv, StartedFinite, \A j \in Job : CreditAt(j), [Next]_vars
               PROVE  CreditInv'
    BY DEF CreditInv
  <2>1. StartedFinite'
    BY StartedFiniteStep
  <2>2. \A j \in Job : CreditAt(j)'
    BY CreditStep
  <2> QED
    BY <2>1, <2>2 DEF CreditInv
<1>3. IInv /\ CreditInv => CreditForResult
  <2> SUFFICES ASSUME IInv, StartedFinite, NEW j \in Job, CreditAt(j)
               PROVE  Len(buildByJob[j]) >=
                        Cardinality(Queued(j)) + Cardinality(Given(j)) + Cardinality(Running(j))
                          + Cardinality(Built(j)) + Cardinality(Processed(j))
    BY DEF CreditForResult, CreditInv
  <2>1. TypeOK
    BY DEF IInv
  <2>2. /\ Cardinality(Owed(j)) \in Nat /\ Cardinality(Queued(j)) \in Nat
        /\ Cardinality(Given(j)) \in Nat /\ Cardinality(Running(j)) \in Nat
        /\ Cardinality(Built(j)) \in Nat /\ Cardinality(Processed(j)) \in Nat
        /\ Len(buildByJob[j]) \in Nat
    BY <2>1, Terms
  <2> QED
    BY <2>2 DEF CreditAt, Out
<1> QED
  BY <1>1, <1>2, <1>3, Invariant, OneJobAtATime, PTL DEF Spec
-----------------------------------------------------------------------------
(* What a status update says.                                              *)

(* A status channel that is told of a job.                                 *)
LEMMA TellsJob ==
  ASSUME BuildTypeOK, NEW b \in Build, NEW j \in Job,
         status' = [status EXCEPT ![b] = Append(@, JobFinished(j))]
  PROVE  \A c \in Build : /\ Finished(c)' <=> Finished(c)
                          /\ Reported(c)' = Reported(c) \cup (IF c = b THEN {j} ELSE {})
<1>1. ASSUME NEW c \in Build \ {b}
      PROVE  (Finished(c)' <=> Finished(c)) /\ Reported(c)' = Reported(c)
  <2>1. status'[c] = status[c]
    BY DEF BuildTypeOK
  <2> QED
    BY <2>1 DEF Finished, Reported
<1>2. Range(status'[b]) = Range(status[b]) \cup {JobFinished(j)}
  <2>1. status[b] \in Seq(Update) /\ JobFinished(j) \in Update
    BY DEF BuildTypeOK, Update, JobFinished
  <2>2. status'[b] = Append(status[b], JobFinished(j))
    BY DEF BuildTypeOK
  <2> QED
    BY <2>1, <2>2, PutFacts
<1>3. BuildFinished # JobFinished(j) /\ \A k \in Job : JobFinished(k) = JobFinished(j) <=> k = j
  BY DEF BuildFinished, JobFinished
<1>4. (Finished(b)' <=> Finished(b)) /\ Reported(b)' = Reported(b) \cup {j}
  BY <1>2, <1>3 DEF Finished, Reported
<1> QED
  BY <1>1, <1>4

(* One that is told of the build.                                          *)
LEMMA TellsBuild ==
  ASSUME BuildTypeOK, NEW b \in Build,
         status' = [status EXCEPT ![b] = Append(@, BuildFinished)]
  PROVE  \A c \in Build : /\ Finished(c)' <=> Finished(c) \/ c = b
                          /\ Reported(c)' = Reported(c)
<1>1. ASSUME NEW c \in Build \ {b}
      PROVE  (Finished(c)' <=> Finished(c)) /\ Reported(c)' = Reported(c)
  <2>1. status'[c] = status[c]
    BY DEF BuildTypeOK
  <2> QED
    BY <2>1 DEF Finished, Reported
<1>2. Range(status'[b]) = Range(status[b]) \cup {BuildFinished}
  <2>1. status[b] \in Seq(Update) /\ BuildFinished \in Update
    BY DEF BuildTypeOK, Update, BuildFinished
  <2>2. status'[b] = Append(status[b], BuildFinished)
    BY DEF BuildTypeOK
  <2> QED
    BY <2>1, <2>2, PutFacts
<1>3. \A k \in Job : JobFinished(k) # BuildFinished
  BY DEF BuildFinished, JobFinished
<1>4. Finished(b)' /\ Reported(b)' = Reported(b)
  BY <1>2, <1>3 DEF Finished, Reported
<1> QED
  BY <1>1, <1>4

-----------------------------------------------------------------------------
(* The steps that matter to a build and the results for it.                *)

(* The result a handler is at.                                             *)
LEMMA ResultFacts ==
  ASSUME IInv, NEW w \in Worker,
         hpc[w] \in {"complete", "receive", "lock", "report", "finish"}
  PROVE  /\ todo[w] \in Seq(Result) /\ todo[w] # <<>>
         /\ Head(todo[w]) \in Result /\ Head(todo[w]).job \in Job /\ Head(todo[w]).at \in Worker
         /\ hpc[w] \in {"lock", "report", "finish"} => data[w] \in Build
<1>1. todo[w] \in Seq(Result) /\ todo[w] # <<>>
  BY TypeGroups DEF IInv, HandlerReady, HandlerTypeOK
<1>2. Head(todo[w]) \in Result
  BY <1>1, TakeFacts
<1> QED
  BY <1>1, <1>2 DEF IInv, HandlerReady, Result

(* A thread that is not about to take, report or finish a result leaves    *)
(* all of it to the others.                                                *)
LEMMA HandlerAside ==
  ASSUME IInv, NEW w \in Worker, HandlerStep(w),
         ~ReceiveData(w), ~LockData(w), ~ReportJob(w), ~ReportBuild(w)
  PROVE  /\ UNCHANGED <<mu, jobsDoneCnt, status, buildByJob, data>>
         /\ hpc[w] \notin {"lock", "report", "finish"}
         /\ hpc'[w] \notin {"lock", "report", "finish"}
<1>1. HandlerTypeOK
  BY TypeGroups DEF IInv
<1>2. CASE CompleteJob(w)
  BY <1>1, <1>2 DEF CompleteJob, HandlerTypeOK, buildVars
<1>3. CASE PickJob(w)
  BY <1>1, <1>3 DEF PickJob, HandlerTypeOK, buildVars
<1>4. CASE PickNil(w, wpc[w] = "dead")
  BY <1>1, <1>4 DEF PickNil, HandlerTypeOK, buildVars
<1>5. CASE CheckCache(w)
  <2>1. hpc[w] = "check" /\ hpc'[w] \in {"complete", "pick", "respond"}
    BY <1>1, <1>5 DEF CheckCache, Onward, HandlerTypeOK
  <2> QED
    BY <1>5, <2>1 DEF CheckCache, buildVars
<1>6. CASE HeartbeatResponse(w)
  BY <1>1, <1>6 DEF HeartbeatResponse, Respond, HandlerTypeOK, buildVars
<1> QED
  BY <1>2, <1>3, <1>4, <1>5, <1>6 DEF HandlerStep

LEMMA WorkerAside ==
  ASSUME IInv, NEW w \in Worker, WorkerStep(w) \/ WorkerFault(w)
  PROVE  /\ UNCHANGED <<mu, jobsDoneCnt, status, buildByJob, data>>
         /\ \/ UNCHANGED <<hpc, todo>>
            \/ /\ hpc[w] \notin {"lock", "report", "finish"}
               /\ hpc'[w] \notin {"lock", "report", "finish"}
<1>1. TypeOK /\ HandlerTypeOK
  BY TypeGroups DEF IInv
<1>2. UNCHANGED <<mu, jobsDoneCnt, status, buildByJob>>
  BY <1>1, WorkerStepFrame DEF buildVars
<1>3. CASE HeartbeatRequest(w)
  <2>1. /\ hpc[w] = "idle" /\ hpc'[w] \in {"complete", "pick", "respond"}
        /\ UNCHANGED data
    BY <1>1, <1>3 DEF HeartbeatRequest, Heartbeat, Onward, HandlerTypeOK
  <2> QED
    BY <1>2, <2>1
<1>4. CASE ~HeartbeatRequest(w)
  BY <1>2, <1>4 DEF WorkerStep, WorkerFault, coordVars, handlerVars
<1> QED
  BY <1>3, <1>4

(* A handler at the end of a result.                                       *)
LEMMA HandlerReports ==
  ASSUME IInv, NEW w \in Worker, ReportJob(w) \/ ReportBuild(w)
  PROVE  /\ UNCHANGED buildByJob
         /\ hpc'[w] \in {"finish", "complete", "pick", "respond"}
         /\ \/ /\ mu' = [mu EXCEPT ![data[w]] = Nil]
               /\ hpc'[w] # "finish"
            \/ /\ ReportJob(w) /\ hpc'[w] = "finish"
               /\ jobsDoneCnt[data[w]] + 1 = Len(jobs[data[w]])
               /\ UNCHANGED <<mu, data, todo>>
<1>1. HandlerTypeOK
  BY TypeGroups DEF IInv
<1>2. UNCHANGED buildByJob
  BY DEF ReportJob, ReportBuild
<1>3. ASSUME EndResult(w)
      PROVE  mu' = [mu EXCEPT ![data[w]] = Nil] /\ hpc'[w] \in {"complete", "pick", "respond"}
  BY <1>1, <1>3 DEF EndResult, Onward, HandlerTypeOK
<1>4. CASE ReportBuild(w)
  BY <1>2, <1>3, <1>4 DEF ReportBuild
<1>5. CASE ReportJob(w)
  <2>1. CASE jobsDoneCnt[data[w]] + 1 = Len(jobs[data[w]])
    BY <1>1, <1>2, <1>5, <2>1 DEF ReportJob, HandlerTypeOK
  <2>2. CASE jobsDoneCnt[data[w]] + 1 # Len(jobs[data[w]])
    BY <1>2, <1>3, <1>5, <2>2 DEF ReportJob
  <2> QED
    BY <2>1, <2>2
<1> QED
  BY <1>4, <1>5

-----------------------------------------------------------------------------
(* The lock of a build.                                                    *)

(* A build that a handler reports to has started.                          *)
LEMMA HasStarted ==
  ASSUME IInv, Prepared, HeldOnce, Counted, NEW w \in Worker,
         hpc[w] \in {"lock", "report", "finish"}
  PROVE  spc[data[w]] # "new"
<1>1. Head(todo[w]).job \in Job /\ data[w] \in Build
  BY ResultFacts
<1>2. CASE hpc[w] \in {"lock", "report"}
  <2>1. Head(todo[w]).job \in Range(graph[data[w]])
    BY <1>1, <1>2 DEF HeldOnce, Holds, Due
  <2> QED
    BY <1>1, <2>1, EmptyFacts DEF Prepared, PreparedAt
<1>3. CASE hpc[w] = "finish"
  BY <1>1, <1>3 DEF Counted, AllTold, Prepared, PreparedAt
<1> QED
  BY <1>2, <1>3

(* The session locks the build when nobody holds it, unlocks what it holds.*)
LEMMA SessionLocks ==
  ASSUME IInv, Prepared, HeldOnce, Counted, Locks, NEW b \in Build, BuildStep(b)
  PROVE  Locks'
<1>1. /\ TypeOK /\ BuildTypeOK /\ SessionTypeOK /\ UNCHANGED <<hpc, data>>
      /\ \A c \in Build \ {b} : mu'[c] = mu[c] /\ spc'[c] = spc[c]
  BY TypeGroups, BuildFrame DEF IInv, handlerVars
<1>2. \/ spc[b] = "new" /\ mu'[b] = b
      \/ spc[b] = "push" /\ mu'[b] = Nil /\ spc'[b] = "open"
      \/ spc[b] = "lock" /\ mu[b] = Nil /\ mu'[b] = b
      \/ spc[b] = "deps" /\ mu'[b] = Nil /\ spc'[b] = "signalled"
      \/ mu'[b] = mu[b] /\ (spc'[b] \in {"push", "deps", "send"}
                              => spc[b] \in {"push", "deps", "send"})
  <2>1. CASE StartBuild(b)
    BY <1>1, <2>1 DEF StartBuild, BuildTypeOK
  <2>2. CASE Aside(b)
    BY <1>1, <2>2 DEF Aside, SessionTypeOK
  <2>3. CASE Started(b) \/ SignalLock(b) \/ SignalDone(b)
    BY <1>1, <2>3 DEF Started, SignalLock, SignalDone, BuildTypeOK, SessionTypeOK
  <2>4. CASE PushData(b) \/ LocateDep(b) \/ ScheduleJob(b) \/ SendJob(b)
    BY <1>1, <2>4 DEF PushData, LocateDep, ScheduleJob, SendJob, buildVars, SessionTypeOK
  <2> QED
    BY <2>1, <2>2, <2>3, <2>4, BuildSteps DEF SessionStep
<1>3. ASSUME NEW w \in Worker, hpc'[w] \in {"report", "finish"}
      PROVE  mu'[data'[w]] = w
  <2>1. hpc[w] \in {"report", "finish"} /\ data'[w] = data[w]
    BY <1>1, <1>3
  <2>2. data[w] \in Build /\ mu[data[w]] = w /\ spc[data[w]] # "new"
    BY <2>1, ResultFacts, HasStarted DEF Locks
  <2>3. w # Nil /\ w # b
    BY GraphAssumption, CoordinatorAssumption
  <2>4. CASE data[w] = b
    BY <1>2, <2>1, <2>2, <2>3, <2>4 DEF Locks
  <2> QED
    BY <1>1, <2>1, <2>2, <2>4
<1>4. ASSUME NEW c \in Build, spc'[c] \in {"push", "deps", "send"}
      PROVE  mu'[c] = c
  BY <1>1, <1>2, <1>4 DEF Locks
<1> QED
  BY <1>3, <1>4 DEF Locks

(* A handler that reports holds the lock of the build, and no other thread *)
(* does.                                                                   *)
LEMMA HandlerLocks ==
  ASSUME IInv, Prepared, Locks, NEW w \in Worker,
         HandlerStep(w) \/ WorkerStep(w) \/ WorkerFault(w)
  PROVE  Locks'
<1>1. /\ TypeOK /\ BuildTypeOK /\ HandlerTypeOK
      /\ UNCHANGED spc
      /\ \A v \in Worker \ {w} : hpc'[v] = hpc[v] /\ data'[v] = data[v]
  BY TypeGroups, HandlerFrame, WorkerStepFrame DEF IInv, Own, sessionVars
<1>2. /\ w \notin Build /\ w # Nil /\ Nil \notin Build /\ Nil \notin Worker
      /\ \A v \in Worker : v \notin Build
  BY GraphAssumption, CoordinatorAssumption
<1>3. \A v \in Worker : hpc[v] \in {"report", "finish"} => data[v] \in Build
  BY ResultFacts
<1>4. CASE LockData(w)
  <2>1. /\ hpc[w] = "lock" /\ data[w] \in Build /\ mu[data[w]] = Nil
        /\ mu' = [mu EXCEPT ![data[w]] = w] /\ UNCHANGED data
    BY <1>4, ResultFacts DEF LockData
  <2>2. mu'[data[w]] = w /\ \A b \in Build : mu[b] # Nil => mu'[b] = mu[b]
    BY <1>1, <2>1 DEF BuildTypeOK
  <2>3. \A v \in Worker : hpc'[v] \in {"report", "finish"} => mu'[data'[v]] = v
    BY <1>1, <1>2, <1>3, <2>1, <2>2 DEF Locks
  <2>4. \A b \in Build : spc'[b] \in {"push", "deps", "send"} => mu'[b] = b
    BY <1>1, <1>2, <2>2 DEF Locks
  <2> QED
    BY <2>3, <2>4 DEF Locks
<1>5. CASE ReportJob(w) \/ ReportBuild(w)
  <2>1. hpc[w] \in {"report", "finish"} /\ data[w] \in Build /\ mu[data[w]] = w
    BY <1>3, <1>5 DEF ReportJob, ReportBuild, Locks
  <2>2. CASE mu' = [mu EXCEPT ![data[w]] = Nil] /\ hpc'[w] \in {"complete", "pick", "respond"}
    <3>1. ASSUME NEW v \in Worker, hpc'[v] \in {"report", "finish"}
          PROVE  mu'[data'[v]] = v
      <4>1. v # w /\ hpc[v] \in {"report", "finish"} /\ data'[v] = data[v]
        BY <1>1, <2>2, <3>1
      <4>2. data[v] \in Build /\ mu[data[v]] = v /\ data[v] # data[w]
        BY <1>3, <2>1, <4>1 DEF Locks
      <4> QED
        BY <1>1, <2>2, <4>1, <4>2 DEF BuildTypeOK
    <3>2. ASSUME NEW c \in Build, spc'[c] \in {"push", "deps", "send"}
          PROVE  mu'[c] = c
      <4>1. mu[c] = c /\ c # data[w]
        BY <1>1, <1>2, <2>1, <3>2 DEF Locks
      <4> QED
        BY <1>1, <2>2, <4>1 DEF BuildTypeOK
    <3> QED
      BY <3>1, <3>2 DEF Locks
  <2>3. CASE UNCHANGED <<mu, data>>
    <3>1. \A v \in Worker : hpc'[v] \in {"report", "finish"} => mu'[data'[v]] = v
      BY <1>1, <2>1, <2>3 DEF Locks
    <3> QED
      BY <1>1, <2>3, <3>1 DEF Locks
  <2>4. \/ mu' = [mu EXCEPT ![data[w]] = Nil] /\ hpc'[w] \in {"complete", "pick", "respond"}
        \/ UNCHANGED <<mu, data>>
    BY <1>5, HandlerReports
  <2> QED
    BY <2>2, <2>3, <2>4
<1>6. CASE ReceiveData(w)
  <2>1. UNCHANGED mu /\ hpc'[w] = "lock"
    BY <1>1, <1>6 DEF ReceiveData, HandlerTypeOK
  <2> QED
    BY <1>1, <2>1 DEF Locks
<1>7. CASE HandlerStep(w) /\ ~LockData(w) /\ ~ReportJob(w) /\ ~ReportBuild(w) /\ ~ReceiveData(w)
  <2>1. UNCHANGED <<mu, data>> /\ hpc'[w] \notin {"report", "finish"}
    BY <1>7, HandlerAside
  <2> QED
    BY <1>1, <2>1 DEF Locks
<1>8. CASE WorkerStep(w) \/ WorkerFault(w)
  <2>1. UNCHANGED <<mu, data>> /\ (UNCHANGED hpc \/ hpc'[w] \notin {"report", "finish"})
    BY <1>8, WorkerAside
  <2> QED
    BY <1>1, <2>1 DEF Locks
<1> QED
  BY <1>4, <1>5, <1>6, <1>7, <1>8

-----------------------------------------------------------------------------
(* A build waits once for each of its jobs.                                *)

(* The reports that are due, and who waits for them.                       *)
Reports == WaitsOnce /\ HeldOnce /\ QueuesOnce /\ Counted

(* A step that neither queues, receives nor reports.                       *)
LEMMA Undisturbed ==
  ASSUME Reports,
         UNCHANGED <<graph, jobs, jobsDoneCnt, status, buildByJob>>,
         \A b \in Build : spc'[b] = "push" => spc[b] = "push" /\ pos'[b] = pos[b],
         \A w \in Worker : \A b, j : Holds(w, b, j)' <=> Holds(w, b, j),
         \A w \in Worker : hpc'[w] = "finish" => hpc[w] = "finish" /\ data'[w] = data[w]
  PROVE  Reports'
<1>1. \A b : /\ Reported(b)' = Reported(b) /\ (Finished(b)' <=> Finished(b))
             /\ (AllTold(b)' <=> AllTold(b))
             /\ \A j : Due(b, j)' <=> Due(b, j)
  BY DEF Reported, Finished, AllTold, Due
<1>2. WaitsOnce'
  BY <1>1 DEF Reports, WaitsOnce
<1>3. HeldOnce'
  BY <1>1 DEF Reports, HeldOnce
<1>4. QueuesOnce'
  <2> SUFFICES ASSUME NEW b \in Build, spc'[b] = "push", NEW i \in pos'[b]..Len(graph'[b])
               PROVE  /\ graph'[b][i] \notin Reported(b)'
                      /\ b \notin Range(buildByJob'[graph'[b][i]])
                      /\ \A w \in Worker : ~Holds(w, b, graph[b][i])'
    BY DEF QueuesOnce
  <2>1. /\ graph[b][i] \notin Reported(b)
        /\ b \notin Range(buildByJob[graph[b][i]])
        /\ \A w \in Worker : ~Holds(w, b, graph[b][i])
    BY DEF Reports, QueuesOnce
  <2> QED
    BY <1>1, <2>1
<1>5. Counted'
  <2>1. \A b \in Build : /\ Reported(b)' \subseteq Range(graph'[b])
                         /\ jobsDoneCnt'[b] = Cardinality(Reported(b)')
                         /\ Finished(b)' => AllTold(b)'
    BY <1>1 DEF Reports, Counted
  <2>2. ASSUME NEW w \in Worker, hpc'[w] = "finish"
        PROVE  AllTold(data[w])' /\ ~Finished(data[w])'
    <3>1. AllTold(data[w]) /\ ~Finished(data[w]) /\ data'[w] = data[w]
      BY <2>2 DEF Reports, Counted
    <3> QED
      BY <3>1 DEF AllTold, Finished
  <2> QED
    BY <2>1, <2>2 DEF Counted
<1> QED
  BY <1>2, <1>3, <1>4, <1>5 DEF Reports

(* Nobody waits for a build that has not started.                          *)
LEMMA StartReports ==
  ASSUME IInv, Prepared, Reports, NEW b \in Build, StartBuild(b)
  PROVE  Reports'
<1>1. /\ TypeOK /\ BuildTypeOK /\ SessionTypeOK
      /\ PreparedAt(b)
  BY TypeGroups DEF IInv, Prepared
<1>2. PICK g \in Requests : g = check[b].graph
  BY StartsRequest DEF IInv
<1>3. /\ UNCHANGED <<jobsDoneCnt, status, buildByJob, hpc, data, todo>>
      /\ spc[b] = "new" /\ graph[b] = <<>> /\ spc'[b] = "push"
      /\ \A c \in Build \ {b} : /\ graph'[c] = graph[c] /\ jobs'[c] = jobs[c]
                                /\ spc'[c] = spc[c] /\ pos'[c] = pos[c]
  BY <1>1, <1>2 DEF StartBuild, BuildTypeOK, SessionTypeOK, PreparedAt, handlerVars
<1>4. Range(graph[b]) = {}
  BY <1>3, EmptyFacts
<1>5. /\ \A j : ~Due(b, j)
      /\ \A c \in Build \ {b} : \A j : Due(c, j)' <=> Due(c, j)
  BY <1>3, <1>4 DEF Due, Reported
<1>6. \A w \in Worker : \A c, j : Holds(w, c, j)' <=> Holds(w, c, j)
  BY <1>3 DEF Holds
<1>7. WaitsOnce'
  <2> SUFFICES ASSUME NEW j \in Job
               PROVE  /\ IsInjective(buildByJob[j])
                      /\ \A c \in Range(buildByJob[j]) : Due(c, j)'
    BY <1>3 DEF WaitsOnce
  <2>1. Range(buildByJob[j]) \subseteq Build
    BY <1>1, RangeFacts DEF BuildTypeOK
  <2> QED
    BY <1>5, <2>1 DEF Reports, WaitsOnce
<1>8. HeldOnce'
  BY <1>3, <1>5, <1>6 DEF Reports, HeldOnce
<1>9. QueuesOnce'
  <2> SUFFICES ASSUME NEW c \in Build, spc'[c] = "push", NEW i \in pos'[c]..Len(graph'[c])
               PROVE  /\ graph'[c][i] \notin Reported(c)'
                      /\ c \notin Range(buildByJob'[graph'[c][i]])
                      /\ \A w \in Worker : ~Holds(w, c, graph[c][i])'
    BY DEF QueuesOnce
  <2>1. CASE c # b
    BY <1>3, <1>6, <2>1 DEF Reports, QueuesOnce, Reported
  <2>2. CASE c = b
    <3>1. graph'[b] = g /\ g \in Seq(Job) /\ pos'[b] = 1
      BY <1>1, <1>2, <1>3, SortedFacts DEF StartBuild, BuildTypeOK, PreparedAt
    <3>2. graph'[b][i] \in Job
      BY <2>2, <3>1
    <3> QED
      BY <1>3, <1>4, <1>5, <1>6, <2>2, <3>2
         DEF Reports, WaitsOnce, HeldOnce, Counted, Reported, Due
  <2> QED
    BY <2>1, <2>2
<1>10. Counted'
  <2>1. ASSUME NEW c \in Build
        PROVE  /\ Reported(c)' \subseteq Range(graph'[c])
               /\ jobsDoneCnt'[c] = Cardinality(Reported(c)')
               /\ Finished(c)' => AllTold(c)'
    <3>1. /\ Reported(c) \subseteq Range(graph[c])
          /\ jobsDoneCnt[c] = Cardinality(Reported(c))
          /\ Finished(c) => AllTold(c)
      BY DEF Reports, Counted
    <3>2. Reported(c)' = Reported(c) /\ (Finished(c)' <=> Finished(c))
      BY <1>3 DEF Reported, Finished
    <3> QED
      BY <1>3, <1>4, <3>1, <3>2 DEF AllTold
  <2>2. ASSUME NEW w \in Worker, hpc'[w] = "finish"
        PROVE  AllTold(data[w])' /\ ~Finished(data[w])'
    <3>1. /\ hpc[w] = "finish" /\ data'[w] = data[w] /\ data[w] \in Build
          /\ AllTold(data[w]) /\ ~Finished(data[w])
      BY <1>3, <2>2, ResultFacts DEF Reports, Counted
    <3>2. data[w] # b
      BY <1>3, <3>1 DEF AllTold
    <3> QED
      BY <1>3, <3>1, <3>2 DEF AllTold, Finished
  <2> QED
    BY <2>1, <2>2 DEF Counted
<1> QED
  BY <1>7, <1>8, <1>9, <1>10 DEF Reports

(* A build queues for each job of its request once.                        *)
LEMMA PushReports ==
  ASSUME IInv, Prepared, Reports, NEW b \in Build, PushData(b)
  PROVE  Reports'
<1>1. /\ TypeOK /\ BuildTypeOK /\ SessionTypeOK
      /\ PreparedAt(b)
  BY TypeGroups DEF IInv, Prepared
<1>2. /\ UNCHANGED <<graph, jobs, jobsDoneCnt, status, spc, hpc, data, todo>>
      /\ spc[b] = "push" /\ pos[b] \in 1..Len(graph[b]) /\ pos[b] \in pos[b]..Len(graph[b])
      /\ buildByJob' = [buildByJob EXCEPT ![graph[b][pos[b]]] = Append(@, b)]
      /\ pos' = [pos EXCEPT ![b] = @ + 1]
      /\ graph[b] \in Requests /\ graph[b] \in Seq(Job) /\ IsInjective(graph[b])
  <2>1. pos[b] <= Len(graph[b]) /\ pos[b] \in Nat \ {0} /\ graph[b] \in Seq(Job)
    BY <1>1 DEF PushData, BuildTypeOK, SessionTypeOK
  <2>2. spc[b] = "push" /\ graph[b] \in Requests
    BY <1>1 DEF PushData, PreparedAt
  <2> QED
    BY <2>1, <2>2, SortedFacts DEF PushData, handlerVars
<1>3. PICK job \in Job : job = graph[b][pos[b]] /\ job \in Range(graph[b])
  BY <1>2, RangeFacts
<1>4. /\ job \notin Reported(b) /\ b \notin Range(buildByJob[job])
      /\ \A w \in Worker : ~Holds(w, b, job)
  BY <1>2, <1>3 DEF Reports, QueuesOnce
<1>5. /\ \A j \in Job \ {job} : buildByJob'[j] = buildByJob[j]
      /\ buildByJob'[job] = Append(buildByJob[job], b)
      /\ buildByJob[job] \in Seq(Build)
  BY <1>1, <1>2, <1>3 DEF BuildTypeOK
<1>6. Range(buildByJob'[job]) = Range(buildByJob[job]) \cup {b}
  BY <1>5, PutFacts
<1>7. \A c, j : /\ Due(c, j)' <=> Due(c, j)
                /\ Reported(c)' = Reported(c)
                /\ \A w \in Worker : Holds(w, c, j)' <=> Holds(w, c, j)
  BY <1>2 DEF Due, Reported, Holds
<1>8. WaitsOnce'
  <2>1. IsInjective(buildByJob[job]) /\ \A c \in Range(buildByJob[job]) : Due(c, job)
    BY <1>4 DEF Reports, WaitsOnce
  <2>2. IsInjective(buildByJob'[job])
    BY <1>4, <1>5, <2>1, PutInjective
  <2>3. \A c \in Range(buildByJob'[job]) : Due(c, job)'
    BY <1>4, <1>6, <1>7, <1>3, <2>1 DEF Due
  <2>4. \A j \in Job \ {job} : /\ IsInjective(buildByJob'[j])
                               /\ \A c \in Range(buildByJob'[j]) : Due(c, j)'
    BY <1>5, <1>7 DEF Reports, WaitsOnce
  <2> QED
    BY <2>2, <2>3, <2>4 DEF WaitsOnce
<1>9. HeldOnce'
  <2> SUFFICES ASSUME NEW w \in Worker, NEW c \in Build, NEW j \in Job, Holds(w, c, j)'
               PROVE  /\ Due(c, j)'
                      /\ c \notin Range(buildByJob'[j])
                      /\ \A v \in Worker : Holds(v, c, j)' => v = w
    BY DEF HeldOnce
  <2>1. /\ Holds(w, c, j) /\ Due(c, j) /\ c \notin Range(buildByJob[j])
        /\ \A v \in Worker : Holds(v, c, j) => v = w
    BY <1>7 DEF Reports, HeldOnce
  <2>2. c \notin Range(buildByJob'[j])
    BY <1>4, <1>5, <1>6, <2>1
  <2> QED
    BY <1>7, <2>1, <2>2
<1>10. QueuesOnce'
  <2> SUFFICES ASSUME NEW c \in Build, spc[c] = "push", NEW i \in pos'[c]..Len(graph[c])
               PROVE  /\ graph[c][i] \notin Reported(c)
                      /\ c \notin Range(buildByJob'[graph[c][i]])
                      /\ \A w \in Worker : ~Holds(w, c, graph[c][i])
    BY <1>2, <1>7 DEF QueuesOnce
  <2>1. /\ i \in pos[c]..Len(graph[c]) /\ i \in 1..Len(graph[c])
        /\ pos[c] \in Nat \ {0} /\ graph[c] \in Seq(Job)
        /\ c = b => i # pos[b]
    <3>1. pos[c] \in Nat \ {0} /\ graph[c] \in Seq(Job)
      BY <1>1 DEF SessionTypeOK, BuildTypeOK
    <3>2. CASE c = b
      <4>1. pos'[c] = pos[b] + 1
        BY <1>1, <1>2, <3>2 DEF SessionTypeOK
      <4> QED
        BY <3>1, <3>2, <4>1
    <3>3. CASE c # b
      <4>1. pos'[c] = pos[c]
        BY <1>1, <1>2, <3>3 DEF SessionTypeOK
      <4> QED
        BY <3>1, <3>3, <4>1
    <3> QED
      BY <3>2, <3>3
  <2>2. /\ graph[c][i] \notin Reported(c)
        /\ c \notin Range(buildByJob[graph[c][i]])
        /\ \A w \in Worker : ~Holds(w, c, graph[c][i])
    BY <2>1 DEF Reports, QueuesOnce
  <2>3. graph[c][i] \in Job
    BY <2>1
  <2>4. c = b => graph[c][i] # job
    BY <1>2, <1>3, <2>1 DEF IsInjective
  <2> QED
    BY <1>5, <1>6, <2>2, <2>3, <2>4
<1>11. Counted'
  BY <1>2 DEF Reports, Counted, AllTold, Reported, Finished
<1> QED
  BY <1>8, <1>9, <1>10, <1>11 DEF Reports

(* The build that a handler receives leaves the channel.                   *)
LEMMA ReceiveReports ==
  ASSUME IInv, Reports, NEW w \in Worker, ReceiveData(w)
  PROVE  Reports'
<1>1. /\ TypeOK /\ BuildTypeOK /\ HandlerTypeOK
  BY TypeGroups DEF IInv
<1>2. PICK job \in Job : job = Head(todo[w]).job
  BY ResultFacts DEF ReceiveData
<1>3. PICK b \in Build : /\ b = Head(buildByJob[job]) /\ b \in Range(buildByJob[job])
                         /\ b \notin Range(Tail(buildByJob[job]))
                         /\ Range(Tail(buildByJob[job])) \subseteq Range(buildByJob[job])
                         /\ IsInjective(Tail(buildByJob[job]))
  <2>1. buildByJob[job] \in Seq(Build) /\ buildByJob[job] # <<>> /\ IsInjective(buildByJob[job])
    BY <1>1, <1>2 DEF ReceiveData, BuildTypeOK, Reports, WaitsOnce
  <2> QED
    BY <2>1, TakeFacts, TakeInjective
<1>4. /\ UNCHANGED <<graph, jobs, jobsDoneCnt, status, spc, pos, todo>>
      /\ hpc[w] = "receive" /\ hpc' = [hpc EXCEPT ![w] = "lock"]
      /\ data' = [data EXCEPT ![w] = b]
      /\ buildByJob' = [buildByJob EXCEPT ![job] = Tail(buildByJob[job])]
  BY <1>1, <1>2, <1>3 DEF ReceiveData, sessionVars, BuildTypeOK
<1>5. /\ \A j \in Job \ {job} : buildByJob'[j] = buildByJob[j]
      /\ buildByJob'[job] = Tail(buildByJob[job])
  BY <1>1, <1>4 DEF BuildTypeOK
<1>6. /\ \A c, j : /\ Due(c, j)' <=> Due(c, j)
                   /\ Reported(c)' = Reported(c)
                   /\ Finished(c)' <=> Finished(c)
                   /\ AllTold(c)' <=> AllTold(c)
      /\ \A v \in Worker : \A c, j : Holds(v, c, j)' <=> Holds(v, c, j) \/ (v = w /\ c = b /\ j = job)
  <2>1. \A c, j : /\ Due(c, j)' <=> Due(c, j)
                  /\ Reported(c)' = Reported(c)
                  /\ Finished(c)' <=> Finished(c)
                  /\ AllTold(c)' <=> AllTold(c)
    BY <1>4 DEF Due, Reported, Finished, AllTold
  <2>2. /\ hpc'[w] = "lock" /\ data'[w] = b
        /\ \A v \in Worker \ {w} : hpc'[v] = hpc[v] /\ data'[v] = data[v]
    BY <1>1, <1>4 DEF HandlerTypeOK
  <2>3. \A c, j : ~Holds(w, c, j) /\ (Holds(w, c, j)' <=> c = b /\ j = job)
    BY <1>2, <1>4, <2>2 DEF Holds
  <2>4. \A v \in Worker \ {w} : \A c, j : Holds(v, c, j)' <=> Holds(v, c, j)
    BY <1>4, <2>2 DEF Holds
  <2>5. ASSUME NEW v \in Worker
        PROVE  \A c, j : Holds(v, c, j)' <=> Holds(v, c, j) \/ (v = w /\ c = b /\ j = job)
    <3>1. CASE v = w
      BY <2>3, <3>1
    <3>2. CASE v # w
      BY <2>4, <3>2
    <3> QED
      BY <3>1, <3>2
  <2> QED
    BY <2>1, <2>5
<1>7. Due(b, job) /\ \A v \in Worker : ~Holds(v, b, job)
  BY <1>3 DEF Reports, WaitsOnce, HeldOnce
<1>8. \A j \in Job : Range(buildByJob'[j]) \subseteq Range(buildByJob[j])
  BY <1>3, <1>5
<1>9. WaitsOnce'
  <2>1. \A j \in Job : IsInjective(buildByJob'[j])
    BY <1>3, <1>5 DEF Reports, WaitsOnce
  <2>2. ASSUME NEW j \in Job, NEW c \in Range(buildByJob'[j]) PROVE Due(c, j)'
    BY <1>6, <1>8 DEF Reports, WaitsOnce
  <2> QED
    BY <2>1, <2>2 DEF WaitsOnce
<1>10. HeldOnce'
  <2> SUFFICES ASSUME NEW v \in Worker, NEW c \in Build, NEW j \in Job, Holds(v, c, j)'
               PROVE  /\ Due(c, j)'
                      /\ c \notin Range(buildByJob'[j])
                      /\ \A u \in Worker : Holds(u, c, j)' => u = v
    BY DEF HeldOnce
  <2>1. CASE Holds(v, c, j)
    <3>1. /\ Due(c, j) /\ c \notin Range(buildByJob[j])
          /\ \A u \in Worker : Holds(u, c, j) => u = v
      BY <2>1 DEF Reports, HeldOnce
    <3>2. ~(c = b /\ j = job)
      BY <1>7, <2>1
    <3> QED
      BY <1>6, <1>8, <3>1, <3>2
  <2>2. CASE v = w /\ c = b /\ j = job
    BY <1>3, <1>5, <1>6, <1>7, <2>2
  <2> QED
    BY <1>6, <2>1, <2>2
<1>11. QueuesOnce'
  <2> SUFFICES ASSUME NEW c \in Build, spc[c] = "push", NEW i \in pos[c]..Len(graph[c])
               PROVE  /\ graph[c][i] \notin Reported(c)
                      /\ c \notin Range(buildByJob'[graph[c][i]])
                      /\ \A v \in Worker : ~Holds(v, c, graph[c][i])'
    BY <1>4, <1>6 DEF QueuesOnce
  <2>1. /\ graph[c][i] \notin Reported(c)
        /\ c \notin Range(buildByJob[graph[c][i]])
        /\ \A v \in Worker : ~Holds(v, c, graph[c][i])
    BY DEF Reports, QueuesOnce
  <2>2. graph[c][i] \in Job
    <3>1. pos[c] \in Nat \ {0} /\ graph[c] \in Seq(Job)
      BY TypeGroups DEF IInv, SessionTypeOK, BuildTypeOK
    <3> QED
      BY <3>1
  <2>3. ~(c = b /\ graph[c][i] = job)
    BY <1>3, <2>1
  <2>4. \A v \in Worker : ~Holds(v, c, graph[c][i])'
    BY <1>4, <1>6, <2>1, <2>3
  <2> QED
    BY <1>8, <2>1, <2>2, <2>4
<1>12. Counted'
  <2>1. \A c \in Build : /\ Reported(c)' \subseteq Range(graph'[c])
                         /\ jobsDoneCnt'[c] = Cardinality(Reported(c)')
                         /\ Finished(c)' => AllTold(c)'
    BY <1>4, <1>6 DEF Reports, Counted
  <2>2. ASSUME NEW v \in Worker, hpc'[v] = "finish"
        PROVE  AllTold(data[v])' /\ ~Finished(data[v])'
    <3>1. hpc[v] = "finish" /\ data'[v] = data[v]
      BY <1>1, <1>4, <2>2 DEF HandlerTypeOK
    <3>2. AllTold(data[v]) /\ ~Finished(data[v])
      BY <3>1 DEF Reports, Counted
    <3> QED
      BY <1>4, <3>1, <3>2 DEF AllTold, Finished
  <2> QED
    BY <2>1, <2>2 DEF Counted
<1> QED
  BY <1>9, <1>10, <1>11, <1>12 DEF Reports

(* A build that is told of a job no longer waits for it, and it has not    *)
(* finished before.                                                        *)
LEMMA TellReports ==
  ASSUME IInv, Prepared, Locks, Reports, NEW w \in Worker, HandlerStep(w), ReportJob(w)
  PROVE  /\ Reports'
         /\ ~Finished(data[w])
         /\ Due(data[w], Head(todo[w]).job)
<1>1. /\ TypeOK /\ BuildTypeOK /\ HandlerTypeOK
  BY TypeGroups DEF IInv
<1>2. hpc[w] = "report"
  BY DEF ReportJob
<1>3. PICK job \in Job, b \in Build : job = Head(todo[w]).job /\ b = data[w]
  BY <1>2, ResultFacts
<1>4. /\ UNCHANGED <<graph, jobs, buildByJob, spc, pos>>
      /\ status' = [status EXCEPT ![b] = Append(@, JobFinished(job))]
      /\ jobsDoneCnt' = [jobsDoneCnt EXCEPT ![b] = @ + 1]
  BY <1>3 DEF ReportJob, Updated, sessionVars
<1>5. \A c \in Build : /\ Finished(c)' <=> Finished(c)
                       /\ Reported(c)' = Reported(c) \cup (IF c = b THEN {job} ELSE {})
  BY <1>1, <1>4, TellsJob
<1>6. /\ Holds(w, b, job) /\ Due(b, job) /\ b \notin Range(buildByJob[job])
      /\ \A v \in Worker \ {w} : ~Holds(v, b, job)
  BY <1>2, <1>3 DEF Holds, Reports, HeldOnce
<1>7. /\ hpc'[w] \in {"finish", "complete", "pick", "respond"}
      /\ \A v \in Worker \ {w} : hpc'[v] = hpc[v] /\ data'[v] = data[v] /\ todo'[v] = todo[v]
      /\ hpc'[w] = "finish" => jobsDoneCnt[b] + 1 = Len(jobs[b]) /\ UNCHANGED data
  <2>1. \A v \in Worker \ {w} : hpc'[v] = hpc[v] /\ data'[v] = data[v] /\ todo'[v] = todo[v]
    BY <1>1, HandlerFrame DEF Own
  <2> QED
    BY <1>3, <2>1, HandlerReports
<1>8. /\ \A c, j : ~Holds(w, c, j)'
      /\ \A v \in Worker \ {w} : \A c, j : Holds(v, c, j)' <=> Holds(v, c, j)
  BY <1>7 DEF Holds
<1>9. \A c \in Build, j \in Job : ~(c = b /\ j = job) => (Due(c, j)' <=> Due(c, j))
  BY <1>4, <1>5 DEF Due
<1>10. WaitsOnce'
  <2>1. ASSUME NEW j \in Job, NEW c \in Range(buildByJob[j]) PROVE Due(c, j)'
    <3>1. c \in Build /\ Due(c, j)
      BY <1>1, RangeFacts DEF BuildTypeOK, Reports, WaitsOnce
    <3> QED
      BY <1>6, <1>9, <3>1
  <2> QED
    BY <1>4, <2>1 DEF Reports, WaitsOnce
<1>11. HeldOnce'
  <2> SUFFICES ASSUME NEW v \in Worker, NEW c \in Build, NEW j \in Job, Holds(v, c, j)'
               PROVE  /\ Due(c, j)'
                      /\ c \notin Range(buildByJob[j])
                      /\ \A u \in Worker : Holds(u, c, j)' => u = v
    BY <1>4 DEF HeldOnce
  <2>1. v # w /\ Holds(v, c, j)
    BY <1>8
  <2>2. /\ Due(c, j) /\ c \notin Range(buildByJob[j])
        /\ \A u \in Worker : Holds(u, c, j) => u = v
    BY <2>1 DEF Reports, HeldOnce
  <2>3. ~(c = b /\ j = job)
    BY <1>6, <2>1
  <2> QED
    BY <1>8, <1>9, <2>2, <2>3
<1>12. QueuesOnce'
  <2> SUFFICES ASSUME NEW c \in Build, spc[c] = "push", NEW i \in pos[c]..Len(graph[c])
               PROVE  /\ graph[c][i] \notin Reported(c)'
                      /\ c \notin Range(buildByJob[graph[c][i]])
                      /\ \A v \in Worker : ~Holds(v, c, graph[c][i])'
    BY <1>4 DEF QueuesOnce
  <2>1. /\ graph[c][i] \notin Reported(c)
        /\ c \notin Range(buildByJob[graph[c][i]])
        /\ \A v \in Worker : ~Holds(v, c, graph[c][i])
    BY DEF Reports, QueuesOnce
  <2>2. ~(c = b /\ graph[c][i] = job)
    BY <1>6, <2>1
  <2>3. \A v \in Worker : ~Holds(v, c, graph[c][i])'
    BY <1>4, <1>8, <2>1
  <2> QED
    BY <1>5, <2>1, <2>2, <2>3
<1>13. /\ IsFiniteSet(Range(graph[b])) /\ Cardinality(Range(graph[b])) = Len(jobs[b])
       /\ IsFiniteSet(Reported(b)) /\ Reported(b) \subseteq Range(graph[b])
       /\ Cardinality(Reported(b)) \in Nat /\ graph[b] # <<>>
  <2>1. spc[b] # "new" /\ graph[b] # <<>>
    <3>1. Range(graph[b]) # {}
      BY <1>6 DEF Due
    <3>2. graph[b] # <<>>
      BY <3>1, EmptyFacts
    <3> QED
      BY <3>2 DEF Prepared, PreparedAt
  <2>2. graph[b] \in Requests /\ jobs[b] = TopSort(graph[b], Deps)
    BY <2>1 DEF Prepared, PreparedAt
  <2>3. IsFiniteSet(Range(graph[b])) /\ Cardinality(Range(graph[b])) = Len(jobs[b])
    BY <2>2, SortedFacts
  <2>4. Reported(b) \subseteq Range(graph[b])
    BY DEF Reports, Counted
  <2> QED
    BY <2>1, <2>3, <2>4, FS_Subset, FS_CardinalityType
<1>14. Cardinality(Reported(b)') = Cardinality(Reported(b)) + 1
  <2>1. Reported(b)' = Reported(b) \cup {job} /\ job \notin Reported(b)
    BY <1>5, <1>6 DEF Due
  <2> QED
    BY <1>13, <2>1, FS_AddElement
<1>15. ~Finished(b)
  <2> SUFFICES ASSUME Finished(b) PROVE FALSE
    OBVIOUS
  <2>1. Cardinality(Reported(b)) = Cardinality(Range(graph[b]))
    BY <1>13 DEF Reports, Counted, AllTold
  <2>2. Reported(b) = Range(graph[b])
    BY <1>13, <2>1, FS_Subset
  <2> QED
    BY <1>6, <2>2 DEF Due
<1>16. Counted'
  <2>1. ASSUME NEW c \in Build
        PROVE  /\ Reported(c)' \subseteq Range(graph'[c])
               /\ jobsDoneCnt'[c] = Cardinality(Reported(c)')
               /\ Finished(c)' => AllTold(c)'
    <3>1. /\ Reported(c) \subseteq Range(graph[c])
          /\ jobsDoneCnt[c] = Cardinality(Reported(c))
          /\ Finished(c) => AllTold(c)
      BY DEF Reports, Counted
    <3>2. CASE c = b
      BY <1>1, <1>4, <1>5, <1>6, <1>14, <1>15, <3>1, <3>2 DEF Due, BuildTypeOK
    <3>3. CASE c # b
      BY <1>1, <1>4, <1>5, <3>1, <3>3 DEF AllTold, BuildTypeOK
    <3> QED
      BY <3>2, <3>3
  <2>2. ASSUME NEW v \in Worker, hpc'[v] = "finish"
        PROVE  AllTold(data[v])' /\ ~Finished(data[v])'
    <3>1. CASE v = w
      <4>1. data'[v] = b /\ jobsDoneCnt'[b] = Len(jobs[b])
        BY <1>1, <1>3, <1>4, <1>7, <2>2, <3>1 DEF BuildTypeOK
      <4>2. ~Finished(b)'
        BY <1>5, <1>15
      <4> QED
        BY <1>4, <1>13, <4>1, <4>2 DEF AllTold, Finished
    <3>2. CASE v # w
      <4>1. /\ hpc[v] = "finish" /\ data'[v] = data[v] /\ data[v] \in Build
            /\ AllTold(data[v]) /\ ~Finished(data[v])
        BY <1>7, <2>2, <3>2, ResultFacts DEF Reports, Counted
      <4>2. data[v] # b
        BY <1>2, <1>3, <3>2, <4>1 DEF Locks
      <4>3. ~Finished(data[v])' /\ jobsDoneCnt'[data[v]] = jobsDoneCnt[data[v]]
        <5>1. status'[data[v]] = status[data[v]]
          BY <1>1, <1>4, <4>1, <4>2 DEF BuildTypeOK
        <5>2. jobsDoneCnt'[data[v]] = jobsDoneCnt[data[v]]
          BY <1>1, <1>4, <4>1, <4>2 DEF BuildTypeOK
        <5> QED
          BY <4>1, <5>1, <5>2 DEF Finished
      <4> QED
        BY <1>4, <4>1, <4>3 DEF AllTold, Finished
    <3> QED
      BY <3>1, <3>2
  <2> QED
    BY <2>1, <2>2 DEF Counted
<1> QED
  BY <1>3, <1>6, <1>10, <1>11, <1>12, <1>15, <1>16 DEF Reports

(* A handler that tells a build that it finished leaves what is due.       *)
LEMMA FinishReports ==
  ASSUME IInv, Locks, Reports, NEW w \in Worker, HandlerStep(w), ReportBuild(w)
  PROVE  Reports'
<1>1. /\ TypeOK /\ BuildTypeOK /\ HandlerTypeOK
  BY TypeGroups DEF IInv
<1>2. PICK b \in Build : b = data[w] /\ hpc[w] = "finish"
  BY ResultFacts DEF ReportBuild
<1>3. /\ UNCHANGED <<graph, jobs, jobsDoneCnt, buildByJob, spc, pos>>
      /\ status' = [status EXCEPT ![b] = Append(@, BuildFinished)]
  BY <1>2 DEF ReportBuild, Updated, sessionVars
<1>4. \A c \in Build : /\ Finished(c)' <=> Finished(c) \/ c = b
                       /\ Reported(c)' = Reported(c)
                       /\ AllTold(c)' <=> AllTold(c)
                       /\ \A j : Due(c, j)' <=> Due(c, j)
  <2>1. \A c \in Build : (Finished(c)' <=> Finished(c) \/ c = b) /\ Reported(c)' = Reported(c)
    BY <1>1, <1>3, TellsBuild
  <2> QED
    BY <1>3, <2>1 DEF AllTold, Due
<1>5. /\ hpc'[w] \in {"complete", "pick", "respond"}
      /\ \A v \in Worker \ {w} : hpc'[v] = hpc[v] /\ data'[v] = data[v] /\ todo'[v] = todo[v]
  <2>1. \A v \in Worker \ {w} : hpc'[v] = hpc[v] /\ data'[v] = data[v] /\ todo'[v] = todo[v]
    BY <1>1, HandlerFrame DEF Own
  <2>2. ~ReportJob(w)
    BY <1>2 DEF ReportJob
  <2> QED
    BY <2>1, <2>2, HandlerReports
<1>6. \A v \in Worker : \A c, j : Holds(v, c, j)' <=> Holds(v, c, j)
  <2>1. \A c, j : ~Holds(w, c, j)' /\ ~Holds(w, c, j)
    BY <1>2, <1>5 DEF Holds
  <2>2. \A v \in Worker \ {w} : \A c, j : Holds(v, c, j)' <=> Holds(v, c, j)
    BY <1>5 DEF Holds
  <2> QED
    BY <2>1, <2>2
<1>7. WaitsOnce'
  <2>1. \A j \in Job : Range(buildByJob[j]) \subseteq Build
    BY <1>1, RangeFacts DEF BuildTypeOK
  <2> QED
    BY <1>3, <1>4, <2>1 DEF Reports, WaitsOnce
<1>8. HeldOnce'
  BY <1>3, <1>4, <1>6 DEF Reports, HeldOnce
<1>9. QueuesOnce'
  <2> SUFFICES ASSUME NEW c \in Build, spc[c] = "push", NEW i \in pos[c]..Len(graph[c])
               PROVE  /\ graph[c][i] \notin Reported(c)
                      /\ c \notin Range(buildByJob[graph[c][i]])
                      /\ \A v \in Worker : ~Holds(v, c, graph[c][i])'
    BY <1>3, <1>4 DEF QueuesOnce
  <2>1. /\ graph[c][i] \notin Reported(c)
        /\ c \notin Range(buildByJob[graph[c][i]])
        /\ \A v \in Worker : ~Holds(v, c, graph[c][i])
    BY DEF Reports, QueuesOnce
  <2>2. \A v \in Worker : ~Holds(v, c, graph[c][i])'
    BY <1>3, <1>6, <2>1
  <2> QED
    BY <2>1, <2>2
<1>10. Counted'
  <2>1. ASSUME NEW c \in Build
        PROVE  /\ Reported(c)' \subseteq Range(graph'[c])
               /\ jobsDoneCnt'[c] = Cardinality(Reported(c)')
               /\ Finished(c)' => AllTold(c)'
    <3>1. /\ Reported(c) \subseteq Range(graph[c])
          /\ jobsDoneCnt[c] = Cardinality(Reported(c))
          /\ Finished(c) => AllTold(c)
          /\ AllTold(b)
      BY <1>2 DEF Reports, Counted
    <3> QED
      BY <1>3, <1>4, <3>1
  <2>2. ASSUME NEW v \in Worker, hpc'[v] = "finish"
        PROVE  AllTold(data[v])' /\ ~Finished(data[v])'
    <3>1. v # w
      BY <1>5, <2>2
    <3>2. /\ hpc[v] = "finish" /\ data'[v] = data[v] /\ data[v] \in Build
          /\ AllTold(data[v]) /\ ~Finished(data[v])
      BY <1>5, <2>2, <3>1, ResultFacts DEF Reports, Counted
    <3>3. data[v] # b
      BY <1>2, <3>1, <3>2 DEF Locks
    <3>4. status'[data[v]] = status[data[v]]
      BY <1>1, <1>3, <3>2, <3>3 DEF BuildTypeOK
    <3> QED
      BY <1>3, <3>2, <3>4 DEF AllTold, Finished
  <2> QED
    BY <2>1, <2>2 DEF Counted
<1> QED
  BY <1>7, <1>8, <1>9, <1>10 DEF Reports

(* The other steps of a client and a session.                              *)
LEMMA SessionReports ==
  ASSUME IInv, Prepared, Reports, NEW b \in Build, Aside(b) \/ SessionStep(b)
  PROVE  Reports'
<1>1. /\ TypeOK /\ SessionTypeOK
      /\ \A c \in Build \ {b} : spc'[c] = spc[c] /\ pos'[c] = pos[c]
  BY TypeGroups, BuildFrame DEF IInv, BuildStep, Aside, SessionTypeOK
<1>2. UNCHANGED <<hpc, data, todo>>
  BY <1>1, BuildFrame DEF BuildStep, Aside, handlerVars
<1>3. CASE ~PushData(b)
  <2>1. /\ UNCHANGED <<graph, jobs, jobsDoneCnt, status, buildByJob>>
        /\ spc'[b] = "push" => spc[b] = "push" /\ pos'[b] = pos[b]
    <3>1. CASE Aside(b)
      BY <1>1, <3>1 DEF Aside, SessionTypeOK
    <3>2. CASE Started(b) \/ SignalLock(b) \/ SignalDone(b)
      BY <1>1, <3>2 DEF Started, SignalLock, SignalDone, SessionTypeOK
    <3>3. CASE LocateDep(b) \/ ScheduleJob(b) \/ SendJob(b)
      BY <1>1, <3>3 DEF LocateDep, ScheduleJob, SendJob, buildVars, SessionTypeOK
    <3> QED
      BY <1>3, <3>1, <3>2, <3>3 DEF SessionStep
  <2>2. \A w \in Worker : \A c, j : Holds(w, c, j)' <=> Holds(w, c, j)
    BY <1>2 DEF Holds
  <2>3. \A c \in Build : spc'[c] = "push" => spc[c] = "push" /\ pos'[c] = pos[c]
    BY <1>1, <2>1
  <2> QED
    BY <1>1, <1>2, <2>1, <2>2, <2>3, Undisturbed
<1> QED
  BY <1>3, PushReports

(* The steps of a handler and a worker.                                    *)
LEMMA HandlerReportsStep ==
  ASSUME IInv, Prepared, Locks, Reports, NEW w \in Worker,
         HandlerStep(w) \/ WorkerStep(w) \/ WorkerFault(w)
  PROVE  Reports'
<1>1. CASE \/ WorkerStep(w) \/ WorkerFault(w)
           \/ HandlerStep(w) /\ ~ReceiveData(w) /\ ~ReportJob(w) /\ ~ReportBuild(w)
  <2>1. /\ TypeOK /\ UNCHANGED <<graph, jobs, spc, pos>>
        /\ \A v \in Worker \ {w} : hpc'[v] = hpc[v] /\ data'[v] = data[v] /\ todo'[v] = todo[v]
    BY HandlerFrame, WorkerStepFrame DEF IInv, Own, buildVars, sessionVars
  <2>2. /\ UNCHANGED <<jobsDoneCnt, status, buildByJob, data>>
        /\ \/ hpc'[w] = hpc[w] /\ todo'[w] = todo[w]
           \/ /\ hpc[w] \notin {"lock", "report", "finish"}
              /\ hpc'[w] \notin {"lock", "report", "finish"}
           \/ hpc[w] = "lock" /\ hpc'[w] = "report" /\ todo'[w] = todo[w]
    <3>1. CASE WorkerStep(w) \/ WorkerFault(w)
      <4>1. /\ UNCHANGED <<mu, jobsDoneCnt, status, buildByJob, data>>
            /\ \/ UNCHANGED <<hpc, todo>>
               \/ /\ hpc[w] \notin {"lock", "report", "finish"}
                  /\ hpc'[w] \notin {"lock", "report", "finish"}
        BY <3>1, WorkerAside
      <4> QED
        BY <4>1
    <3>2. CASE LockData(w)
      <4>1. HandlerTypeOK
        BY TypeGroups DEF IInv
      <4> QED
        BY <3>2, <4>1 DEF LockData, HandlerTypeOK
    <3>3. CASE /\ HandlerStep(w) /\ ~ReceiveData(w) /\ ~ReportJob(w) /\ ~ReportBuild(w)
               /\ ~LockData(w)
      <4>1. /\ UNCHANGED <<mu, jobsDoneCnt, status, buildByJob, data>>
            /\ hpc[w] \notin {"lock", "report", "finish"}
            /\ hpc'[w] \notin {"lock", "report", "finish"}
        BY <3>3, HandlerAside
      <4> QED
        BY <4>1
    <3> QED
      BY <1>1, <3>1, <3>2, <3>3
  <2>3. \A v \in Worker : \A c, j : Holds(v, c, j)' <=> Holds(v, c, j)
    <3>1. \A c, j : Holds(w, c, j)' <=> Holds(w, c, j)
      BY <2>2 DEF Holds
    <3>2. \A v \in Worker \ {w} : \A c, j : Holds(v, c, j)' <=> Holds(v, c, j)
      BY <2>1 DEF Holds
    <3> QED
      BY <3>1, <3>2
  <2>4. \A v \in Worker : hpc'[v] = "finish" => hpc[v] = "finish" /\ data'[v] = data[v]
    BY <2>1, <2>2
  <2>5. \A c \in Build : spc'[c] = "push" => spc[c] = "push" /\ pos'[c] = pos[c]
    BY <2>1
  <2> QED
    BY <2>1, <2>2, <2>3, <2>4, <2>5, Undisturbed
<1>2. CASE HandlerStep(w) /\ (ReceiveData(w) \/ ReportJob(w) \/ ReportBuild(w))
  BY <1>2, ReceiveReports, TellReports, FinishReports
<1> QED
  BY <1>1, <1>2

-----------------------------------------------------------------------------
(* A handler that is past complete has located the artifact of its job,    *)
(* and nothing forgets a location.                                         *)
LEMMA ReportsLocatedStep ==
  ASSUME IInv, Prepared, ReportsLocated, [Next]_vars
  PROVE  ReportsLocated'
<1>1. /\ TypeOK /\ HandlerTypeOK /\ SchedulerTypeOK
      /\ \A j \in Job : Located(j) => Located(j)'
  BY TypeGroups, PreparedStep DEF IInv
<1> SUFFICES ASSUME NEW w \in Worker, hpc'[w] \in {"receive", "lock", "report", "finish"}
             PROVE  Located(Head(todo[w]).job)'
  BY DEF ReportsLocated
<1>2. ASSUME hpc[w] \in {"receive", "lock", "report", "finish"}, todo'[w] = todo[w]
      PROVE  Located(Head(todo[w]).job)'
  <2>1. PICK j \in Job : j = Head(todo[w]).job /\ Located(j)
    BY <1>2, ResultFacts DEF ReportsLocated
  <2> QED
    BY <1>1, <1>2, <2>1
<1>3. ASSUME hpc'[w] = hpc[w], todo'[w] = todo[w]
      PROVE  Located(Head(todo[w]).job)'
  BY <1>2, <1>3
<1>4. ASSUME NEW b \in Build, BuildStep(b)
      PROVE  UNCHANGED handlerVars
  BY <1>1, <1>4, BuildFrame
<1>5. CASE SchedulerStops \/ UNCHANGED vars
  <2>1. UNCHANGED handlerVars
    BY <1>5 DEF SchedulerStops, StopScheduler, vars, coordVars
  <2> QED
    BY <1>3, <2>1 DEF handlerVars
<1>6. ASSUME NEW v \in Worker, HandlerStep(v) \/ WorkerStep(v) \/ WorkerFault(v)
      PROVE  Located(Head(todo[w]).job)'
  <2>1. CASE v # w
    <3>1. Own(w)' = Own(w)
      BY <1>1, <1>6, <2>1, HandlerFrame, WorkerStepFrame
    <3> QED
      BY <1>3, <3>1 DEF Own
  <2>2. CASE v = w /\ (WorkerStep(w) \/ WorkerFault(w))
    <3>1. ~HeartbeatRequest(w)
      BY <1>1 DEF HeartbeatRequest, Heartbeat, Onward, HandlerTypeOK
    <3>2. UNCHANGED handlerVars
      BY <2>2, <3>1 DEF WorkerStep, WorkerFault, coordVars
    <3> QED
      BY <1>3, <3>2 DEF handlerVars
  <2>3. CASE v = w /\ CompleteJob(w)
    <3>1. /\ hpc[w] = "complete" /\ UNCHANGED todo
          /\ artifactLocations' = [artifactLocations EXCEPT ![Head(todo[w]).job] = Head(todo[w]).at]
      BY <2>3 DEF CompleteJob, OnJobComplete
    <3>2. PICK j \in Job, at \in Worker : j = Head(todo[w]).job /\ at = Head(todo[w]).at
      BY <3>1, ResultFacts
    <3>3. artifactLocations'[j] = at
      BY <1>1, <3>1, <3>2 DEF SchedulerTypeOK
    <3> QED
      BY <3>1, <3>2, <3>3, GraphAssumption DEF Located, LocateArtifact
  <2>4. CASE v = w /\ (ReceiveData(w) \/ LockData(w))
    BY <1>2, <2>4 DEF ReceiveData, LockData
  <2>5. CASE v = w /\ (ReportJob(w) \/ ReportBuild(w))
    <3>1. hpc[w] \in {"report", "finish"} /\ UNCHANGED todo
      BY <2>5, HandlerReports DEF ReportJob, ReportBuild
    <3> QED
      BY <1>2, <3>1
  <2>6. ~PickJob(w) /\ ~PickNil(w, wpc[w] = "dead") /\ ~HeartbeatResponse(w)
    BY <1>1 DEF PickJob, PickNil, HeartbeatResponse, Respond, HandlerTypeOK
  <2>7. ~CheckCache(w)
    BY <1>1 DEF CheckCache, HandOut, Onward, HandlerTypeOK
  <2> QED
    BY <1>6, <2>1, <2>2, <2>3, <2>4, <2>5, <2>6, <2>7 DEF HandlerStep
<1> QED
  BY <1>3, <1>4, <1>5, <1>6 DEF Next, AllReturned, BuildStep, handlerVars

-----------------------------------------------------------------------------
(* Every step keeps ServiceInv.                                            *)
LEMMA ServiceInvStep ==
  ASSUME IInv, Prepared, ServiceInv, [Next]_vars
  PROVE  ServiceInv'
<1>1. TypeOK /\ Locks /\ Reports
  BY DEF IInv, ServiceInv, Reports
<1>2. ReportsLocated'
  BY ReportsLocatedStep DEF ServiceInv
<1>3. SUFFICES Locks' /\ Reports'
  BY <1>2, <1>3 DEF ServiceInv, Reports
<1>4. ASSUME NEW b \in Build, BuildStep(b)
      PROVE  Locks' /\ Reports'
  <2>1. Locks'
    BY <1>1, <1>4, SessionLocks DEF Reports
  <2> QED
    BY <1>1, <1>4, <2>1, BuildSteps, StartReports, SessionReports
<1>5. ASSUME NEW w \in Worker, HandlerStep(w) \/ WorkerStep(w) \/ WorkerFault(w)
      PROVE  Locks' /\ Reports'
  BY <1>1, <1>5, HandlerLocks, HandlerReportsStep
<1>6. CASE SchedulerStops \/ UNCHANGED vars
  <2>1. UNCHANGED <<buildVars, sessionVars, handlerVars>>
    BY <1>6 DEF SchedulerStops, StopScheduler, vars, coordVars
  <2>2. Locks'
    BY <1>1, <2>1 DEF Locks, buildVars, sessionVars, handlerVars
  <2>3. \A w \in Worker : \A b, j : Holds(w, b, j)' <=> Holds(w, b, j)
    BY <2>1 DEF Holds, handlerVars
  <2>4. Reports'
    BY <1>1, <2>1, <2>3, Undisturbed DEF buildVars, sessionVars, handlerVars
  <2> QED
    BY <2>2, <2>4
<1> QED
  BY <1>4, <1>5, <1>6 DEF Next, AllReturned, BuildStep

(* A system that just started has nothing to tell and nobody to tell it to.*)
LEMMA ServiceInvInit == Init => ServiceInv
<1> SUFFICES ASSUME Init PROVE ServiceInv
  OBVIOUS
<1>1. /\ \A w \in Worker : hpc[w] = "idle"
      /\ \A b \in Build : /\ spc[b] = "new" /\ graph[b] = <<>> /\ status[b] = <<>>
                          /\ jobsDoneCnt[b] = 0
      /\ \A j \in Job : buildByJob[j] = <<>>
  BY DEF Init, CoordinatorInit
<1>2. \A b \in Build : Reported(b) = {} /\ ~Finished(b)
  BY <1>1, EmptyFacts DEF Reported, Finished
<1>3. Cardinality({}) = 0
  BY FS_EmptySet
<1>4. Locks /\ ReportsLocated
  BY <1>1 DEF Locks, ReportsLocated
<1>5. WaitsOnce /\ HeldOnce /\ QueuesOnce
  BY <1>1, EmptyFacts DEF WaitsOnce, HeldOnce, QueuesOnce, Holds, IsInjective
<1>6. Counted
  BY <1>1, <1>2, <1>3 DEF Counted
<1> QED
  BY <1>4, <1>5, <1>6 DEF ServiceInv

(* The locks, the channels and the counter of a build agree on what it was *)
(* told and what it is still to be told.                                   *)
THEOREM EachJobIsDueOnce == Spec => []ServiceInv
<1>1. IInv /\ Prepared /\ ServiceInv /\ [Next]_vars => ServiceInv'
  BY ServiceInvStep
<1> QED
  BY <1>1, ServiceInvInit, Invariant, JobsComeAfterTheirDeps, PTL DEF Spec

-----------------------------------------------------------------------------
(***************************************************************************)
(* Nobody is forgotten: the other half of the count in CreditInv.  Nothing *)
(* but a lost worker or a stopped scheduler takes an execution away, so    *)
(* that the builds in a job's channel are as many as its executions.       *)
(***************************************************************************)
(* A job put into a queue, and one taken, as seen from what was there.     *)
LEMMA PutKeepsPlaces ==
  ASSUME NEW S, NEW q \in Seq(S), NEW e \in S, NEW j
  PROVE  /\ Cardinality(Places(Append(q, e), j)) \in Nat
         /\ Cardinality(Places(q, j)) <= Cardinality(Places(Append(q, e), j))
         /\ e.job = j => Cardinality(Places(q, j)) + 1 <= Cardinality(Places(Append(q, e), j))
<1>1. /\ Append(q, e) \in Seq(S)
      /\ DOMAIN Append(q, e) = 1..(Len(q) + 1) /\ DOMAIN q = 1..Len(q)
      /\ \A i \in 1..Len(q) : Append(q, e)[i] = q[i]
      /\ Append(q, e)[Len(q) + 1] = e
      /\ Len(q) \in Nat
  OBVIOUS
<1>2. Places(q, j) \subseteq Places(Append(q, e), j) \ {Len(q) + 1}
  BY <1>1 DEF Places
<1>3. e.job = j => Len(q) + 1 \in Places(Append(q, e), j)
  BY <1>1 DEF Places
<1>4. /\ IsFiniteSet(Places(Append(q, e), j))
      /\ Cardinality(Places(Append(q, e), j)) \in Nat
  BY <1>1, PlacesFinite
<1>5. Cardinality(Places(q, j)) <= Cardinality(Places(Append(q, e), j))
  BY <1>2, <1>4, CountPart
<1>6. e.job = j => Cardinality(Places(q, j)) + 1 <= Cardinality(Places(Append(q, e), j))
  BY <1>2, <1>3, <1>4, CountLess
<1> QED
  BY <1>4, <1>5, <1>6

LEMMA TakeKeepsPlaces ==
  ASSUME NEW S, NEW q \in Seq(S), q # <<>>, NEW j
  PROVE  /\ Cardinality(Places(Tail(q), j)) \in Nat
         /\ Cardinality(Places(q, j)) <= Cardinality(Places(Tail(q), j)) + 1
         /\ Head(q).job # j => Cardinality(Places(q, j)) <= Cardinality(Places(Tail(q), j))
<1>1. /\ Tail(q) \in Seq(S) /\ Head(q) = q[1] /\ 1 \in DOMAIN q
      /\ \A i \in DOMAIN q \ {1} : i \in Nat /\ i - 1 \in DOMAIN Tail(q) /\ Tail(q)[i - 1] = q[i]
  OBVIOUS
<1> DEFINE f == [i \in Places(q, j) \ {1} |-> i - 1]
<1>2. f \in Injection(Places(q, j) \ {1}, Places(Tail(q), j))
  <2>1. f \in [Places(q, j) \ {1} -> Places(Tail(q), j)]
    BY <1>1 DEF Places
  <2>2. \A a, b \in DOMAIN f : f[a] = f[b] => a = b
    BY <1>1 DEF Places
  <2> QED
    BY <2>1, <2>2 DEF Injection, IsInjective
<1>3. /\ IsFiniteSet(Places(q, j)) /\ Cardinality(Places(q, j)) \in Nat
      /\ IsFiniteSet(Places(Tail(q), j)) /\ Cardinality(Places(Tail(q), j)) \in Nat
  BY <1>1, PlacesFinite
<1>4. /\ IsFiniteSet(Places(q, j) \ {1}) /\ Cardinality(Places(q, j) \ {1}) \in Nat
      /\ Cardinality(Places(q, j)) <= Cardinality(Places(q, j) \ {1}) + 1
  <2>1. /\ IsFiniteSet(Places(q, j) \ {1}) /\ Cardinality(Places(q, j) \ {1}) \in Nat
    BY <1>3, CountPart
  <2>2. Places(q, j) \subseteq (Places(q, j) \ {1}) \cup {1}
    OBVIOUS
  <2> QED
    BY <2>1, <2>2, CountMore
<1>5. Head(q).job # j => Cardinality(Places(q, j) \ {1}) = Cardinality(Places(q, j))
  <2>1. Head(q).job # j => Places(q, j) \ {1} = Places(q, j)
    BY <1>1 DEF Places
  <2> QED
    BY <2>1
<1>6. Cardinality(Places(q, j) \ {1}) <= Cardinality(Places(Tail(q), j))
  <2> HIDE DEF f
  <2> QED
    BY <1>2, <1>3, FS_Injection, Zenon
<1> QED
  BY <1>3, <1>4, <1>5, <1>6

(* A handler that takes an execution of the job from the queue has it, and *)
(* none is lost on the way to its worker, if the worker is there.          *)
LEMMA HandlerKeeps ==
  ASSUME IInv, OneAtATime, NEW w \in Worker, NEW j \in Job, HandlerStep(w), wpc[w] # "dead"
  PROVE  /\ Part(w, j) <= Part(w, j)' + 1
         /\ ~(ReceiveData(w) /\ Head(todo[w]).job = j) => Part(w, j) <= Part(w, j)'
         /\ PickJob(w) /\ Head(jobsQue).job = j => Part(w, j) + 1 <= Part(w, j)'
<1>1. /\ SchedulerTypeOK /\ HandlerTypeOK /\ WorkerTypeOK
      /\ OneResult(w) /\ OneJob(w) /\ WorkerWaits(w)
  BY TypeGroups DEF IInv, OneAtATime
<1> USE DEF Given, Running, Built, Processed
<1>2. /\ hpc[w] \notin {"complete", "receive"} => w \notin Processed(j)
      /\ PickJob(w) => hpc[w] = "pick"
      /\ ReceiveData(w) => hpc[w] = "receive"
  BY DEF PickJob, ReceiveData
<1>3. CASE CompleteJob(w) /\ UNCHANGED workerVars
  <2>1. /\ hpc[w] = "complete" /\ hpc'[w] = "receive"
        /\ UNCHANGED <<todo, resp, toRun, picked, wpc, spec, finished>>
    BY <1>1, <1>3 DEF CompleteJob, HandlerTypeOK, workerVars
  <2>2. /\ Given(j)' = Given(j) /\ Running(j)' = Running(j) /\ Built(j)' = Built(j)
        /\ w \in Processed(j) => w \in Processed(j)'
    BY <2>1
  <2> QED
    BY <1>2, <2>1, <2>2 DEF Part
<1>4. CASE ReceiveData(w) /\ UNCHANGED workerVars
  <2>1. /\ hpc[w] = "receive" /\ UNCHANGED <<resp, toRun, picked, wpc, spec, finished>>
    BY <1>1, <1>4 DEF ReceiveData, workerVars
  <2>2. /\ Given(j)' = Given(j) /\ Running(j)' = Running(j) /\ Built(j)' = Built(j)
        /\ w \in Processed(j) => Head(todo[w]).job = j
    BY <2>1
  <2> QED
    BY <1>2, <1>4, <2>1, <2>2 DEF Part
<1>5. CASE /\ LockData(w) \/ ReportJob(w) \/ ReportBuild(w) \/ PickNil(w, wpc[w] = "dead")
           /\ UNCHANGED workerVars
  <2>1. /\ hpc[w] \notin {"complete", "receive"}
        /\ ~PickJob(w)
        /\ UNCHANGED <<resp, toRun, picked, wpc, spec, finished>>
    BY <1>1, <1>5 DEF LockData, ReportJob, ReportBuild, EndResult, PickNil, PickJob, HandlerTypeOK,
                      workerVars
  <2>2. Given(j)' = Given(j) /\ Running(j)' = Running(j) /\ Built(j)' = Built(j)
    BY <2>1
  <2> QED
    BY <1>2, <2>1, <2>2 DEF Part
<1>6. CASE PickJob(w) /\ UNCHANGED workerVars
  <2>1. /\ hpc[w] = "pick" /\ picked[w] = Nil /\ toRun[w] = {} /\ resp[w] = {}
        /\ picked'[w] = Head(jobsQue)
        /\ UNCHANGED <<resp, toRun, wpc, spec, finished>>
    <3>1. slots[w] > 0 /\ slots[w] <= 1 /\ slots[w] \in Nat
      BY <1>1, <1>6 DEF PickJob, OneResult, HandlerTypeOK, IInv, HandlerReady
    <3>2. slots[w] = 1
      BY <3>1
    <3> QED
      BY <1>1, <1>6, <3>2 DEF PickJob, OneResult, WorkerWaits, HandlerTypeOK, workerVars
  <2>2. Head(jobsQue) # Nil
    <3>1. jobsQue \in Seq(JobSpec) /\ jobsQue # <<>>
      BY <1>1, <1>6 DEF SchedulerTypeOK, PickJob, PickJobTake
    <3>2. Head(jobsQue) \in JobSpec
      BY <3>1, TakeFacts
    <3> QED
      BY <3>2, NilAssumption
  <2>3. /\ Running(j)' = Running(j) /\ Built(j)' = Built(j)
        /\ w \notin Given(j) /\ w \notin Processed(j)
        /\ Head(jobsQue).job = j => w \in Given(j)'
    BY <2>1, <2>2
  <2> QED
    BY <1>2, <1>6, <2>1, <2>3 DEF Part
<1>7. CASE CheckCache(w) /\ UNCHANGED workerVars
  <2>1. /\ hpc[w] = "check" /\ picked[w] # Nil
        /\ resp[w] = {} /\ toRun[w] = {} /\ toRun'[w] = {}
        /\ UNCHANGED <<wpc, spec, finished>>
    BY <1>1, <1>7 DEF CheckCache, OneResult, WorkerWaits, IInv, HandlerReady, HandlerTypeOK,
                      workerVars
  <2>2. /\ Running(j)' = Running(j) /\ Built(j)' = Built(j) /\ w \notin Processed(j)
        /\ w \in Given(j) <=> picked[w].job = j
    BY <2>1
  <2>3. CASE Located(picked[w].job)
    <3>1. /\ todo'[w] = <<[job |-> picked[w].job, at |-> LocateArtifact(picked[w].job)]>>
          /\ hpc'[w] = "complete"
      BY <1>1, <1>7, <2>3 DEF CheckCache, HandlerTypeOK
    <3>2. Head(todo'[w]).job = picked[w].job
      BY <3>1
    <3>3. picked[w].job = j => w \in Processed(j)'
      BY <3>1, <3>2
    <3> QED
      BY <1>2, <2>1, <2>2, <3>3 DEF Part
  <2>4. CASE ~Located(picked[w].job)
    <3>1. resp'[w] = {picked[w]}
      BY <1>1, <1>7, <2>1, <2>4 DEF CheckCache, HandlerTypeOK
    <3>2. picked[w].job = j => w \in Given(j)'
      BY <3>1
    <3> QED
      BY <1>2, <2>1, <2>2, <3>2 DEF Part
  <2> QED
    BY <2>3, <2>4
<1>8. CASE HeartbeatResponse(w)
  <2>1. /\ hpc[w] = "respond" /\ toRun[w] = {} /\ wpc[w] = "heartbeat"
        /\ UNCHANGED picked /\ toRun'[w] = resp[w]
    BY <1>1, <1>8 DEF HeartbeatResponse, Respond, ReceiveResponse, WorkerWaits, HandlerTypeOK,
                      WorkerTypeOK
  <2>2. /\ w \in Given(j) => w \in Given(j)'
        /\ w \notin Running(j) /\ w \notin Built(j) /\ w \notin Processed(j)
    BY <2>1
  <2> QED
    BY <1>2, <2>1, <2>2 DEF Part
<1> QED
  BY <1>3, <1>4, <1>5, <1>6, <1>7, <1>8 DEF HandlerStep

(* A worker that does not end has its execution still, or its result.      *)
LEMMA WorkerKeeps ==
  ASSUME IInv, OneAtATime, NEW w \in Worker, NEW j \in Job, WorkerStep(w) \/ WorkerFault(w),
         wpc'[w] # "dead"
  PROVE  Part(w, j) <= Part(w, j)'
<1>1. /\ HandlerTypeOK /\ WorkerTypeOK
      /\ OneResult(w) /\ OneJob(w) /\ WorkerWaits(w)
  BY TypeGroups DEF IInv, OneAtATime
<1> USE DEF Given, Running, Built, Processed
<1>2. CASE HeartbeatRequest(w)
  <2>1. /\ hpc[w] = "idle" /\ wpc[w] = "next" /\ toRun[w] = {} /\ resp[w] = {} /\ picked[w] = Nil
        /\ todo'[w] = [i \in DOMAIN finished[w] |-> [job |-> finished[w][i], at |-> w]]
        /\ finished[w] # <<>> => hpc'[w] = "complete"
    BY <1>1, <1>2 DEF HeartbeatRequest, Heartbeat, SendHeartbeat, Onward, OneResult, HandlerTypeOK,
                      WorkerTypeOK
  <2>2. j \in Range(finished[w]) => finished[w] # <<>> /\ Head(todo'[w]).job = j
    <3> SUFFICES ASSUME j \in Range(finished[w])
                 PROVE  finished[w] # <<>> /\ Head(todo'[w]).job = j
      OBVIOUS
    <3>1. finished[w] \in Seq(Job) /\ Len(finished[w]) <= 1
      BY <1>1 DEF OneJob, WorkerTypeOK
    <3>2. PICK i \in DOMAIN finished[w] : finished[w][i] = j
      BY DEF Range
    <3>3. i = 1 /\ DOMAIN finished[w] = 1..1
      BY <3>1, <3>2
    <3>4. Head(todo'[w]) = todo'[w][1]
      BY <2>1, <3>3
    <3> QED
      BY <2>1, <3>2, <3>3, <3>4
  <2>3. /\ w \notin Given(j) /\ w \notin Running(j) /\ w \notin Processed(j)
        /\ w \in Built(j) => w \in Processed(j)'
    BY <2>1, <2>2
  <2> QED
    BY <2>3 DEF Part
<1>3. CASE TakeJob(w) /\ UNCHANGED <<coordVars, schedVars>>
  <2>1. /\ hpc[w] = "idle" /\ wpc[w] = "next" /\ wpc'[w] = "collect" /\ resp[w] = {} /\ picked[w] = Nil
        /\ spec'[w] \in toRun[w] /\ finished[w] = <<>>
        /\ \A s \in toRun[w] : s = spec'[w]
    BY <1>1, <1>3 DEF TakeJob, OneJob, OneResult, WorkerWaits, WorkerTypeOK
  <2>2. /\ w \in Given(j) => w \in Running(j)'
        /\ w \notin Running(j) /\ w \notin Built(j) /\ w \notin Processed(j)
    BY <2>1, EmptyFacts
  <2> QED
    BY <2>2 DEF Part
<1>4. CASE RunCmds(w) /\ UNCHANGED <<coordVars, schedVars>>
  <2>1. /\ wpc[w] = "run" /\ wpc'[w] = "commit" /\ finished[w] = <<>>
        /\ finished'[w] = <<spec[w].job>>
        /\ UNCHANGED <<hpc, todo, resp, picked, toRun>>
    BY <1>1, <1>4 DEF RunCmds, OneJob, WorkerTypeOK, coordVars, handlerVars
  <2>2. Range(finished'[w]) = {spec[w].job}
    BY <2>1 DEF Range
  <2>3. /\ w \in Running(j) => w \in Built(j)'
        /\ w \notin Built(j)
        /\ Given(j)' = Given(j) /\ Processed(j)' = Processed(j)
    BY <2>1, <2>2, EmptyFacts
  <2> QED
    BY <2>3 DEF Part
<1>5. CASE /\ \/ CollectArtifact(w) \/ DownloadFile(w, files) \/ CreateArtifact(w)
              \/ CommitArtifact(w)
           /\ UNCHANGED <<coordVars, schedVars>>
  <2>1. /\ \/ wpc'[w] = wpc[w] /\ UNCHANGED spec
           \/ wpc[w] = "collect" /\ wpc'[w] = "run" /\ UNCHANGED spec
           \/ wpc[w] = "commit" /\ wpc'[w] = "next"
        /\ UNCHANGED <<hpc, todo, resp, picked, toRun, finished>>
    BY <1>1, <1>5 DEF CollectArtifact, DownloadFile, CreateArtifact, CommitArtifact, RunReturns,
                      WorkerTypeOK, coordVars, handlerVars
  <2>2. /\ w \in Running(j) => w \in Running(j)'
        /\ w \in Built(j) => w \in Built(j)'
        /\ Given(j)' = Given(j) /\ Processed(j)' = Processed(j)
    BY <2>1
  <2> QED
    BY <2>2 DEF Part
<1>6. ~RunReturns(w)
  BY <1>1 DEF RunReturns, WorkerTypeOK
<1> QED
  BY <1>2, <1>3, <1>4, <1>5, <1>6 DEF WorkerStep, WorkerFault, CmdFails, Crash

-----------------------------------------------------------------------------
(* A build that has queued for a job is owed an execution of it, until it  *)
(* schedules the job.                                                      *)
LEMMA StillOwed ==
  ASSUME IInv, Prepared, WaitsOn, NEW b \in Build, NEW j \in Job, readers' = 0,
         BuildStep(b)
  PROVE  /\ Owed(j) \subseteq Owed(j)' \cup {b}
         /\ ~(SendJob(b) /\ Current(b) = j) => Owed(j) \subseteq Owed(j)'
         /\ PushData(b) /\ graph[b][pos[b]] = j => b \in Owed(j)' /\ Owed(j) \subseteq Owed(j)' \ {b}
<1>1. /\ TypeOK /\ BuildTypeOK /\ SessionTypeOK /\ SchedulerTypeOK /\ PreparedAt(b)
      /\ graph[b] \in Seq(Job) /\ jobs[b] \in Seq(Job) /\ pos[b] \in Nat \ {0} /\ readers \in Nat
  BY TypeGroups DEF IInv, Prepared, BuildTypeOK, SessionTypeOK, SchedulerTypeOK
<1>2. Owed(j) \subseteq Owed(j)' \cup {b}
  <2> SUFFICES ASSUME NEW c \in Build \ {b}, c \in Owed(j) PROVE c \in Owed(j)'
    BY DEF Owed
  <2>1. /\ graph'[c] = graph[c] /\ jobs'[c] = jobs[c] /\ spc'[c] = spc[c] /\ pos'[c] = pos[c]
    BY <1>1, BuildFrame
  <2> QED
    BY <2>1 DEF Owed
<1>3. CASE StartBuild(b)
  <2>1. spc[b] = "new"
    BY <1>3 DEF StartBuild
  <2> QED
    BY <1>2, <2>1 DEF Owed, PushData
<1>4. CASE Aside(b)
  <2>1. /\ UNCHANGED <<graph, jobs, pos, arts>>
        /\ spc'[b] = spc[b] \/ (spc[b] = "open" /\ spc'[b] = "lock")
    BY <1>1, <1>4 DEF Aside, SessionTypeOK
  <2>2. b \in Owed(j) => b \in Owed(j)'
    BY <2>1 DEF Owed
  <2>3. ~PushData(b)
    <3>1. pos'[b] # pos[b] + 1
      BY <1>1, <2>1
    <3> QED
      BY <1>1, <3>1 DEF PushData, SessionTypeOK
  <2> QED
    BY <1>2, <2>2, <2>3
<1>5. CASE PushData(b)
  <2>1. /\ spc[b] = "push" /\ pos'[b] = pos[b] + 1 /\ pos[b] \in 1..Len(graph[b])
        /\ UNCHANGED <<graph, jobs, spc>>
    BY <1>1, <1>5 DEF PushData, SessionTypeOK
  <2>2. b \in Owed(j) => b \in Owed(j)'
    BY <1>1, <2>1 DEF Owed
  <2>3. ASSUME graph[b][pos[b]] = j PROVE b \in Owed(j)' /\ b \notin Owed(j)
    <3>1. b \in Owed(j)'
      BY <1>1, <2>1, <2>3 DEF Owed
    <3>2. IsInjective(graph[b])
      BY <1>1, <2>1, GraphAssumption DEF PreparedAt
    <3>3. ASSUME NEW i \in 1..(pos[b] - 1) PROVE graph[b][i] # j
      <4>1. i \in DOMAIN graph[b] /\ pos[b] \in DOMAIN graph[b] /\ i # pos[b]
        BY <1>1, <2>1
      <4> QED
        BY <2>3, <3>2, <4>1 DEF IsInjective
    <3> QED
      BY <2>1, <3>1, <3>3 DEF Owed
  <2> QED
    BY <1>2, <2>2, <2>3
<1>6. CASE Started(b)
  <2>1. /\ spc[b] = "push" /\ spc'[b] = "open" /\ UNCHANGED graph
        /\ pos[b] > Len(graph[b]) /\ pos[b] <= Len(graph[b]) + 1
    BY <1>1, <1>6 DEF Started, SessionTypeOK, WaitsOn
  <2>2. ASSUME NEW i \in 1..(pos[b] - 1) PROVE graph[b][i] \in Range(graph[b])
    <3>1. i \in DOMAIN graph[b]
      BY <1>1, <2>1
    <3> QED
      BY <3>1 DEF Range
  <2>3. b \in Owed(j) => b \in Owed(j)'
    BY <2>1, <2>2 DEF Owed
  <2>4. ~PushData(b)
    <3>1. ~(pos[b] <= Len(graph[b]))
      BY <1>1, <2>1
    <3> QED
      BY <3>1 DEF PushData
  <2> QED
    BY <1>2, <2>3, <2>4
<1>7. CASE SignalLock(b)
  <2>1. /\ spc[b] = "lock" /\ spc'[b] = "deps" /\ pos'[b] = 1 /\ UNCHANGED jobs
    BY <1>1, <1>7 DEF SignalLock, SessionTypeOK
  <2>2. Range(jobs[b]) = Range(graph[b])
    BY <1>1, <2>1, SortedFacts DEF PreparedAt
  <2>3. ASSUME b \in Owed(j) PROVE b \in Owed(j)'
    <3>1. j \in Range(jobs[b])
      BY <2>1, <2>2, <2>3 DEF Owed
    <3>2. PICK i \in 1..Len(jobs[b]) : jobs[b][i] = j
      BY <1>1, <3>1 DEF Range
    <3> QED
      BY <2>1, <3>2 DEF Owed
  <2> QED
    BY <1>2, <2>1, <2>3 DEF PushData
<1>8. CASE LocateDep(b) \/ ScheduleJob(b)
  <2>1. /\ spc[b] = "deps" /\ spc'[b] \in {"deps", "send"} /\ UNCHANGED <<jobs, pos>>
    <3>1. ~ScheduleJobStopped
      BY <1>1 DEF ScheduleJobStopped
    <3> QED
      BY <1>1, <1>8, <3>1 DEF LocateDep, ScheduleJob, SessionTypeOK, buildVars
  <2>2. b \in Owed(j) => b \in Owed(j)'
    BY <2>1 DEF Owed
  <2> QED
    BY <1>2, <2>1, <2>2 DEF PushData
<1>9. CASE SignalDone(b)
  <2>1. spc[b] = "deps" /\ pos[b] > Len(jobs[b])
    BY <1>9 DEF SignalDone
  <2>2. \A i \in pos[b]..Len(jobs[b]) : FALSE
    BY <1>1, <2>1
  <2>3. b \notin Owed(j)
    BY <2>1, <2>2 DEF Owed
  <2> QED
    BY <1>2, <2>1, <2>3 DEF PushData
<1>10. CASE SendJob(b)
  <2>1. /\ spc[b] = "send" /\ spc'[b] = "deps" /\ UNCHANGED jobs /\ pos'[b] = pos[b] + 1
    BY <1>1, <1>10 DEF SendJob, SessionTypeOK, buildVars
  <2>2. ASSUME Current(b) # j, b \in Owed(j) PROVE b \in Owed(j)'
    <3>1. PICK i \in pos[b]..Len(jobs[b]) : jobs[b][i] = j
      BY <2>1, <2>2 DEF Owed
    <3>2. i \in (pos[b] + 1)..Len(jobs[b])
      BY <1>1, <2>2, <3>1 DEF Current
    <3> QED
      BY <2>1, <3>1, <3>2 DEF Owed
  <2> QED
    BY <1>2, <1>10, <2>1, <2>2 DEF PushData
<1> QED
  BY <1>3, <1>4, <1>5, <1>6, <1>7, <1>8, <1>9, <1>10, BuildSteps DEF SessionStep

(* A handler receives a build for one execution only.                      *)
LEMMA SumHolds ==
  ASSUME NEW len \in Nat, NEW owed \in Nat, NEW que \in Nat, NEW out \in Nat,
         len <= owed + que + out,
         NEW len2 \in Int, NEW que2 \in Nat, NEW out2 \in Nat,
         \/ len2 = len /\ que + out <= que2 + out2
         \/ len2 = len - 1 /\ que + out <= que2 + out2 + 1
  PROVE  len2 <= owed + que2 + out2
OBVIOUS

LEMMA HandlerServes ==
  ASSUME IInv, OneAtATime, StartedFinite, NEW w \in Worker, NEW j \in Job, ServedAt(j),
         HandlerStep(w), wpc[w] # "dead"
  PROVE  ServedAt(j)'
<1>1. /\ TypeOK /\ BuildTypeOK
      /\ Cardinality(Owed(j)) \in Nat /\ Cardinality(Queued(j)) \in Nat
      /\ Len(buildByJob[j]) \in Nat /\ buildByJob[j] \in Seq(Build)
      /\ jobsQue \in Seq(JobSpec)
  BY TypeGroups, Terms DEF IInv
<1>2. Owed(j)' = Owed(j)
  BY <1>1, HandlerFrame DEF Owed, sessionVars
<1>3. /\ Out(j) \in Nat /\ Out(j)' \in Nat
      /\ Part(w, j) \in Nat /\ Part(w, j)' \in Nat
      /\ Out(j)' + Part(w, j) = Out(j) + Part(w, j)'
  <2>1. \A v \in Worker \ {w} : Own(v)' = Own(v)
    BY <1>1, HandlerFrame
  <2> QED
    BY <2>1, OutChange
<1>4. /\ Part(w, j) <= Part(w, j)' + 1
      /\ ~(ReceiveData(w) /\ Head(todo[w]).job = j) => Part(w, j) <= Part(w, j)'
      /\ PickJob(w) /\ Head(jobsQue).job = j => Part(w, j) + 1 <= Part(w, j)'
  BY HandlerKeeps
<1> DEFINE len2 == Len(buildByJob[j])'
           que2 == Cardinality(Queued(j))'
           out2 == Out(j)'
<1>5. ASSUME que2 \in Nat,
             \/ len2 = Len(buildByJob[j]) /\ Cardinality(Queued(j)) + Out(j) <= que2 + out2
             \/ /\ len2 = Len(buildByJob[j]) - 1
                /\ Cardinality(Queued(j)) + Out(j) <= que2 + out2 + 1
      PROVE  ServedAt(j)'
  <2>1. Len(buildByJob[j]) <= Cardinality(Owed(j)) + Cardinality(Queued(j)) + Out(j)
    BY DEF ServedAt
  <2>2. len2 <= Cardinality(Owed(j)) + que2 + out2
    <3>1. len2 \in Int /\ out2 \in Nat
      BY <1>1, <1>3, <1>5
    <3> HIDE DEF len2, que2, out2
    <3> QED
      BY <1>1, <1>3, <1>5, <2>1, <3>1, SumHolds
  <2> QED
    BY <1>2, <2>2 DEF ServedAt
<1>6. CASE ReceiveData(w)
  <2>1. hpc[w] = "receive" /\ UNCHANGED jobsQue
    BY <1>6 DEF ReceiveData, schedVars
  <2>2. Queued(j)' = Queued(j)
    BY <2>1 DEF Queued
  <2>3. CASE Head(todo[w]).job = j
    <3>1. buildByJob[j] # <<>> /\ buildByJob'[j] = Tail(buildByJob[j])
      BY <1>1, <1>6, <2>3 DEF ReceiveData, BuildTypeOK
    <3>2. Len(buildByJob'[j]) = Len(buildByJob[j]) - 1
      BY <1>1, <3>1
    <3>3. Out(j) <= Out(j)' + 1
      BY <1>3, <1>4
    <3>4. que2 = Cardinality(Queued(j)) /\ Cardinality(Queued(j)) + Out(j) <= que2 + out2 + 1
      BY <1>1, <1>3, <2>2, <3>3
    <3> QED
      BY <1>1, <1>5, <3>2, <3>4
  <2>4. CASE Head(todo[w]).job # j
    <3>1. buildByJob'[j] = buildByJob[j]
      BY <1>1, <1>6, <2>4 DEF ReceiveData, BuildTypeOK
    <3>2. Out(j) <= Out(j)'
      BY <1>3, <1>4, <2>4
    <3>3. que2 = Cardinality(Queued(j)) /\ Cardinality(Queued(j)) + Out(j) <= que2 + out2
      BY <1>1, <1>3, <2>2, <3>2
    <3> QED
      BY <1>1, <1>5, <3>1, <3>3
  <2> QED
    BY <2>3, <2>4
<1>7. CASE PickJob(w)
  <2>1. /\ jobsQue # <<>> /\ jobsQue' = Tail(jobsQue) /\ UNCHANGED buildByJob
        /\ ~ReceiveData(w)
    BY <1>7 DEF PickJob, PickJobTake, ReceiveData, buildVars
  <2>2. /\ Cardinality(Queued(j)') \in Nat
        /\ Cardinality(Queued(j)) <= Cardinality(Queued(j)') + 1
        /\ Head(jobsQue).job # j => Cardinality(Queued(j)) <= Cardinality(Queued(j)')
    <3>1. Queued(j) = Places(jobsQue, j) /\ Queued(j)' = Places(Tail(jobsQue), j)
      BY <2>1 DEF Queued, Places
    <3> QED
      BY <1>1, <2>1, <3>1, TakeKeepsPlaces
  <2>3. Out(j) <= Out(j)' /\ (Head(jobsQue).job = j => Out(j) + 1 <= Out(j)')
    BY <1>3, <1>4, <1>7, <2>1
  <2>4. Cardinality(Queued(j)) + Out(j) <= Cardinality(Queued(j)') + Out(j)'
    BY <1>1, <1>3, <2>2, <2>3
  <2> QED
    BY <1>5, <2>1, <2>2, <2>4
<1>8. CASE ~ReceiveData(w) /\ ~PickJob(w)
  <2>1. UNCHANGED <<jobsQue, buildByJob>>
    BY <1>8 DEF HandlerStep, HeartbeatResponse, CompleteJob, LockData, ReportJob, ReportBuild,
                PickNil, PickJobNil, CheckCache, Respond, OnJobComplete, buildVars, schedVars
  <2>2. Out(j) <= Out(j)'
    BY <1>3, <1>4, <1>8
  <2>3. Queued(j)' = Queued(j) /\ buildByJob'[j] = buildByJob[j]
    BY <2>1 DEF Queued
  <2>4. que2 = Cardinality(Queued(j)) /\ Cardinality(Queued(j)) + Out(j) <= que2 + out2
    BY <1>1, <1>3, <2>2, <2>3
  <2> QED
    BY <1>1, <1>5, <2>3, <2>4
<1> QED
  BY <1>6, <1>7, <1>8

LEMMA WorkerServes ==
  ASSUME IInv, OneAtATime, StartedFinite, NEW w \in Worker, NEW j \in Job, ServedAt(j),
         WorkerStep(w) \/ WorkerFault(w), wpc'[w] # "dead"
  PROVE  ServedAt(j)'
<1>1. /\ TypeOK
      /\ Cardinality(Owed(j)) \in Nat /\ Cardinality(Queued(j)) \in Nat
      /\ Len(buildByJob[j]) \in Nat
  BY Terms DEF IInv
<1>2. Owed(j)' = Owed(j) /\ UNCHANGED <<jobsQue, buildByJob>>
  BY <1>1, WorkerStepFrame DEF Owed, sessionVars, buildVars, schedVars
<1>3. Out(j) \in Nat /\ Out(j)' \in Nat /\ Out(j) <= Out(j)'
  <2>1. \A v \in Worker \ {w} : Own(v)' = Own(v)
    BY <1>1, WorkerStepFrame
  <2>2. Part(w, j) <= Part(w, j)'
    BY WorkerKeeps
  <2> QED
    BY <2>1, <2>2, OutChange
<1> QED
  BY <1>1, <1>2, <1>3 DEF ServedAt, Queued

(* The job that a build schedules is queued.                               *)
LEMMA BuildServes ==
  ASSUME IInv, Prepared, WaitsOn, StartedFinite, StartedFinite', NEW b \in Build, NEW j \in Job,
         ServedAt(j), readers' = 0,
         BuildStep(b)
  PROVE  ServedAt(j)'
<1>1. /\ TypeOK /\ BuildTypeOK
      /\ IsFiniteSet(Owed(j))
      /\ Cardinality(Owed(j)) \in Nat /\ Cardinality(Queued(j)) \in Nat
      /\ Len(buildByJob[j]) \in Nat /\ buildByJob[j] \in Seq(Build)
      /\ jobsQue \in Seq(JobSpec)
  BY TypeGroups, Terms DEF IInv
<1>2. /\ Owed(j) \subseteq Owed(j)' \cup {b}
      /\ ~(SendJob(b) /\ Current(b) = j) => Owed(j) \subseteq Owed(j)'
      /\ PushData(b) /\ graph[b][pos[b]] = j => b \in Owed(j)' /\ Owed(j) \subseteq Owed(j)' \ {b}
  BY StillOwed
<1>3. Out(j) \in Nat /\ Out(j)' = Out(j)
  <2>1. UNCHANGED <<handlerVars, workerVars>>
    BY <1>1, BuildFrame
  <2>2. /\ Given(j)' = Given(j) /\ Running(j)' = Running(j)
        /\ Built(j)' = Built(j) /\ Processed(j)' = Processed(j)
    BY <2>1 DEF Given, Running, Built, Processed, handlerVars, workerVars
  <2> QED
    BY <1>1, <2>2, Terms DEF Out
<1>4. IsFiniteSet(Owed(j)') /\ Cardinality(Owed(j)') \in Nat
  <2>1. Owed(j)' \subseteq {c \in Build : spc'[c] # "new"}
    BY DEF Owed
  <2>2. IsFiniteSet({c \in Build : spc'[c] # "new"})
    BY DEF StartedFinite
  <2> QED
    BY <2>1, <2>2, CountPart
<1>5. Cardinality(Owed(j)) <= Cardinality(Owed(j)') + 1
  BY <1>2, <1>4, CountMore
<1>6. Owed(j) \subseteq Owed(j)' => Cardinality(Owed(j)) <= Cardinality(Owed(j)')
  BY <1>4, CountPart
<1>7. CASE PushData(b)
  <2>1. spc[b] = "push" /\ UNCHANGED jobsQue
    BY <1>7 DEF PushData, schedVars
  <2>2. Queued(j)' = Queued(j) /\ ~SendJob(b)
    BY <2>1 DEF Queued, SendJob
  <2>3. CASE graph[b][pos[b]] = j
    <3>1. buildByJob'[j] = Append(buildByJob[j], b)
      BY <1>1, <1>7, <2>3 DEF PushData, BuildTypeOK
    <3>2. Len(buildByJob'[j]) = Len(buildByJob[j]) + 1
      BY <1>1, <3>1
    <3>3. Cardinality(Owed(j)) + 1 <= Cardinality(Owed(j)')
      BY <1>2, <1>4, <1>7, <2>3, CountLess
    <3> QED
      BY <1>1, <1>3, <1>4, <2>2, <3>2, <3>3 DEF ServedAt
  <2>4. CASE graph[b][pos[b]] # j
    <3>1. buildByJob'[j] = buildByJob[j]
      BY <1>1, <1>7, <2>4 DEF PushData, BuildTypeOK
    <3>2. Cardinality(Owed(j)) <= Cardinality(Owed(j)')
      BY <1>2, <1>6, <2>2
    <3> QED
      BY <1>1, <1>3, <1>4, <2>2, <3>1, <3>2 DEF ServedAt
  <2> QED
    BY <2>3, <2>4
<1>8. CASE SendJob(b)
  <2>1. /\ spc[b] = "send" /\ UNCHANGED buildByJob
        /\ jobsQue' = Append(jobsQue, [job |-> Current(b), arts |-> arts[b]])
    BY <1>8 DEF SendJob, ScheduleJobSend, buildVars
  <2>2. [job |-> Current(b), arts |-> arts[b]] \in JobSpec
    <3>1. pos[b] \in 1..Len(jobs[b]) /\ jobs[b] \in Seq(Job) /\ arts[b] \in Seq(Worker)
      BY <1>1, <2>1, TypeGroups DEF IInv, SessionReady, ReadyAt, BuildTypeOK, SessionTypeOK
    <3> QED
      BY <3>1 DEF Current, JobSpec
  <2>3. /\ Cardinality(Queued(j)') \in Nat
        /\ Cardinality(Queued(j)) <= Cardinality(Queued(j)')
        /\ Current(b) = j => Cardinality(Queued(j)) + 1 <= Cardinality(Queued(j)')
    <3>1. /\ Queued(j) = Places(jobsQue, j)
          /\ Queued(j)' = Places(Append(jobsQue, [job |-> Current(b), arts |-> arts[b]]), j)
      BY <2>1 DEF Queued, Places
    <3> QED
      BY <1>1, <2>2, <3>1, PutKeepsPlaces
  <2>4. Cardinality(Owed(j)) + Cardinality(Queued(j))
          <= Cardinality(Owed(j)') + Cardinality(Queued(j)')
    <3>1. CASE Current(b) = j
      BY <1>1, <1>4, <1>5, <2>3, <3>1
    <3>2. CASE Current(b) # j
      BY <1>1, <1>2, <1>4, <1>6, <2>3, <3>2
    <3> QED
      BY <3>1, <3>2
  <2> QED
    BY <1>1, <1>3, <1>4, <2>1, <2>3, <2>4 DEF ServedAt
<1>9. CASE ~PushData(b) /\ ~SendJob(b)
  <2>1. UNCHANGED <<jobsQue, buildByJob>>
    BY <1>9, BuildSteps DEF StartBuild, Aside, SessionStep, Started, SignalLock, LocateDep,
                            ScheduleJob, ScheduleJobStopped, SignalDone, buildVars, schedVars
  <2>2. Queued(j)' = Queued(j)
    BY <2>1 DEF Queued
  <2>3. Cardinality(Owed(j)) <= Cardinality(Owed(j)')
    BY <1>2, <1>6, <1>9
  <2> QED
    BY <1>1, <1>3, <1>4, <2>1, <2>2, <2>3 DEF ServedAt
<1> QED
  BY <1>7, <1>8, <1>9

-----------------------------------------------------------------------------
(* Who is in the channel of a job stays there until a handler receives it. *)

(* A step that neither queues for a job, receives a build nor reports.     *)
LEMMA WaitsAside ==
  ASSUME WaitsOn, UNCHANGED <<status, buildByJob>>,
         \A b \in Build : Joined(b)' \subseteq Joined(b),
         \A b \in Build : spc'[b] = "push" => pos'[b] <= Len(graph'[b]) + 1,
         \A w \in Worker : \A b, j : Holds(w, b, j) => Holds(w, b, j)'
  PROVE  WaitsOn'
<1>1. ASSUME NEW b \in Build, NEW j \in Joined(b)' \ Reported(b)' PROVE Awaits(b, j)'
  <2>1. j \in Joined(b) \ Reported(b)
    BY <1>1 DEF Reported
  <2>2. Awaits(b, j)
    BY <2>1 DEF WaitsOn
  <2> QED
    BY <2>2 DEF Awaits
<1> QED
  BY <1>1 DEF WaitsOn

(* The steps of a build and its client.                                    *)
LEMMA BuildWaits ==
  ASSUME IInv, Prepared, WaitsOn, NEW b \in Build, BuildStep(b)
  PROVE  WaitsOn'
<1>1. /\ TypeOK /\ BuildTypeOK /\ SessionTypeOK /\ PreparedAt(b)
      /\ graph[b] \in Seq(Job) /\ pos[b] \in Nat \ {0}
  BY TypeGroups DEF IInv, Prepared, BuildTypeOK, SessionTypeOK
<1>2. /\ UNCHANGED handlerVars
      /\ \A c \in Build \ {b} : /\ graph'[c] = graph[c] /\ spc'[c] = spc[c] /\ pos'[c] = pos[c]
                                /\ Joined(c)' = Joined(c)
  <2>1. /\ UNCHANGED handlerVars
        /\ \A c \in Build \ {b} : /\ graph'[c] = graph[c] /\ spc'[c] = spc[c] /\ pos'[c] = pos[c]
    BY <1>1, BuildFrame
  <2> QED
    BY <2>1 DEF Joined
<1>3. \A w \in Worker : \A c, j : Holds(w, c, j)' <=> Holds(w, c, j)
  BY <1>2 DEF Holds, handlerVars
<1>4. ASSUME UNCHANGED <<status, buildByJob>>, Joined(b)' \subseteq Joined(b),
             spc'[b] = "push" => pos'[b] <= Len(graph'[b]) + 1
      PROVE  WaitsOn'
  <2>1. \A c \in Build : Joined(c)' \subseteq Joined(c)
    BY <1>2, <1>4
  <2>2. \A c \in Build : spc'[c] = "push" => pos'[c] <= Len(graph'[c]) + 1
    BY <1>2, <1>4 DEF WaitsOn
  <2> QED
    BY <1>3, <1>4, <2>1, <2>2, WaitsAside
<1>5. CASE StartBuild(b)
  <2>1. PICK g \in Requests : g = check[b].graph
    BY <1>1, <1>5, StartsRequest
  <2>2. /\ spc'[b] = "push" /\ pos'[b] = 1 /\ graph'[b] = g /\ g \in Seq(Job)
        /\ UNCHANGED <<status, buildByJob>>
    BY <1>1, <1>5, <2>1, GraphAssumption DEF StartBuild, PreparedAt, BuildTypeOK, SessionTypeOK
  <2>3. Joined(b)' = {}
    BY <2>2 DEF Joined
  <2> QED
    BY <1>4, <2>2, <2>3
<1>6. CASE Aside(b)
  <2>1. /\ UNCHANGED <<graph, pos, status, buildByJob>>
        /\ spc'[b] = spc[b] \/ (spc[b] = "open" /\ spc'[b] = "lock")
    BY <1>1, <1>6 DEF Aside, SessionTypeOK
  <2>2. Joined(b)' = Joined(b)
    BY <2>1 DEF Joined
  <2> QED
    BY <1>4, <2>1, <2>2 DEF WaitsOn
<1>7. CASE PushData(b)
  <2>1. PICK k \in Job : k = graph[b][pos[b]]
    BY <1>1, <1>7 DEF PushData
  <2>2. /\ spc[b] = "push" /\ pos[b] <= Len(graph[b]) /\ pos'[b] = pos[b] + 1
        /\ UNCHANGED <<graph, spc, status>>
        /\ buildByJob' = [buildByJob EXCEPT ![k] = Append(@, b)]
    BY <1>1, <1>7, <2>1 DEF PushData, SessionTypeOK
  <2>3. /\ buildByJob \in [Job -> Seq(Build)]
        /\ Range(buildByJob'[k]) = Range(buildByJob[k]) \cup {b}
    <3>1. buildByJob[k] \in Seq(Build) /\ buildByJob'[k] = Append(buildByJob[k], b)
      BY <1>1, <2>2 DEF BuildTypeOK
    <3> QED
      BY <1>1, <3>1, PutFacts DEF BuildTypeOK
  <2>4. \A j : j # k => buildByJob'[j] = buildByJob[j]
    BY <2>2
  <2>5. \A c, j : /\ Awaits(c, j) => Awaits(c, j)'
                  /\ Awaits(b, k)'
    <3>1. Awaits(b, k)'
      BY <2>3 DEF Awaits
    <3>2. ASSUME NEW c, NEW j, Awaits(c, j) PROVE Awaits(c, j)'
      <4>1. \/ c \in Range(buildByJob[j]) /\ c \in Range(buildByJob'[j])
            \/ \E w \in Worker : Holds(w, c, j)'
        BY <1>3, <2>3, <2>4, <3>2 DEF Awaits
      <4> QED
        BY <4>1 DEF Awaits
    <3> QED
      BY <3>1, <3>2
  <2>6. Joined(b)' \subseteq Joined(b) \cup {k}
    <3> SUFFICES ASSUME NEW i \in 1..pos[b], i # pos[b] PROVE graph[b][i] \in Joined(b)
      BY <1>1, <2>1, <2>2 DEF Joined
    <3>1. i \in 1..(pos[b] - 1)
      BY <1>1
    <3> QED
      BY <2>2, <3>1 DEF Joined
  <2>7. \A c \in Build : Reported(c)' = Reported(c)
    BY <2>2 DEF Reported
  <2>8. ASSUME NEW c \in Build, NEW j \in Joined(c)' \ Reported(c)' PROVE Awaits(c, j)'
    <3>1. CASE c = b /\ j = k
      BY <2>5, <3>1
    <3>2. CASE ~(c = b /\ j = k)
      <4>1. j \in Joined(c) \ Reported(c)
        BY <1>2, <2>6, <2>7, <2>8, <3>2
      <4> QED
        BY <2>5, <4>1 DEF WaitsOn
    <3> QED
      BY <3>1, <3>2
  <2>9. \A c \in Build : spc'[c] = "push" => pos'[c] <= Len(graph'[c]) + 1
    <3>1. pos'[b] <= Len(graph'[b]) + 1
      BY <1>1, <2>2
    <3> QED
      BY <1>2, <3>1 DEF WaitsOn
  <2> QED
    BY <2>8, <2>9 DEF WaitsOn
<1>8. CASE Started(b)
  <2>1. /\ spc[b] = "push" /\ spc'[b] = "open" /\ pos[b] > Len(graph[b])
        /\ UNCHANGED <<graph, status, buildByJob>>
    BY <1>1, <1>8 DEF Started, SessionTypeOK
  <2>2. Joined(b)' \subseteq Joined(b)
    <3> SUFFICES ASSUME NEW i \in DOMAIN graph[b] PROVE graph[b][i] \in Joined(b)
      BY <2>1 DEF Joined, Range
    <3>1. i \in 1..(pos[b] - 1)
      BY <1>1, <2>1
    <3> QED
      BY <2>1, <3>1 DEF Joined
  <2> QED
    BY <1>4, <2>1, <2>2
<1>9. CASE SignalLock(b) \/ LocateDep(b) \/ ScheduleJob(b) \/ SendJob(b) \/ SignalDone(b)
  <2>1. /\ spc[b] # "push" /\ spc'[b] # "push" /\ UNCHANGED <<graph, status, buildByJob>>
    BY <1>1, <1>9 DEF SignalLock, LocateDep, ScheduleJob, SendJob, SignalDone, buildVars,
                      SessionTypeOK
  <2>2. Joined(b)' = Joined(b)
    BY <2>1 DEF Joined
  <2> QED
    BY <1>4, <2>1, <2>2
<1> QED
  BY <1>5, <1>6, <1>7, <1>8, <1>9, BuildSteps DEF SessionStep

(* A handler that receives a build has it; one that reports tells it.      *)
LEMMA HandlerWaits ==
  ASSUME IInv, WaitsOn, NEW w \in Worker, HandlerStep(w) \/ WorkerStep(w) \/ WorkerFault(w)
  PROVE  WaitsOn'
<1>1. /\ TypeOK /\ BuildTypeOK /\ HandlerTypeOK
      /\ UNCHANGED <<graph, spc, pos>>
      /\ \A v \in Worker \ {w} : hpc'[v] = hpc[v] /\ data'[v] = data[v] /\ todo'[v] = todo[v]
  BY TypeGroups, HandlerFrame, WorkerStepFrame DEF IInv, Own, buildVars, sessionVars
<1>2. /\ \A b \in Build : Joined(b)' = Joined(b)
      /\ \A b \in Build : spc'[b] = "push" => pos'[b] <= Len(graph'[b]) + 1
      /\ \A v \in Worker \ {w} : \A b, j : Holds(v, b, j)' <=> Holds(v, b, j)
  <2>1. \A b \in Build : Joined(b)' = Joined(b)
    BY <1>1 DEF Joined
  <2>2. \A v \in Worker \ {w} : \A b, j : Holds(v, b, j)' <=> Holds(v, b, j)
    BY <1>1 DEF Holds
  <2> QED
    BY <1>1, <2>1, <2>2 DEF WaitsOn
<1>3. ASSUME UNCHANGED <<status, buildByJob>>,
             \/ hpc'[w] = hpc[w] /\ todo'[w] = todo[w] /\ data'[w] = data[w]
             \/ hpc[w] \notin {"lock", "report"}
             \/ hpc'[w] \in {"lock", "report"} /\ todo'[w] = todo[w] /\ data'[w] = data[w]
      PROVE  WaitsOn'
  <2>1. \A b, j : Holds(w, b, j) => Holds(w, b, j)'
    BY <1>3 DEF Holds
  <2>2. \A v \in Worker : \A b, j : Holds(v, b, j) => Holds(v, b, j)'
    BY <1>2, <2>1
  <2> QED
    BY <1>2, <1>3, <2>2, WaitsAside
<1>4. CASE WorkerStep(w) \/ WorkerFault(w)
  <2>1. /\ UNCHANGED <<status, buildByJob, data>>
        /\ UNCHANGED <<hpc, todo>> \/ hpc[w] \notin {"lock", "report"}
    BY <1>4, WorkerAside
  <2> QED
    BY <1>3, <2>1
<1>5. CASE LockData(w)
  <2>1. /\ UNCHANGED <<status, buildByJob, data, todo>> /\ hpc'[w] = "report"
    BY <1>1, <1>5 DEF LockData, HandlerTypeOK
  <2> QED
    BY <1>3, <2>1
<1>6. CASE /\ HandlerStep(w) /\ ~ReceiveData(w) /\ ~ReportJob(w) /\ ~ReportBuild(w)
           /\ ~LockData(w)
  <2>1. UNCHANGED <<status, buildByJob>> /\ hpc[w] \notin {"lock", "report"}
    BY <1>6, HandlerAside
  <2> QED
    BY <1>3, <2>1
<1>7. CASE ReceiveData(w)
  <2>1. PICK k \in Job : k = Head(todo[w]).job
    BY <1>7, ResultFacts DEF ReceiveData
  <2>2. /\ hpc[w] = "receive" /\ hpc'[w] = "lock" /\ UNCHANGED <<status, todo>>
        /\ data'[w] = Head(buildByJob[k])
        /\ buildByJob[k] \in Seq(Build) /\ buildByJob[k] # <<>>
        /\ buildByJob' = [buildByJob EXCEPT ![k] = Tail(buildByJob[k])]
    BY <1>1, <1>7, <2>1 DEF ReceiveData, BuildTypeOK, HandlerTypeOK
  <2>3. buildByJob'[k] = Tail(buildByJob[k]) /\ \A j : j # k => buildByJob'[j] = buildByJob[j]
    BY <1>1, <2>2 DEF BuildTypeOK
  <2>4. Range(buildByJob[k]) \subseteq Range(Tail(buildByJob[k])) \cup {Head(buildByJob[k])}
    <3> SUFFICES ASSUME NEW i \in DOMAIN buildByJob[k], i # 1
                 PROVE  buildByJob[k][i] \in Range(Tail(buildByJob[k]))
      BY <2>2 DEF Range
    <3>1. i - 1 \in DOMAIN Tail(buildByJob[k]) /\ Tail(buildByJob[k])[i - 1] = buildByJob[k][i]
      BY <2>2
    <3> QED
      BY <3>1 DEF Range
  <2>5. PICK c \in Build : c = Head(buildByJob[k]) /\ Holds(w, c, k)'
    <3>1. Head(buildByJob[k]) \in Build
      BY <2>2, TakeFacts
    <3>2. PICK c \in Build : c = Head(buildByJob[k])
      BY <3>1
    <3>3. Holds(w, c, k)'
      BY <2>1, <2>2, <3>2 DEF Holds
    <3> QED
      BY <3>2, <3>3
  <2>6. ASSUME NEW b, NEW j, Awaits(b, j) PROVE Awaits(b, j)'
    <3>1. CASE \E v \in Worker : Holds(v, b, j)
      <4>1. ~Holds(w, b, j)
        BY <2>2 DEF Holds
      <4> QED
        BY <1>2, <3>1, <4>1 DEF Awaits
    <3>2. CASE b \in Range(buildByJob[j])
      <4>1. b \in Range(buildByJob'[j]) \/ (j = k /\ b = c)
        BY <2>3, <2>4, <2>5, <3>2
      <4> QED
        BY <2>5, <4>1 DEF Awaits
    <3> QED
      BY <2>6, <3>1, <3>2 DEF Awaits
  <2>7. \A b \in Build : Reported(b)' = Reported(b)
    BY <2>2 DEF Reported
  <2> QED
    BY <1>2, <2>6, <2>7 DEF WaitsOn
<1>8. CASE ReportJob(w)
  <2>1. PICK k \in Job, c \in Build : k = Head(todo[w]).job /\ c = data[w] /\ hpc[w] = "report"
    BY <1>8, ResultFacts DEF ReportJob
  <2>2. UNCHANGED buildByJob /\ status' = [status EXCEPT ![c] = Append(@, JobFinished(k))]
    BY <1>8, <2>1 DEF ReportJob, Updated
  <2>3. \A b \in Build : Reported(b)' = Reported(b) \cup (IF b = c THEN {k} ELSE {})
    BY <1>1, <2>2, TellsJob
  <2>4. ASSUME NEW b \in Build, NEW j \in Joined(b)' \ Reported(b)' PROVE Awaits(b, j)'
    <3>1. j \in Joined(b) \ Reported(b) /\ ~(b = c /\ j = k)
      BY <1>2, <2>3, <2>4
    <3>2. Awaits(b, j) /\ ~Holds(w, b, j)
      BY <2>1, <3>1 DEF WaitsOn, Holds
    <3> QED
      BY <1>2, <2>2, <3>2 DEF Awaits
  <2> QED
    BY <1>2, <2>4 DEF WaitsOn
<1>9. CASE ReportBuild(w)
  <2>1. PICK c \in Build : c = data[w] /\ hpc[w] = "finish"
    BY <1>9, ResultFacts DEF ReportBuild
  <2>2. UNCHANGED buildByJob /\ status' = [status EXCEPT ![c] = Append(@, BuildFinished)]
    BY <1>9, <2>1 DEF ReportBuild, Updated
  <2>3. \A b \in Build : Reported(b)' = Reported(b)
    BY <1>1, <2>2, TellsBuild
  <2>4. ASSUME NEW b \in Build, NEW j \in Joined(b)' \ Reported(b)' PROVE Awaits(b, j)'
    <3>1. j \in Joined(b) \ Reported(b)
      BY <1>2, <2>3, <2>4
    <3>2. Awaits(b, j) /\ ~Holds(w, b, j)
      BY <2>1, <3>1 DEF WaitsOn, Holds
    <3> QED
      BY <1>2, <2>2, <3>2 DEF Awaits
  <2> QED
    BY <1>2, <2>4 DEF WaitsOn
<1> QED
  BY <1>4, <1>5, <1>6, <1>7, <1>8, <1>9

LEMMA WaitsOnStep ==
  ASSUME IInv, Prepared, WaitsOn, [Next]_vars
  PROVE  WaitsOn'
<1>1. CASE SchedulerStops \/ UNCHANGED vars
  <2>1. UNCHANGED <<buildVars, sessionVars, handlerVars>>
    BY <1>1 DEF SchedulerStops, StopScheduler, vars, coordVars
  <2>2. /\ \A b \in Build : Joined(b)' = Joined(b)
        /\ \A w \in Worker : \A b, j : Holds(w, b, j)' <=> Holds(w, b, j)
    BY <2>1 DEF Joined, Holds, buildVars, sessionVars, handlerVars
  <2>3. \A b \in Build : spc'[b] = "push" => pos'[b] <= Len(graph'[b]) + 1
    BY <2>1 DEF WaitsOn, buildVars, sessionVars
  <2> QED
    BY <2>1, <2>2, <2>3, WaitsAside DEF buildVars
<1> QED
  BY <1>1, BuildWaits, HandlerWaits DEF Next, AllReturned, BuildStep

-----------------------------------------------------------------------------
(* What was lost stays lost: no worker comes back, and no read lock.       *)
LEMMA NothingComesBack ==
  ASSUME IInv, [Next]_vars, NothingLost'
  PROVE  NothingLost
<1>1. TypeOK /\ WorkerTypeOK /\ SchedulerTypeOK /\ readers' = 0 /\ \A w \in Worker : wpc'[w] # "dead"
  BY TypeGroups DEF IInv, NothingLost, WorkersRun
<1>2. ASSUME NEW w \in Worker, HandlerStep(w) \/ WorkerStep(w) \/ WorkerFault(w)
      PROVE  NothingLost
  <2>1. UNCHANGED readers
    <3>1. CASE WorkerStep(w) \/ WorkerFault(w)
      BY <1>1, <3>1, WorkerStepFrame DEF schedVars
    <3>2. CASE HandlerStep(w)
      BY <3>2 DEF HandlerStep, HeartbeatResponse, CompleteJob, ReceiveData, LockData, ReportJob,
                  ReportBuild, PickJob, PickJobTake, PickNil, PickJobNil, CheckCache, Respond,
                  OnJobComplete, schedVars
    <3> QED
      BY <1>2, <3>1, <3>2
  <2>2. \A v \in Worker \ {w} : wpc'[v] = wpc[v]
    <3>1. \A v \in Worker \ {w} : Own(v)' = Own(v)
      BY <1>1, <1>2, HandlerFrame, WorkerStepFrame
    <3> QED
      BY <3>1 DEF Own
  <2>3. wpc[w] # "dead"
    <3>1. CASE HandlerStep(w)
      BY <1>1, <3>1 DEF HandlerStep, HeartbeatResponse, workerVars
    <3>2. CASE WorkerStep(w) \/ WorkerFault(w)
      BY <1>1, <3>2 DEF WorkerStep, WorkerFault, HeartbeatRequest, SendHeartbeat, TakeJob,
                        CollectArtifact, DownloadFile, CreateArtifact, RunCmds, CommitArtifact,
                        CmdFails, Crash, RunReturns
    <3> QED
      BY <1>2, <3>1, <3>2
  <2> QED
    BY <1>1, <2>1, <2>2, <2>3 DEF NothingLost, WorkersRun
<1>3. ASSUME NEW b \in Build, BuildStep(b)
      PROVE  NothingLost
  <2>1. UNCHANGED wpc
    BY <1>1, <1>3, BuildFrame DEF workerVars
  <2>2. readers' = readers \/ readers' = readers + 1
    BY <1>3, BuildSteps DEF StartBuild, Aside, SessionStep, PushData, Started, SignalLock,
                            LocateDep, ScheduleJob, ScheduleJobStopped, SendJob,
                            ScheduleJobSend, SignalDone, schedVars
  <2>3. readers = 0
    BY <1>1, <2>2 DEF SchedulerTypeOK
  <2> QED
    BY <1>1, <2>1, <2>3 DEF NothingLost, WorkersRun
<1>4. CASE SchedulerStops \/ UNCHANGED vars
  BY <1>1, <1>4 DEF SchedulerStops, StopScheduler, Stop, vars, schedVars, workerVars, NothingLost,
                    WorkersRun
<1> QED
  BY <1>2, <1>3, <1>4 DEF Next, AllReturned, BuildStep

LEMMA LossStep ==
  ASSUME IInv, JobInv, StartedFinite, LossInv, [Next]_vars
  PROVE  StartedFinite' /\ LossInv'
<1>1. OneAtATime /\ Prepared /\ WaitsOn
  BY DEF JobInv, LossInv
<1>2. StartedFinite' /\ WaitsOn'
  BY <1>1, StartedFiniteStep, WaitsOnStep
<1>3. ASSUME NothingLost', NEW j \in Job PROVE ServedAt(j)'
  <2>1. NothingLost
    BY <1>3, NothingComesBack
  <2>2. /\ ServedAt(j) /\ readers' = 0
        /\ \A w \in Worker : wpc[w] # "dead" /\ wpc'[w] # "dead"
    BY <1>3, <2>1 DEF LossInv, NothingLost, WorkersRun
  <2>3. CASE SchedulerStops \/ UNCHANGED vars
    <3>1. UNCHANGED <<coordVars, jobsQue, workerVars>>
      BY <2>3 DEF SchedulerStops, StopScheduler, Stop, vars, schedVars
    <3> QED
      BY <2>2, <3>1 DEF ServedAt, Owed, Queued, Out, Given, Running, Built, Processed, coordVars,
                        buildVars, sessionVars, handlerVars, workerVars
  <2>4. ASSUME NEW b \in Build, BuildStep(b)
        PROVE  ServedAt(j)'
    BY <1>1, <1>2, <2>2, <2>4, BuildServes
  <2>5. ASSUME NEW w \in Worker, HandlerStep(w) \/ WorkerStep(w) \/ WorkerFault(w)
        PROVE  ServedAt(j)'
    BY <1>1, <2>2, <2>5, HandlerServes, WorkerServes
  <2> QED
    BY <2>3, <2>4, <2>5 DEF Next, AllReturned, BuildStep
<1> QED
  BY <1>2, <1>3 DEF LossInv

LEMMA LossInit == Init => LossInv
<1> SUFFICES ASSUME Init PROVE LossInv
  OBVIOUS
<1> USE DEF Init, NewScheduler, CoordinatorInit, WorkerInit
<1>1. \A b \in Build : Joined(b) = {}
  BY EmptyFacts DEF Joined
<1>2. WaitsOn
  BY <1>1 DEF WaitsOn
<1>3. ASSUME NEW j \in Job PROVE ServedAt(j)
  <2>1. /\ Owed(j) = {} /\ Queued(j) = {}
        /\ Given(j) = {} /\ Running(j) = {} /\ Processed(j) = {}
    BY EmptyFacts DEF Owed, Queued, Given, Running, Processed
  <2>2. Built(j) = {}
    BY EmptyFacts DEF Built
  <2>3. Len(buildByJob[j]) = 0
    BY EmptyFacts
  <2> QED
    BY <2>1, <2>2, <2>3, FS_EmptySet DEF ServedAt, Out
<1> QED
  BY <1>2, <1>3 DEF LossInv

LEMMA SomeTerm ==
  ASSUME NEW len \in Nat, len > 0, NEW a \in Nat, NEW b \in Nat, NEW c \in Nat, NEW d \in Nat,
         NEW e \in Nat, NEW f \in Nat, len <= a + b + (c + d + e + f)
  PROVE  a # 0 \/ b # 0 \/ c # 0 \/ d # 0 \/ e # 0 \/ f # 0
OBVIOUS

(* A build that waits for a job has something to wait for.                 *)
LEMMA SomethingComes ==
  ASSUME IInv, StartedFinite, NEW j \in Job, ServedAt(j), buildByJob[j] # <<>>
  PROVE  \E on \in {Owed(j), Queued(j), Given(j), Running(j), Built(j), Processed(j)} : on # {}
<1>1. TypeOK
  BY DEF IInv
<1>2. /\ Cardinality(Owed(j)) \in Nat /\ Cardinality(Queued(j)) \in Nat
      /\ Cardinality(Given(j)) \in Nat /\ Cardinality(Running(j)) \in Nat
      /\ Cardinality(Built(j)) \in Nat /\ Cardinality(Processed(j)) \in Nat
      /\ buildByJob[j] \in Seq(Build)
  BY <1>1, Terms
<1>3. Len(buildByJob[j]) > 0
  BY <1>2
<1>4. \/ Cardinality(Owed(j)) # 0 \/ Cardinality(Queued(j)) # 0
      \/ Cardinality(Given(j)) # 0 \/ Cardinality(Running(j)) # 0
      \/ Cardinality(Built(j)) # 0 \/ Cardinality(Processed(j)) # 0
  <2>1. Len(buildByJob[j]) <= Cardinality(Owed(j)) + Cardinality(Queued(j))
                                + (Cardinality(Given(j)) + Cardinality(Running(j))
                                     + Cardinality(Built(j)) + Cardinality(Processed(j)))
    BY DEF ServedAt, Out
  <2>2. Len(buildByJob[j]) \in Nat
    BY <1>2
  <2> QED
    BY <1>2, <1>3, <2>1, <2>2, SomeTerm
<1>5. Cardinality({}) = 0
  BY FS_EmptySet
<1>6. \/ Owed(j) # {} \/ Queued(j) # {} \/ Given(j) # {} \/ Running(j) # {}
      \/ Built(j) # {} \/ Processed(j) # {}
  <2>1. \A on : Cardinality(on) # 0 => on # {}
    BY <1>5
  <2> QED
    BY <1>4, <2>1
<1> QED
  BY <1>6

(* With one free slot (worker.go:76), as long as no worker's Run ended and *)
(* ScheduleJob refused nothing, no step of the system forgets a build that *)
(* waits for a job (coordinator.go:49-111): it is in a handler's hands for *)
(* the job, or in the job's channel with an execution of the job queued or *)
(* under way, or owed by a build that has yet to schedule it.  This is     *)
(* what there is to BuildCompletes without fairness.                       *)
THEOREM NoBuildIsForgotten ==
  ASSUME FreeSlots = 1
  PROVE  Spec => []NobodyForgotten
<1>1. Init => StartedFinite /\ LossInv
  BY CreditInit, LossInit DEF CreditInv
<1>2. IInv /\ JobInv /\ StartedFinite /\ LossInv /\ [Next]_vars => StartedFinite' /\ LossInv'
  BY LossStep
<1>3. IInv /\ StartedFinite /\ LossInv => NobodyForgotten
  <2> SUFFICES ASSUME IInv, StartedFinite, LossInv, NothingLost,
                      NEW b \in Build, spc[b] # "push", NEW j \in Range(graph[b]) \ Reported(b)
               PROVE  \/ \E w \in Worker : Holds(w, b, j)
                      \/ /\ b \in Range(buildByJob[j])
                         /\ \E on \in {Owed(j), Queued(j), Given(j), Running(j), Built(j),
                                       Processed(j)} : on # {}
    BY DEF NobodyForgotten, NothingLost, WorkersRun
  <2>1. j \in Job
    <3>1. graph[b] \in Seq(Job)
      BY TypeGroups DEF IInv, BuildTypeOK
    <3> QED
      BY <3>1, RangeFacts
  <2>2. Awaits(b, j) /\ ServedAt(j)
    BY <2>1 DEF LossInv, WaitsOn, Joined
  <2>3. ASSUME b \in Range(buildByJob[j])
        PROVE  \E on \in {Owed(j), Queued(j), Given(j), Running(j), Built(j), Processed(j)} :
                 on # {}
    <3>1. buildByJob[j] # <<>>
      BY <2>3, EmptyFacts
    <3> QED
      BY <2>1, <2>2, <3>1, SomethingComes
  <2> QED
    BY <2>2, <2>3 DEF Awaits
<1> QED
  BY <1>1, <1>2, <1>3, Invariant, OneJobAtATime, PTL DEF Spec

-----------------------------------------------------------------------------
(* The refinement, step by step.                                           *)

(* What a BuildService is seen by.                                         *)
LEMMA ServiceStutters ==
  ASSUME UNCHANGED <<graph, artifactLocations, status>>
  PROVE  UNCHANGED Service!vars
BY DEF Service!vars, Located, LocateArtifact, Reported, Finished

(* StartBuild submits the build.                                           *)
LEMMA StartSubmits ==
  ASSUME IInv, Prepared, NEW b \in Build, StartBuild(b)
  PROVE  Service!Submit(b)
<1>1. BuildTypeOK /\ PreparedAt(b)
  BY TypeGroups DEF IInv, Prepared
<1>2. PICK g \in Requests : g = check[b].graph
  BY StartsRequest DEF IInv
<1>3. /\ UNCHANGED <<artifactLocations, status>> /\ graph' = [graph EXCEPT ![b] = g]
      /\ graph[b] = <<>>
  BY <1>1, <1>2 DEF StartBuild, schedVars, PreparedAt
<1>4. /\ \A c \in Build : Range(graph'[c]) = IF c = b THEN Range(g) ELSE Range(graph[c])
      /\ Range(graph[b]) = {}
  BY <1>1, <1>3, EmptyFacts DEF BuildTypeOK
<1>5. Service!JobsOf(g) = Range(g)
  BY DEF Service!JobsOf, Range
<1>6. [c \in Build |-> Range(graph[c])]'
        = [[c \in Build |-> Range(graph[c])] EXCEPT ![b] = Service!JobsOf(g)]
  BY <1>4, <1>5
<1>7. /\ {j \in Job : Located(j)}' = {j \in Job : Located(j)}
      /\ [c \in Build |-> Reported(c)]' = [c \in Build |-> Reported(c)]
      /\ {c \in Build : Finished(c)}' = {c \in Build : Finished(c)}
  BY <1>3 DEF Located, LocateArtifact, Reported, Finished
<1> QED
  BY <1>4, <1>6, <1>7 DEF Service!Submit

(* A handler that locates the artifact of a job does the job.              *)
LEMMA CompleteDoes ==
  ASSUME IInv, Prepared, NEW w \in Worker, HandlerStep(w), CompleteJob(w)
  PROVE  \E j \in Job : Service!Do(j)
<1>1. SchedulerTypeOK /\ HandlerTypeOK
  BY TypeGroups DEF IInv
<1>2. hpc[w] = "complete" /\ UNCHANGED <<graph, status>>
  BY DEF CompleteJob, buildVars
<1>3. PICK j \in Job, at \in Worker : j = Head(todo[w]).job /\ at = Head(todo[w]).at
  BY <1>2, ResultFacts
<1>4. artifactLocations' = [artifactLocations EXCEPT ![j] = at]
  BY <1>3 DEF CompleteJob, OnJobComplete
<1>5. Wanted(j) /\ DepsLocated(j)
  <2>1. todo[w] \in Seq(Result) /\ todo[w] # <<>>
    BY <1>2, ResultFacts
  <2>2. Head(todo[w]) \in Range(todo[w])
    BY <2>1, TakeFacts
  <2>3. j \in UnderWay
    BY <1>3, <2>2 DEF UnderWay, AtWorker
  <2> QED
    BY <2>3 DEF Prepared
<1>6. {k \in Job : Located(k)}' = {k \in Job : Located(k)} \cup {j}
  <2>1. \A k \in Job : artifactLocations'[k] = IF k = j THEN at ELSE artifactLocations[k]
    BY <1>1, <1>4 DEF SchedulerTypeOK
  <2>2. at # Nil
    BY GraphAssumption
  <2> QED
    BY <2>1, <2>2 DEF Located, LocateArtifact
<1>7. Service!JobsOf(Deps[j]) \subseteq {k \in Job : Located(k)}
  <2>1. Deps[j] \in Seq(Job)
    BY GraphAssumption
  <2>2. Range(Deps[j]) \subseteq Job
    BY <2>1, RangeFacts
  <2> QED
    BY <1>5, <2>2 DEF DepsLocated, Service!JobsOf, Range
<1>8. \E b \in Build : j \in [c \in Build |-> Range(graph[c])][b]
  BY <1>5 DEF Wanted
<1>9. /\ [c \in Build |-> Range(graph[c])]' = [c \in Build |-> Range(graph[c])]
      /\ [c \in Build |-> Reported(c)]' = [c \in Build |-> Reported(c)]
      /\ {c \in Build : Finished(c)}' = {c \in Build : Finished(c)}
  BY <1>2 DEF Reported, Finished
<1> QED
  BY <1>6, <1>7, <1>8, <1>9 DEF Service!Do

(* One that reports a job tells the build of it.                           *)
LEMMA ReportTells ==
  ASSUME IInv, Prepared, ServiceInv, NEW w \in Worker, HandlerStep(w), ReportJob(w)
  PROVE  \E b \in Build, j \in Job : Service!Tell(b, j)
<1>1. TypeOK /\ BuildTypeOK /\ hpc[w] = "report" /\ ~CompleteJob(w)
  BY TypeGroups DEF IInv, ReportJob, CompleteJob
<1>2. PICK j \in Job, b \in Build : j = Head(todo[w]).job /\ b = data[w]
  BY <1>1, ResultFacts
<1>3. /\ UNCHANGED <<graph, artifactLocations>>
      /\ status' = [status EXCEPT ![b] = Append(@, JobFinished(j))]
  BY <1>1, <1>2, LocationsFrame DEF ReportJob, Updated
<1>4. Due(b, j) /\ Located(j)
  <2>1. Due(b, j)
    BY <1>2, TellReports DEF ServiceInv, Reports
  <2> QED
    BY <1>1, <1>2, <2>1 DEF ServiceInv, ReportsLocated
<1>5. \A c \in Build : /\ Finished(c)' <=> Finished(c)
                       /\ Reported(c)' = Reported(c) \cup (IF c = b THEN {j} ELSE {})
  BY <1>1, <1>3, TellsJob
<1>6. [c \in Build |-> Reported(c)]'
        = [[c \in Build |-> Reported(c)] EXCEPT ![b] = @ \cup {j}]
  BY <1>5
<1>7. /\ [c \in Build |-> Range(graph[c])]' = [c \in Build |-> Range(graph[c])]
      /\ {k \in Job : Located(k)}' = {k \in Job : Located(k)}
      /\ {c \in Build : Finished(c)}' = {c \in Build : Finished(c)}
  BY <1>3, <1>5 DEF Located, LocateArtifact
<1>8. Service!Tell(b, j)
  BY <1>4, <1>6, <1>7 DEF Service!Tell, Due
<1> QED
  BY <1>8

(* One that reports the build finishes it.                                 *)
LEMMA ReportFinishes ==
  ASSUME IInv, Prepared, ServiceInv, NEW w \in Worker, HandlerStep(w), ReportBuild(w)
  PROVE  \E b \in Build : Service!Finish(b)
<1>1. TypeOK /\ BuildTypeOK /\ hpc[w] = "finish" /\ ~CompleteJob(w)
  BY TypeGroups DEF IInv, ReportBuild, CompleteJob
<1>2. PICK b \in Build : b = data[w]
  BY <1>1, ResultFacts
<1>3. /\ UNCHANGED <<graph, artifactLocations>>
      /\ status' = [status EXCEPT ![b] = Append(@, BuildFinished)]
  BY <1>1, <1>2, LocationsFrame DEF ReportBuild, Updated
<1>4. /\ AllTold(b) /\ ~Finished(b)
      /\ Reported(b) \subseteq Range(graph[b]) /\ jobsDoneCnt[b] = Cardinality(Reported(b))
  BY <1>1, <1>2 DEF ServiceInv, Counted
<1>5. Reported(b) = Range(graph[b]) /\ Range(graph[b]) # {}
  <2>1. graph[b] # <<>> /\ graph[b] \in Requests /\ jobs[b] = TopSort(graph[b], Deps)
    BY <1>4 DEF Prepared, PreparedAt, AllTold
  <2>2. PICK g \in Requests : g = graph[b]
    BY <2>1
  <2>3. /\ g \in Seq(Job) /\ g # <<>> /\ Len(jobs[b]) = Len(g)
        /\ IsFiniteSet(Range(g)) /\ Cardinality(Range(g)) = Len(g)
    BY <2>1, <2>2, SortedFacts
  <2>4. Cardinality(Reported(b)) = Cardinality(Range(g))
    BY <1>4, <2>3 DEF AllTold
  <2>5. Reported(b) = Range(g)
    BY <1>4, <2>2, <2>3, <2>4, FS_Subset
  <2>6. Head(g) \in Range(g)
    BY <2>3, TakeFacts
  <2> QED
    BY <2>2, <2>5, <2>6
<1>6. \A c \in Build : (Finished(c)' <=> Finished(c) \/ c = b) /\ Reported(c)' = Reported(c)
  BY <1>1, <1>3, TellsBuild
<1>7. {c \in Build : Finished(c)}' = {c \in Build : Finished(c)} \cup {b}
  BY <1>6
<1>8. /\ [c \in Build |-> Range(graph[c])]' = [c \in Build |-> Range(graph[c])]
      /\ {k \in Job : Located(k)}' = {k \in Job : Located(k)}
      /\ [c \in Build |-> Reported(c)]' = [c \in Build |-> Reported(c)]
  BY <1>3, <1>6 DEF Located, LocateArtifact
<1>9. Service!Finish(b)
  BY <1>4, <1>5, <1>7, <1>8 DEF Service!Finish
<1> QED
  BY <1>9

LEMMA ServiceStep ==
  ASSUME IInv, Prepared, ServiceInv, [Next]_vars
  PROVE  [Service!Next]_(Service!vars)
<1>1. TypeOK
  BY DEF IInv
<1>2. ASSUME NEW b \in Build, StartBuild(b)
      PROVE  Service!Next
  BY <1>2, StartSubmits DEF Service!Next
<1>3. ASSUME NEW b \in Build, Aside(b) \/ SessionStep(b)
      PROVE  UNCHANGED Service!vars
  <2>1. UNCHANGED <<graph, status>>
    BY <1>3 DEF Aside, SessionStep, PushData, Started, SignalLock, LocateDep, ScheduleJob, SendJob,
                SignalDone, buildVars
  <2>2. UNCHANGED artifactLocations
    BY <1>1, <1>3, BuildFrame DEF Aside, BuildStep, schedVars
  <2> QED
    BY <2>1, <2>2, ServiceStutters
<1>4. ASSUME NEW w \in Worker, HandlerStep(w)
      PROVE  [Service!Next]_(Service!vars)
  <2>1. CASE CompleteJob(w)
    BY <1>4, <2>1, CompleteDoes DEF Service!Next
  <2>2. CASE ReportJob(w)
    BY <1>4, <2>2, ReportTells DEF Service!Next
  <2>3. CASE ReportBuild(w)
    BY <1>4, <2>3, ReportFinishes DEF Service!Next
  <2>4. CASE ~CompleteJob(w) /\ ~ReportJob(w) /\ ~ReportBuild(w)
    <3>1. UNCHANGED <<graph, artifactLocations>>
      BY <1>1, <1>4, <2>4, HandlerFrame, LocationsFrame
    <3>2. UNCHANGED status
      BY <1>4, <2>4, HandlerAside DEF ReceiveData, LockData
    <3> QED
      BY <3>1, <3>2, ServiceStutters
  <2> QED
    BY <2>1, <2>2, <2>3, <2>4
<1>5. ASSUME NEW w \in Worker, WorkerStep(w) \/ WorkerFault(w)
      PROVE  UNCHANGED Service!vars
  <2>1. UNCHANGED <<buildVars, schedVars>>
    BY <1>1, <1>5, WorkerStepFrame
  <2> QED
    BY <2>1, ServiceStutters DEF buildVars, schedVars
<1>6. CASE SchedulerStops \/ UNCHANGED vars
  <2>1. UNCHANGED <<graph, artifactLocations, status>>
    BY <1>6 DEF SchedulerStops, StopScheduler, Stop, vars, coordVars, buildVars, schedVars
  <2> QED
    BY <2>1, ServiceStutters
<1> QED
  BY <1>2, <1>3, <1>4, <1>5, <1>6, BuildSteps DEF Next, AllReturned, BuildStep

(* Whatever the interleaving of builds, heartbeats and workers, whatever   *)
(* is lost or given up, and whatever FreeSlots is: the clients see a       *)
(* BuildService (coordinator.go:44-94, 131-149).                           *)
THEOREM CoordinatorIsABuildService == Spec => ImplementsService
<1>1. Init => Service!Init
  <2> SUFFICES ASSUME Init PROVE Service!Init
    OBVIOUS
  <2>1. /\ \A b \in Build : graph[b] = <<>> /\ status[b] = <<>>
        /\ \A j \in Job : artifactLocations[j] = Nil
    BY DEF Init, CoordinatorInit, NewScheduler
  <2>2. \A b \in Build : Range(graph[b]) = {} /\ Reported(b) = {} /\ ~Finished(b)
    BY <2>1, EmptyFacts DEF Reported, Finished
  <2> QED
    BY <2>1, <2>2 DEF Service!Init, Located, LocateArtifact
<1>2. IInv /\ Prepared /\ ServiceInv /\ [Next]_vars => [Service!Next]_(Service!vars)
  BY ServiceStep
<1> QED
  BY <1>1, <1>2, EachJobIsDueOnce, Invariant, JobsComeAfterTheirDeps, PTL
  DEF Spec, ImplementsService, Service!Spec
=============================================================================
