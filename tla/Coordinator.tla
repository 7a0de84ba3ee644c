---------------------------- MODULE Coordinator ----------------------------
(***************************************************************************)
(* dist.Coordinator (distbuild/pkg/dist/coordinator.go) with the scheduler *)
(* and the status writer of a build (distbuild/pkg/api/build_handler.go).  *)
(*                                                                         *)
(* A build has two handler threads, one after the other: StartBuild (and   *)
(* the loop that writes the status updates out), then SignalBuild.  spc[b] *)
(* is where they are.  A worker has one heartbeat handler, hpc[w].  They   *)
(* meet at buildData.mu, the buildByJob channels, the scheduler's queue    *)
(* and the status channel: an action ends wherever one of these can block. *)
(* StartBuild's check for files and the uploads meet at the locks of the   *)
(* file cache, which never block but refuse.                               *)
(***************************************************************************)
EXTENDS Scheduler

CONSTANTS
  Build,     \* the builds, one StartBuild request each
  ChanCap,   \* the capacity of a buildByJob channel, 10 in the code
  UpdsCap,   \* the capacity of a status channel, 100 in the code
  FreeSlots  \* HeartbeatRequest.FreeSlots, 1 in the code (worker.go:76)

FileCheck ==
  [graph : Requests,       \* req.Graph.Jobs
   left : SUBSET File,     \* the source files still to look for
   missing : SUBSET File,  \* needFiles so far
   held : SUBSET File]     \* the one that is being looked for

ASSUME CoordinatorAssumption ==
  /\ Nil \notin Build
  /\ Nil \notin FileCheck
  /\ Build \cap Worker = {}
  /\ ChanCap \in Nat \ {0}
  /\ UpdsCap \in Nat \ {0}
  /\ FreeSlots \in Nat

VARIABLES
  files,        \* the source files in the coordinator's file cache
  check,        \* StartBuild's locals while it looks for files, or Nil
  graph,        \* req.Graph.Jobs of a build
  jobs,         \* buildData.jobs, in topological order
  needFiles,    \* MissingFiles, less what the client has uploaded since
  mu,           \* the thread that holds buildData.mu, or Nil
  jobsDoneCnt,  \* buildData.jobsDoneCnt
  status,       \* every update handed to the status writer of a build
  written,      \* how many of them its handler took from the channel
  stream,       \* the loop of the /build handler is running
  buildByJob,   \* job ID -> channel of the builds that wait for the job
  spc, pos, arts,
    \* StartBuild's and SignalBuild's thread: position in the job list, and
    \* the workers found so far for the dependencies of the job there
  hpc, todo, data, slots, picked, resp
    \* a heartbeat's thread: results left to process, build of the first
    \* one, iterations left, job picked, jobs to run

buildVars == <<graph, jobs, needFiles, mu, jobsDoneCnt, status, written, stream,
               buildByJob>>
sessionVars == <<check, spc, pos, arts>>
handlerVars == <<hpc, todo, data, slots, picked, resp>>
coordVars == <<files, buildVars, sessionVars, handlerVars>>

Result == [job : Job, at : Worker]
JobFinished(j) == [kind |-> "JobFinished", job |-> j]
BuildFinished == [kind |-> "BuildFinished", job |-> Nil]
Update == [kind : {"JobFinished", "BuildFinished"}, job : Job \cup {Nil}]

Finished(b) == BuildFinished \in Range(status[b])
Reported(b) == {j \in Job : JobFinished(j) \in Range(status[b])}

CoordinatorInit ==
  /\ files = {}
  /\ graph = [b \in Build |-> <<>>]
  /\ jobs = [b \in Build |-> <<>>]
  /\ needFiles = [b \in Build |-> {}]
  /\ mu = [b \in Build |-> Nil]
  /\ jobsDoneCnt = [b \in Build |-> 0]
  /\ status = [b \in Build |-> <<>>]
  /\ written = [b \in Build |-> 0]
  /\ stream = [b \in Build |-> FALSE]
  /\ buildByJob = [j \in Job |-> <<>>]
  /\ check = [b \in Build |-> Nil]
  /\ spc = [b \in Build |-> "new"]
  /\ pos = [b \in Build |-> 1]
  /\ arts = [b \in Build |-> <<>>]
  /\ hpc = [w \in Worker |-> "idle"]
  /\ todo = [w \in Worker |-> <<>>]
  /\ data = [w \in Worker |-> Nil]
  /\ slots = [w \in Worker |-> 0]
  /\ picked = [w \in Worker |-> Nil]
  /\ resp = [w \in Worker |-> {}]

-----------------------------------------------------------------------------
(* StartBuild is called with the graph g.                                  *)
CheckFiles(b, g) ==
  /\ spc[b] = "new"
  /\ check[b] = Nil
  /\ check' = [check EXCEPT ![b] =
                 [graph |-> g, left |-> SourceFiles(g), missing |-> {}, held |-> {}]]
  /\ UNCHANGED <<files, buildVars, spc, pos, arts, handlerVars, schedVars>>

(* files.Get of a source file, in the order of a map.  It looks for the    *)
(* file with a read lock, also when the file is not there ...              *)
CheckFile(b) ==
  /\ check[b] # Nil
  /\ check[b].held = {}
  /\ \E f \in check[b].left :
       check' = [check EXCEPT ![b].left = @ \ {f},
                              ![b].missing = @ \cup ({f} \ files),
                              ![b].held = {f}]
  /\ UNCHANGED <<files, buildVars, spc, pos, arts, handlerVars, schedVars>>

(* ... and gives it back, or has its caller do so.  (A file that is being  *)
(* written is locked, and Get fails at once: CheckFile and UnlockFile just *)
(* before StoreFile.)                                                      *)
UnlockFile(b) ==
  /\ check[b] # Nil
  /\ check[b].held # {}
  /\ check' = [check EXCEPT ![b].held = {}]
  /\ UNCHANGED <<files, buildVars, spc, pos, arts, handlerVars, schedVars>>

(* All are looked for: make the build's data and lock it.                  *)
StartBuild(b) ==
  /\ spc[b] = "new"
  /\ check[b] # Nil
  /\ check[b].left = {} /\ check[b].held = {}
  /\ graph' = [graph EXCEPT ![b] = check[b].graph]
  /\ jobs' = [jobs EXCEPT ![b] = TopSort(check[b].graph, Deps)]
  /\ needFiles' = [needFiles EXCEPT ![b] = check[b].missing]
  /\ check' = [check EXCEPT ![b] = Nil]
  /\ mu' = [mu EXCEPT ![b] = b]
  /\ spc' = [spc EXCEPT ![b] = "push"]
  /\ UNCHANGED <<files, jobsDoneCnt, status, written, stream, buildByJob, pos,
                 arts, handlerVars, schedVars>>

(* Slip: the build does not queue for a job that is cached already.        *)
PushDataUncached(b) ==
  /\ spc[b] = "push"
  /\ pos[b] <= Len(graph[b])
  /\ LET j == graph[b][pos[b]]
     IN  IF Located(j) THEN UNCHANGED buildByJob
         ELSE /\ Len(buildByJob[j]) < ChanCap
              /\ buildByJob' = [buildByJob EXCEPT ![j] = Append(@, b)]
  /\ pos' = [pos EXCEPT ![b] = @ + 1]
  /\ UNCHANGED <<files, graph, jobs, needFiles, mu, jobsDoneCnt, status, written,
                 stream, check, spc, arts, handlerVars, schedVars>>

(* One iteration of its loop: the build queues for the result of a job.    *)
PushData(b) ==
  /\ spc[b] = "push"
  /\ pos[b] <= Len(graph[b])
  /\ LET j == graph[b][pos[b]]
     IN  /\ Len(buildByJob[j]) < ChanCap
         /\ buildByJob' = [buildByJob EXCEPT ![j] = Append(@, b)]
  /\ pos' = [pos EXCEPT ![b] = @ + 1]
  /\ UNCHANGED <<files, graph, jobs, needFiles, mu, jobsDoneCnt, status, written,
                 stream, check, spc, arts, handlerVars, schedVars>>

(* Started: the client learns MissingFiles, StartBuild returns and the     *)
(* /build handler enters the loop that writes updates.                     *)
Started(b) ==
  /\ spc[b] = "push"
  /\ pos[b] > Len(graph[b])
  /\ stream' = [stream EXCEPT ![b] = TRUE]
  /\ mu' = [mu EXCEPT ![b] = Nil]
  /\ spc' = [spc EXCEPT ![b] = "open"]
  /\ UNCHANGED <<files, graph, jobs, needFiles, jobsDoneCnt, status, written,
                 buildByJob, check, pos, arts, handlerVars, schedVars>>

(* The loop of the /build handler takes one update from the channel.       *)
WriteStatus(b) ==
  /\ stream[b]
  /\ written[b] < Len(status[b])
  /\ written' = [written EXCEPT ![b] = @ + 1]
  /\ UNCHANGED <<files, graph, jobs, needFiles, mu, jobsDoneCnt, status, stream,
                 buildByJob, sessionVars, handlerVars, schedVars>>

(* ... and returns: the request is cancelled, or the channel is closed and *)
(* empty.                                                                  *)
CloseStream(b, cancelled) ==
  /\ stream[b]
  /\ cancelled \/ (Finished(b) /\ written[b] = Len(status[b]))
  /\ stream' = [stream EXCEPT ![b] = FALSE]
  /\ UNCHANGED <<files, graph, jobs, needFiles, mu, jobsDoneCnt, status, written,
                 buildByJob, sessionVars, handlerVars, schedVars>>

-----------------------------------------------------------------------------
(* SignalBuild holds mu until every job is scheduled.                      *)
SignalBuild(b) ==
  /\ spc[b] = "open"
  /\ spc' = [spc EXCEPT ![b] = "lock"]
  /\ UNCHANGED <<files, buildVars, check, pos, arts, handlerVars, schedVars>>

SignalLock(b) ==
  /\ spc[b] = "lock"
  /\ mu[b] = Nil
  /\ mu' = [mu EXCEPT ![b] = b]
  /\ pos' = [pos EXCEPT ![b] = 1]
  /\ spc' = [spc EXCEPT ![b] = "deps"]
  /\ UNCHANGED <<files, graph, jobs, needFiles, jobsDoneCnt, status, written,
                 stream, buildByJob, check, arts, handlerVars, schedVars>>

(* The job being scheduled.                                                *)
Current(b) == jobs[b][pos[b]]

(* The sleep loop on the next dependency ends: its artifact is located.    *)
LocateDep(b) ==
  /\ spc[b] = "deps"
  /\ pos[b] <= Len(jobs[b])
  /\ Len(arts[b]) < Len(Deps[Current(b)])
  /\ LET dep == Deps[Current(b)][Len(arts[b]) + 1]
     IN  /\ Located(dep)
         /\ arts' = [arts EXCEPT ![b] = Append(@, LocateArtifact(dep))]
  /\ UNCHANGED <<files, buildVars, check, spc, pos, handlerVars, schedVars>>

(* ScheduleJob looks at stopped: a stopped scheduler drops the job, and    *)
(* SignalBuild does not look at the nil it gets.                           *)
ScheduleJob(b) ==
  /\ spc[b] = "deps"
  /\ pos[b] <= Len(jobs[b])
  /\ Len(arts[b]) = Len(Deps[Current(b)])
  /\ \/ /\ ScheduleJobStopped
        /\ pos' = [pos EXCEPT ![b] = @ + 1]
        /\ arts' = [arts EXCEPT ![b] = <<>>]
        /\ UNCHANGED spc
     \/ /\ ~stopped
        /\ spc' = [spc EXCEPT ![b] = "send"]
        /\ UNCHANGED <<pos, arts, schedVars>>
  /\ UNCHANGED <<files, buildVars, check, handlerVars>>

SendJob(b) ==
  /\ spc[b] = "send"
  /\ ScheduleJobSend([job |-> Current(b), arts |-> arts[b]])
  /\ pos' = [pos EXCEPT ![b] = @ + 1]
  /\ arts' = [arts EXCEPT ![b] = <<>>]
  /\ spc' = [spc EXCEPT ![b] = "deps"]
  /\ UNCHANGED <<files, buildVars, check, handlerVars>>

(* Slip: SignalBuild returns without unlocking.                            *)
SignalDoneLocked(b) ==
  /\ spc[b] = "deps"
  /\ pos[b] > Len(jobs[b])
  /\ spc' = [spc EXCEPT ![b] = "signalled"]
  /\ UNCHANGED <<files, buildVars, check, pos, arts, handlerVars, schedVars>>

SignalDone(b) ==
  /\ spc[b] = "deps"
  /\ pos[b] > Len(jobs[b])
  /\ mu' = [mu EXCEPT ![b] = Nil]
  /\ spc' = [spc EXCEPT ![b] = "signalled"]
  /\ UNCHANGED <<files, graph, jobs, needFiles, jobsDoneCnt, status, written,
                 stream, buildByJob, check, pos, arts, handlerVars, schedVars>>

-----------------------------------------------------------------------------
(* Slip: the loop over the free slots does not count them.                 *)
OnwardUncounted(results, left) == IF results # <<>> THEN "complete" ELSE "pick"

(* Where a heartbeat handler goes with these results and iterations left.  *)
Onward(results, left) ==
  IF results # <<>> THEN "complete" ELSE IF left > 0 THEN "pick" ELSE "respond"

(* A heartbeat arrives with the jobs its worker finished.                  *)
Heartbeat(w, finished) ==
  /\ hpc[w] = "idle"
  /\ todo' = [todo EXCEPT ![w] =
                [i \in DOMAIN finished |-> [job |-> finished[i], at |-> w]]]
  /\ slots' = [slots EXCEPT ![w] = FreeSlots]
  /\ resp' = [resp EXCEPT ![w] = {}]
  /\ hpc' = [hpc EXCEPT ![w] = Onward(finished, FreeSlots)]
  /\ UNCHANGED <<files, buildVars, sessionVars, data, picked, schedVars>>

(* processFinishedJob, up to the receive from the job's channel: the       *)
(* artifact is located from here on.                                       *)
CompleteJob(w) ==
  /\ hpc[w] = "complete"
  /\ OnJobComplete(Head(todo[w]).at, Head(todo[w]).job)
  /\ hpc' = [hpc EXCEPT ![w] = "receive"]
  /\ UNCHANGED <<files, buildVars, sessionVars, todo, data, slots, picked, resp>>

(* Receive a build that waits for the job.  The code panics when there is  *)
(* no channel and blocks when it is empty: see CreditForResult.            *)
ReceiveData(w) ==
  /\ hpc[w] = "receive"
  /\ LET j == Head(todo[w]).job
     IN  /\ buildByJob[j] # <<>>
         /\ data' = [data EXCEPT ![w] = Head(buildByJob[j])]
         /\ buildByJob' = [buildByJob EXCEPT ![j] = Tail(@)]
  /\ hpc' = [hpc EXCEPT ![w] = "lock"]
  /\ UNCHANGED <<files, graph, jobs, needFiles, mu, jobsDoneCnt, status, written,
                 stream, sessionVars, todo, slots, picked, resp, schedVars>>

LockData(w) ==
  /\ hpc[w] = "lock"
  /\ mu[data[w]] = Nil
  /\ mu' = [mu EXCEPT ![data[w]] = w]
  /\ hpc' = [hpc EXCEPT ![w] = "report"]
  /\ UNCHANGED <<files, graph, jobs, needFiles, jobsDoneCnt, status, written,
                 stream, buildByJob, sessionVars, todo, data, slots, picked,
                 resp, schedVars>>

(* Updated: a send to the status channel of the build.                     *)
Updated(b, upd) ==
  /\ Len(status[b]) - written[b] < UpdsCap
  /\ status' = [status EXCEPT ![b] = Append(@, upd)]

(* processFinishedJob returns, and with it mu is unlocked.                 *)
EndResult(w) ==
  /\ mu' = [mu EXCEPT ![data[w]] = Nil]
  /\ data' = [data EXCEPT ![w] = Nil]
  /\ todo' = [todo EXCEPT ![w] = Tail(@)]
  /\ hpc' = [hpc EXCEPT ![w] = Onward(Tail(todo[w]), slots[w])]

(* Slip: a build is finished once all its jobs are located.                *)
ReportJobLocated(w) ==
  /\ hpc[w] = "report"
  /\ LET b == data[w]
     IN  /\ Updated(b, JobFinished(Head(todo[w]).job))
         /\ jobsDoneCnt' = [jobsDoneCnt EXCEPT ![b] = @ + 1]
         /\ IF \A j \in Range(jobs[b]) : Located(j)
            THEN hpc' = [hpc EXCEPT ![w] = "finish"] /\ UNCHANGED <<mu, data, todo>>
            ELSE EndResult(w)
  /\ UNCHANGED <<files, graph, jobs, needFiles, written, stream, buildByJob,
                 sessionVars, slots, picked, resp, schedVars>>

ReportJob(w) ==
  /\ hpc[w] = "report"
  /\ LET b == data[w]
     IN  /\ Updated(b, JobFinished(Head(todo[w]).job))
         /\ jobsDoneCnt' = [jobsDoneCnt EXCEPT ![b] = @ + 1]
         /\ IF jobsDoneCnt[b] + 1 = Len(jobs[b])
            THEN hpc' = [hpc EXCEPT ![w] = "finish"] /\ UNCHANGED <<mu, data, todo>>
            ELSE EndResult(w)
  /\ UNCHANGED <<files, graph, jobs, needFiles, written, stream, buildByJob,
                 sessionVars, slots, picked, resp, schedVars>>

ReportBuild(w) ==
  /\ hpc[w] = "finish"
  /\ Updated(data[w], BuildFinished)
  /\ EndResult(w)
  /\ UNCHANGED <<files, graph, jobs, needFiles, jobsDoneCnt, written, stream,
                 buildByJob, sessionVars, slots, picked, resp, schedVars>>

-----------------------------------------------------------------------------
(* One iteration of Heartbeat's loop over the free slots.                  *)
PickJob(w) ==
  /\ hpc[w] = "pick"
  /\ PickJobTake
  /\ picked' = [picked EXCEPT ![w] = Head(jobsQue)]
  /\ slots' = [slots EXCEPT ![w] = @ - 1]
  /\ hpc' = [hpc EXCEPT ![w] = "check"]
  /\ UNCHANGED <<files, buildVars, sessionVars, todo, data, resp>>

PickNil(w, cancelled) ==
  /\ hpc[w] = "pick"
  /\ PickJobNil(cancelled)
  /\ hpc' = [hpc EXCEPT ![w] = "respond"]
  /\ UNCHANGED <<files, buildVars, sessionVars, todo, data, slots, picked, resp>>

(* Slips: a picked job always goes to the worker; only an artifact of this *)
(* very worker counts; the cached result is put down to this worker.       *)
HandOut(w) ==
  /\ resp' = [resp EXCEPT ![w] = @ \cup {picked[w]}]
  /\ hpc' = [hpc EXCEPT ![w] = Onward(<<>>, slots[w])]
  /\ UNCHANGED todo

CheckCacheNever(w) ==
  /\ hpc[w] = "check"
  /\ HandOut(w)
  /\ picked' = [picked EXCEPT ![w] = Nil]
  /\ UNCHANGED <<files, buildVars, sessionVars, data, slots, schedVars>>

CheckCacheHere(w) ==
  /\ hpc[w] = "check"
  /\ LET j == picked[w].job
     IN  IF LocateArtifact(j) = w
         THEN /\ todo' = [todo EXCEPT ![w] = <<[job |-> j, at |-> w]>>]
              /\ hpc' = [hpc EXCEPT ![w] = "complete"]
              /\ UNCHANGED resp
         ELSE HandOut(w)
  /\ picked' = [picked EXCEPT ![w] = Nil]
  /\ UNCHANGED <<files, buildVars, sessionVars, data, slots, schedVars>>

CheckCacheMine(w) ==
  /\ hpc[w] = "check"
  /\ LET j == picked[w].job
     IN  IF Located(j)
         THEN /\ todo' = [todo EXCEPT ![w] = <<[job |-> j, at |-> w]>>]
              /\ hpc' = [hpc EXCEPT ![w] = "complete"]
              /\ UNCHANGED resp
         ELSE HandOut(w)
  /\ picked' = [picked EXCEPT ![w] = Nil]
  /\ UNCHANGED <<files, buildVars, sessionVars, data, slots, schedVars>>

(* A job whose artifact is located by now is finished with the cached      *)
(* result; any other goes to the worker.                                   *)
CheckCache(w) ==
  /\ hpc[w] = "check"
  /\ LET j == picked[w].job
     IN  IF Located(j)
         THEN /\ todo' = [todo EXCEPT ![w] = <<[job |-> j, at |-> LocateArtifact(j)]>>]
              /\ hpc' = [hpc EXCEPT ![w] = "complete"]
              /\ UNCHANGED resp
         ELSE /\ resp' = [resp EXCEPT ![w] = @ \cup {picked[w]}]
              /\ hpc' = [hpc EXCEPT ![w] = Onward(<<>>, slots[w])]
              /\ UNCHANGED todo
  /\ picked' = [picked EXCEPT ![w] = Nil]
  /\ UNCHANGED <<files, buildVars, sessionVars, data, slots, schedVars>>

(* Heartbeat returns resp.                                                 *)
Respond(w) ==
  /\ hpc[w] = "respond"
  /\ resp' = [resp EXCEPT ![w] = {}]
  /\ slots' = [slots EXCEPT ![w] = 0]
  /\ hpc' = [hpc EXCEPT ![w] = "idle"]
  /\ UNCHANGED <<files, buildVars, sessionVars, todo, data, picked, schedVars>>

(* Slip: the file is taken for uploaded and never stored.                  *)
StoreFileLost(b, f) ==
  /\ f \in needFiles[b]
  /\ needFiles' = [needFiles EXCEPT ![b] = @ \ {f}]
  /\ UNCHANGED <<files, graph, jobs, mu, jobsDoneCnt, status, written, stream, buildByJob,
                 sessionVars, handlerVars, schedVars>>

(* A StartBuild has a read lock on the file.                               *)
FileLocked(f) == \E b \in Build : check[b] # Nil /\ f \in check[b].held

(* PUT /file of a missing file, at the moment its write lock is given      *)
(* back; requests for the same file share one write.                       *)
StoreFile(b, f) ==
  /\ f \in needFiles[b]
  /\ f \in files \/ ~FileLocked(f)
  /\ files' = files \cup {f}
  /\ needFiles' = [needFiles EXCEPT ![b] = @ \ {f}]
  /\ UNCHANGED <<graph, jobs, mu, jobsDoneCnt, status, written, stream, buildByJob,
                 sessionVars, handlerVars, schedVars>>

(* ... or Write finds the file locked by a reader, and the answer is 500.  *)
RefuseFile(b, f) ==
  /\ f \in needFiles[b] \ files
  /\ FileLocked(f)
  /\ UNCHANGED <<coordVars, schedVars>>

(* Coordinator.Stop.                                                       *)
StopScheduler ==
  /\ Stop
  /\ UNCHANGED coordVars

-----------------------------------------------------------------------------
BuildTypeOK ==
  /\ graph \in [Build -> Seq(Job)]
  /\ jobs \in [Build -> Seq(Job)]
  /\ needFiles \in [Build -> SUBSET File]
  /\ mu \in [Build -> Build \cup Worker \cup {Nil}]
  /\ jobsDoneCnt \in [Build -> Nat]
  /\ status \in [Build -> Seq(Update)]
  /\ written \in [Build -> Nat]
  /\ stream \in [Build -> BOOLEAN]
  /\ buildByJob \in [Job -> Seq(Build)]

SessionTypeOK ==
  /\ check \in [Build -> FileCheck \cup {Nil}]
  /\ spc \in [Build -> {"new", "push", "open", "lock", "deps", "send", "signalled"}]
  /\ pos \in [Build -> Nat \ {0}]
  /\ arts \in [Build -> Seq(Worker)]

HandlerTypeOK ==
  /\ hpc \in [Worker -> {"idle", "complete", "receive", "lock", "report", "finish",
                         "pick", "check", "respond"}]
  /\ todo \in [Worker -> Seq(Result)]
  /\ data \in [Worker -> Build \cup {Nil}]
  /\ slots \in [Worker -> Nat]
  /\ picked \in [Worker -> JobSpec \cup {Nil}]
  /\ resp \in [Worker -> SUBSET JobSpec]

CoordinatorTypeOK ==
  /\ files \subseteq File
  /\ SchedulerTypeOK
  /\ BuildTypeOK
  /\ SessionTypeOK
  /\ HandlerTypeOK
=============================================================================
