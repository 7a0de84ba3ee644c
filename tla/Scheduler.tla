----------------------------- MODULE Scheduler -----------------------------
(***************************************************************************)
(* scheduler.Scheduler (distbuild/pkg/scheduler/scheduler.go): one global  *)
(* FIFO queue of pending jobs, the map from a job ID to the worker that    *)
(* holds its artifact, and the stop flag with its read/write lock.  The    *)
(* operations are used by the coordinator's threads (module Coordinator);  *)
(* one that may block is an action that is enabled when it would not.      *)
(***************************************************************************)
EXTENDS BuildGraph

CONSTANT QueCap   \* the capacity of jobsQue, 100 in the code

ASSUME SchedulerAssumption == QueCap \in Nat \ {0}

VARIABLES
  jobsQue,             \* chan *PendingJob
  artifactLocations,   \* sync.Map: job ID -> worker ID
  stopped,             \* stopped, and stoppedCh closed
  readers              \* read locks of stoppedMu never released

schedVars == <<jobsQue, artifactLocations, stopped, readers>>

NewScheduler ==
  /\ jobsQue = <<>>
  /\ artifactLocations = [j \in Job |-> Nil]
  /\ stopped = FALSE
  /\ readers = 0

LocateArtifact(j) == artifactLocations[j]

Located(j) == LocateArtifact(j) # Nil

(* Every result that reaches the coordinator has ExitCode 0: a worker      *)
(* reports no other, and a cached result is a fresh JobResult.             *)
OnJobComplete(w, j) ==
  /\ artifactLocations' = [artifactLocations EXCEPT ![j] = w]
  /\ UNCHANGED <<jobsQue, stopped, readers>>

(* ScheduleJob after Stop: returns nil and keeps the read lock it took.    *)
ScheduleJobStopped ==
  /\ stopped
  /\ readers' = readers + 1
  /\ UNCHANGED <<jobsQue, artifactLocations, stopped>>

(* Slip: a job that finds the queue full is dropped.                       *)
ScheduleJobSendOrDrop(spec) ==
  /\ jobsQue' = IF Len(jobsQue) < QueCap THEN Append(jobsQue, spec) ELSE jobsQue
  /\ UNCHANGED <<artifactLocations, stopped, readers>>

(* The blocking send at the end of ScheduleJob.                            *)
ScheduleJobSend(spec) ==
  /\ Len(jobsQue) < QueCap
  /\ jobsQue' = Append(jobsQue, spec)
  /\ UNCHANGED <<artifactLocations, stopped, readers>>

(* PickJob's select: a job, or nil once the scheduler stopped or the       *)
(* request is cancelled.  When both can proceed, Go takes either.          *)
PickJobTake ==
  /\ jobsQue # <<>>
  /\ jobsQue' = Tail(jobsQue)
  /\ UNCHANGED <<artifactLocations, stopped, readers>>

PickJobNil(cancelled) ==
  /\ stopped \/ cancelled
  /\ UNCHANGED schedVars

(* Stop.  A second call would wait for readers, or close a closed channel; *)
(* nothing in the repository makes one.                                    *)
Stop ==
  /\ ~stopped
  /\ readers = 0
  /\ stopped' = TRUE
  /\ UNCHANGED <<jobsQue, artifactLocations, readers>>

SchedulerTypeOK ==
  /\ jobsQue \in Seq(JobSpec)
  /\ artifactLocations \in [Job -> Worker \cup {Nil}]
  /\ stopped \in BOOLEAN
  /\ readers \in Nat
=============================================================================
