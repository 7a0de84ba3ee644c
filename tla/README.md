# distbuild in TLA+

TLA+ specifications of `distbuild`, the distributed build system of this repository
(`src/distbuild`), with TLC configurations that check them on small instances and TLAPS proofs
of their main invariants. Paths below are relative to `src/distbuild/pkg` unless they say otherwise.

## The system

A *client* sends the coordinator a graph of jobs, uploads the source files the coordinator does not
have, signals that it is done, and waits for the build to finish. The *coordinator* puts the jobs
of a signalled build in a queue, each once its dependencies are computed. *Workers* poll it with
heartbeats: one heartbeat carries the results of the jobs done since the last one and returns the next
job. A worker fetches the artifacts of the dependencies from the workers that have them, the source
files from the coordinator, runs the commands of the job and keeps the result as an artifact.

Inventory, with what makes each part hard and what makes it correct:

| part | state | operations | interacts by | hard | correct when |
|---|---|---|---|---|---|
| build graph, `build/` | none | `TopSort` | called by `StartBuild` | cycles, missing and repeated IDs | every job once, after its dependencies |
| scheduler, `scheduler/` | queue, locations, stop flag | `ScheduleJob`, `PickJob`, `OnJobComplete`, `LocateArtifact`, `Stop` | channel and `sync.Map`, shared by all handlers | blocking send and select, a leaked read lock | a located artifact is where the map says |
| coordinator, `dist/` | builds, their locks and counters, a channel of waiting builds per job | `StartBuild`, `SignalBuild`, `Heartbeat`, `Stop` | HTTP handlers; `buildData.mu`, `buildByJob`, the scheduler, the status channel | every handler blocks on something another one holds; results are given to builds in FIFO order whoever asked | every result finds a build, a build finishes once, after all its jobs |
| status stream, `api/build_handler.go` | a channel, four atomics | `Started`, `Updated`, the loop of `/build` | channel between heartbeat handlers and the `/build` handler | full channel, client gone, close against send | the client reads everything, in order, once |
| client, `client/` | none but its position | `Build` | `/build`, `/file`, `/signal` | gives up at any point | a build that is started is seen through |
| worker, `worker/` | results to report, current job, two caches | `Run` | heartbeat, `/artifact`, `/file` | any error ends it for good; caches of other workers | a job finds its inputs; its artifact is committed before it is reported |
| artifact cache, `artifact/cache.go` | directories on disk, a table of locks in memory | `Get`, `Create`, `commit`, `abort`, `Remove`, `NewCache` | its lock table | the mutex covers the table, not the disk; restarts | readers and writers exclude each other, nothing is half written |
| file transfer, `filecache/` | a cache, singleflight | `PUT`, `GET /file`, `Upload`, `Download` | HTTP, the cache's locks | uploads of one file by several clients, broken off | a 200 means that the file is stored |
| artifact transfer, `artifact/{client,handler}.go`, `tarstream/` | two caches, a response | `Download`, `GET /artifact`, `Send`, `Receive` | HTTP | the other process may be gone, the body cut or spoiled after the 200 | what was fetched is what was stored there; no lock is left behind |
| `build/{id,cmd}.go` | none | conversions | | | not modelled |
| `disttest/`, `api/mock/` | test code | | | | not modelled; read for the wiring |
| grader, `src/tools/testtool/commands/grade.go` and what it calls | a temporary copy, two verdict variables | `testtool grade` | `git`, `rsync`, `go`, the score server | exits from every depth, state that outlives a task, lost reports | a verdict is about its own task; green means that every task passed and is known |
| the rest of `src/tools/testtool` | none | export, listings, sandbox | `go`, `git` | | not modelled |

`PROJECT.json` lists the components with what of each is modelled, and under "hazards" everything
found in the code that is hard to test, at its line, with the properties that cover it.

## The modules

```
TopSort ─┬─ BuildGraph ─┬─ Scheduler ── Coordinator ─┬─ DistBuild ─┬─ MCDistBuild
         │              └─ WorkerLoop ───────────────┘             └─ DistBuildInv ── DistBuildProofs ── JobProofs
         │                              BuildService ◁ (refinement) ── DistBuild
         └─ TopSortSteps ─┬─ MCTopSort
                          └─ TopSortProofs
ArtifactCache ─┬─ ArtifactCacheProofs
               ├─ FileTransfer ── FileTransferProofs   (both proof modules also extend ArtifactCacheProofs)
               └─ Download ────── DownloadProofs
BuildStream ◁ (refinement) ── StatusStream ── StatusStreamProofs
Grade ── GradeProofs
```

- **`BuildGraph`** what all parts share: jobs, files, workers, the graphs a client may send. A job ID is
  a hash of the job's inputs, commands and dependencies (`build/graph.go:7`), so `Deps` and `Inputs`
  are functions of the ID. The source files of a request are those its jobs list.
- **`TopSort`** `build.TopSort` as a recursive function, with the zero value that `jobIDIndex` returns
  for an unknown ID: what a build needs of it, in one step.
- **`TopSortSteps`** the same call as a machine: the loop that fills `jobIDIndex`, the loop over the jobs, and the
  recursion of `visit` as a stack of the calls that are running (`stack`: the job, and its next dependency). A step is one
  round of a loop, one call of `visit` that returns at once or is pushed, or the `append` at its end. It takes any graph:
  with cycles, missing dependencies and IDs that repeat. `MCTopSort` gives it every small one.
- **`Scheduler`** the queue (`jobsQue`), the locations, `stopped` and the read locks that
  `ScheduleJob` leaks after `Stop`.
- **`Coordinator`** one thread per build, which is its `StartBuild` and then its `SignalBuild` handler
  (`spc`, `pos`, `arts`), one thread per worker, its heartbeat handler (`hpc`, `todo`, `data`, `slots`,
  `picked`, `resp`), and the loop of the `/build` handler (`written`, `stream`). An action ends where
  the code can block: a lock of `buildData.mu`, a send to or receive from `buildByJob`, the job queue or
  the status channel, the sleep on a dependency. What the code does between two such points is one action.
  Locks of the file cache do not block but refuse, and they are the other place where threads meet: `StartBuild` looks for one source
  file at a time (`check`: its locals; `CheckFile`, `UnlockFile`) with a read lock on it, and an upload of that file in between is
  answered with 500 (`RefuseFile` in place of `StoreFile`).
- **`WorkerLoop`** `Worker.Run`, from heartbeat to commit, and the caches of all workers. Every error return
  is `RunReturns`: nothing restarts a worker and nothing is reported.
- **`DistBuild`** puts them together with `client.Build`, which returns when an upload is refused. `Faults` says which of the things from outside that need not
  happen may happen: a client gives up before or after its signal, a command fails, a worker is lost, the
  scheduler is stopped.
- **`BuildService`** what the coordinator promises its clients, with no workers, queue, channels or locks.
  `DistBuild!ImplementsService` is the refinement: `wanted` are the jobs of the request, `done` the located
  ones, `told` and `over` are read off the status stream. Its `Tell` may tell a build of a job that another
  build had computed, even before its own client has signalled: that is what the code does.
- **`StatusStream`** the writer of `/build` and its handler: two goroutines, a channel and four atomics
  (`startedWriting`, `buildStarted`, `buildFinished`, `closed`), every access of which is a step. `at` says what a goroutine does
  next, `upd` what it hands over, `body` what is written. The service behind it is the coordinator (`"background"`: heartbeats send
  the updates) or one as in `api/build_test.go` (`"inline"`: `StartBuild` sends them itself, and may fail at any point).
  `Coordinator` has all this as one step with a channel that fills; this module is why it may.
- **`BuildStream`** what a client of `/build` may count on: an error, or `Started` and then updates in order, none lost while it is
  there, and an end not before the last of them. `StatusStream!ImplementsStream` is the refinement; `sent` is what is written
  and what waits in the channel.
- **`ArtifactCache`** `artifact.Cache`, cut where the mutex of the lock table is released: an operation
  takes its lock, touches the disk and gives the lock back in separate steps. `Restart(lost)` is the end of the
  processes whose caches hold the IDs in `lost`, followed by `NewCache` on the same roots. A directory holds nothing, a part, the
  whole, or what an unfinished `Remove` left.
- **`FileTransfer`** the file cache of the coordinator between the `PUT /file` handlers, which singleflight
  joins, and its readers. Uploads break off, and the disk fails in `Create`, in `os.Create` (where the nil `abort` panics and
  the file stays locked) and in the writes. singleflight itself is not in the repository: `Do` and `Finish` model it from its use.
- **`Download`** a worker that fetches an artifact (`kind = "artifact"`) from another worker, or a file from the coordinator, over
  `ArtifactCache`. ID has the same artifact twice, once in each cache: `Local` and `Remote`. `resp` is the response as the client
  sees it: no header yet, a part of the body, the whole, one that an unfinished `Remove` left cut, an error status, an error text in place of
  the rest, or a lost connection. `Receives` and `ReceiveBody` say which of these `tarstream.Receive` notices. The server's Get,
  `Send` and deferred unlock, and the fetcher's Get, `Create`, `Receive`, commit or abort, and second Get, are steps of their own.
- **`Grade`** `testtool grade`, one process: which tasks the changed files touch, and per task the copy, the build, the tests of each
  package, coverage and linter, and the report with its retries. A submission is what is wrong with it (`defect`). `tmp` says
  whose files of each class (`Class`) are in the copy; the student's own tests find nothing.
- **`DistBuildInv`** the inductive invariants of `DistBuild`; those of the other modules stand at their ends. The modules whose
  names end with **`Proofs`** hold the lemmas and theorems, one module per subject.

Definitions that begin with "Slip" are plausible mistakes in the definition next to them (a dropped check, a
lost unlock, a swapped order). No specification uses them. They are there to see that each property notices
a mistake: `PROJECT.json` lists under "mutants" which one each property must catch.

### Abstractions

- Contents of files, artifacts, commands and results are not modelled (in `Download` only whether they are whole), so neither are JSON, HTTP status codes and
  templates. Every reported result has exit code 0: `Run` reports no other (`worker/worker.go:233-238`).
- The commands of a job and all work on the temporary directory are one step, which succeeds or fails.
- An artifact or a file enters a worker's cache in one step of `WorkerLoop`, and the coordinator's in one step of
  `Coordinator`, which is refused while a `StartBuild` has its lock on the file; `Download` and `FileTransfer` are the detailed account of these
  steps. An upload that breaks off, or fails at the coordinator's disk, is the fault `"abandon"`.
- In `Download` the server is taken to have written what its client does not read, and what hangs without being cut
  is left out: no timeout of the code would end it. The deferred `Close` of a file that was aborted (`filecache/client.go:99`) is no step:
  there is nothing left to commit, and no other writer at a worker whose lock it could release.
- Map iteration (`JobsToRun`, `spec.Artifacts`, `spec.SourceFiles`) is a choice of any element.
- A worker that is `"dead"` may still serve its artifacts or not (`DownloadFails` allows both): in the tests worker
  and server are one process, in general they need not be.
- The read locks that `Run` keeps on artifacts are left out: they would matter only to `Remove`, which nothing calls.
- Requests are acyclic and hold each job once, with its dependencies (`TopSortAssumption`). What `TopSort` does with
  other graphs is the subject of `TopSortSteps`.

## Runs

| run | instance | checks |
|---|---|---|
| `safety` | 2 builds, 2 workers, job `j2` needs `j1`, both need the same source file; requests for `j1` alone or both; queue of 1, status channel of 2; uploads refused, clients abandon and time out, commands fail | types, `LocatedStored`, `SpecsRunnable`, `RunOnce`, `CreditForResult`, `WorkersEndFor`, the refinement |
| `crash` | 2 builds of both jobs, 2 workers that may be lost at any step, `Stop` | `LocatedStored`, `SpecsRunnable`, `RunOnce`, `CreditForResult`, `NobodyForgotten` |
| `liveness` | 2 builds of both jobs, 2 workers, a file that both clients may have to upload, nothing that fails from outside, a queue and status channels of 2, which fill | `BuildCompletes` |
| `topsort` | a call on each graph of at most 4 jobs, with at most 2 dependencies of a job and 5 of all; the IDs, of which only equality matters, in the order in which they first occur | `EveryJobSorted`, `DepsSortedFirst`, `RecursionBounded`, `ReturnsTopSort`, `Returns` |
| `artifact_cache` | `Download`: fetcher, server and 2 other users of the 2 caches; the connection is cut, reading and writing fail, either process restarts | types, `LocksExclude`, `NeverHalfWritten`, `FreshDir`, `ReadersUndisturbed`, `DownloadedWhole`, `JustDownloadedFound`, `ServerUnlocks`, `FetchEnds` |
| `file_transfer` | 3 uploads of 2 files, 1 reader, failing bodies and a disk that fails at each step | types, `OkIsStored`, `UploadReturns` |
| `status_stream` | up to 4 updates and a final one, a channel of 3, both kinds of service, errors of `StartBuild` at any point, a client that leaves at any point | types, `NoPanic`, the refinement, `StreamEnds`, `UpdatedReturns`, `ClientAnswered` |
| `grade` | every commit of at most 2 files, 2 tasks, 2 packages (one without benchmarks), every pair of defects, a server that loses requests and answers | types, `VerdictRight`, `GreenMeansPassed`, `GradeEnds` |

Why these bounds: two builds and two workers are the least in which a result computed for one build goes to another, the
same job is run twice at a time, a worker fetches an artifact from another one, and an upload meets the other client's `StartBuild`. A queue of 1 and a status
channel of 2 make both block. One job that needs another gives every kind of step of `SignalBuild`. `Build` and `Worker` are
symmetric sets where no liveness is checked.
In `liveness` the queue holds as many jobs as there are workers; with room for one only (`QueCap = 1`) `BuildCompletes` fails,
see below. A status channel of 3 fills before the handler reads it and while a heartbeat sends; 4 updates leave one that must
wait. `WorkersEndFor` is checked where two jobs share a file, since that ends workers and they pull down others. Four jobs with five dependencies in all hold a diamond, a cycle with a way in and a way out, and a dependency on a
job that is not there next to one that is. Two other users of the caches are the least with two readers and a writer beside the fetch. Two tasks
show what one leaves to the next, and two packages whether a task is tested to its end.
In `safety` and `crash` deadlock is not checked because the system may really stop there (a full queue, an abandoned
build, lost workers), in `liveness` because a client whose upload was refused leaves its build behind; in `topsort` because the call returns; in `file_transfer` because all uploads are
answered in the end and a file may stay locked; in `status_stream` and `grade` because they end.
The refinement is checked in `safety` only, since it doubles the time of a run; adding `PROPERTIES ImplementsService` to
`Crash.cfg` checks it with lost workers and a stopped scheduler too. No run mixes the faults of the two.

The other four runs check a promise of a document, a comment or the API that the code does not keep, on the smallest instance
that shows it. Each is a finding in `PROJECT.json`:

| run | what happens |
|---|---|
| `chain_deadlock` | `SignalBuild` holds `buildData.mu` while it waits for a dependency; the handler that brings the result of an earlier job waits for `mu` and does not get to `PickJob`. One worker and a chain of three jobs stop for good; so do n workers and n+2 jobs. |
| `abandoned` | Nothing fails from outside. The upload of one client meets the lock of the other one's `StartBuild`, and the client returns; its build stays first in the queues for its jobs and takes the results of the other build, which is signalled and never finishes. |
| `upload_race` | The check for a file in `StartBuild` makes another client's upload of it fail, here among the steps of the cache and of singleflight. |
| `small_file` | `Send` fails to open a file that is shorter than the text of the error: the text passes for the file and the end of the response for the end of the archive, and `Download` commits it. |

`BuildCompletes` is stated with the first two of these in mind: a build that starts is completed unless some upload is refused, its own or that
of the other client, and the instance has as many workers as its chain of jobs needs.

`WorkersEndFor` says why a worker's `Run` may end while no process is lost: a command of its job failed; the worker with an artifact it needs has ended;
or an earlier job brought a source file of this one, which `filecache.Client.Download` does not expect (`filecache/client.go:93`). The
code does end workers in each of these ways, and no document says it should not. What the property excludes is every other way through the error
returns of `worker/worker.go:99-149`: an artifact or a file that is not where the spec says, or an artifact of the job that is there before it runs.

Three more consequences of the code are in the model but have no run of their own: a full queue stops the system in the same way as
the chain (the comment at `scheduler/scheduler.go:47` promises a next `PickJob`); a build whose worker ended is never told; and updates that nobody
reads any more hold a heartbeat handler for ever.

### Fairness

`FairSpec` has weak fairness of the steps of every client that is building, every handler, every status loop and every worker:
the Go runtime runs every goroutine that can run, `sync.Mutex` and channels let nobody wait for ever while others
pass, HTTP requests arrive and commands terminate. It asks for no client to start and no fault to happen. Weak fairness
of a handler as a whole is enough because at each position a thread has one operation to do; `PickJob` is
a receive, and Go serves the receivers of a channel in the order they came. In `FileTransfer` only the `PUT` handlers are
fair: readers may come and go for ever.

`chain_deadlock` and `abandoned` use `FairSpec`, so that a build that does not finish there has no unfair schedule to blame. `liveness` needs
less: `ProgressSpec` only says that as long as some thread can go on, one of them does (`ThreadStep`).
Every thread waits for something sooner or later (a heartbeat for a job), so no thread can run for ever in place of the others.

In `StatusStream` the handler, a heartbeat inside `Updated` and the delivery of what was flushed are fair; that a heartbeat
comes with a result, or that the client leaves, is not asked for. In `Download` the fetcher and the server are fair, and the body has an
end; cuts, restarts and the other users are not asked for. `Grade` is sequential: weak fairness of `Next`, since a test
binary has a timeout of its own. `TopSortSteps` is too: a function that waits for nothing.

## Proofs

Eight modules of proofs, checked by TLAPS. `PROJECT.json` lists the theorems with the property that each states. What follows
names the inductive invariant behind them and why the property alone does not do. TLC checked every one of these invariants on the
instance of the run of its module before it was proved (`SortInv` with three dependencies in all).

**`DistBuildProofs`**, for any sets of jobs and files, finitely many workers, any builds, dependencies, capacities and faults:

- `TypeCorrect`: `TypeOK`;
- `ArtifactsAreWhereLocated`: `LocatedStored`. A job may be computed on two workers and its location overwritten,
  its build abandoned, its worker lost: the location always names a worker whose cache has the artifact;
- `JobsFindTheirInputs`: `SpecsRunnable`. From the queue to the commands, a job spec names workers that have the
  artifacts, and the source files are at the coordinator.

None of them is inductive alone. `IInv` adds what each thread relies on where it is: the handler has what it is about to use
(`HandlerReady`), so has the worker (`WorkerReady`); `SignalBuild` has found every dependency up to `Len(arts[b])` on the worker it noted
(`SessionReady`); a build's files are stored, known to be missing or still to be looked for, and none is missing from the signal on (`FilesStored`); and every
result in a worker's or a handler's hands is of a committed artifact (`ResultsStored`), where the result of a job
that is being committed is the exception, since `Run` notes it before the commit. There is one lemma per action, and
`StepInv` puts them together. The argument rests on two facts: workers never remove
artifacts, and files never leave the coordinator.

**`JobProofs`** follows one job.

- `JobsComeAfterTheirDeps`: `Prepared`. Whatever is queued, given, running or reported was wanted by some build, and its dependencies
  are located, those that `SignalBuild` has collected for its current job included.
- `OneJobAtATime`, `NoJobRunsTwiceOnAWorker` (`RunOnce`): a worker is never told to run a job that its cache has. `JobInv` says that
  worker and handler have one job or one result between them (`OneAtATime`), and that what is in a worker's cache is located, but for
  the result on its way (`CacheKnown`): this is why the check at `dist/coordinator.go:100` sees every artifact it has to see.
- `WorkersEndForAReason` (`WorkersEndFor`): no download, `Create` or heartbeat ends a worker but for the reasons above, for any graphs, with source files
  shared or not. A download can only fail for an artifact that is not there, which `IInv` excludes, or with its worker's end; `Create` cannot, by `RunOnce`. For
  the files it takes `FilesOfJobs`: each file in a worker's cache is one of a job whose artifact the worker has, or of the current job
  and fetched already. So a file that is met again comes from another job. A worker that has ended takes no more steps and an artifact is never removed, so a reason that was true at
  the end stays true, that of the worker it waited for included.
- `ReceiveNeverBlocks` (`CreditForResult`): the receive at `dist/coordinator.go:55` finds a build for every execution. `CreditInv` counts:
  the channel of a job is at least as long as the builds that have yet to schedule it (`Owed`) and the executions queued (`Queued`) and
  under way (`Out`) together. A build joins the channel before it is owed, and which build is received does not matter.
- `NoBuildIsForgotten` (`NobodyForgotten`): what there is to `BuildCompletes` without fairness. As long as no worker ended and `ScheduleJob` refused
  nothing (`NothingLost`, which only ever turns false), a build that waits for a job is in a handler's hands for it, or in the job's
  channel while an execution of the job is queued, under way or owed. `LossInv` says that a build stays in the channel until a handler holds it,
  and there until it is told (`WaitsOn`), and that the channel is no longer than `Owed`, `Queued` and `Out` together (`ServedAt`). With `CreditAt` the two
  are equal, and it takes the equality: any build in the channel may be the one that is received, so no execution belongs to a build.
  The theorem promises no more than the code does: a client that leaves before its signal leaves its build in `Owed` for good, the one
  case in which nothing is on its way to those behind it.

All but the first assume `FreeSlots = 1`, which `worker/worker.go:76` sends (its comment says that the algorithm is made for it).
With more slots the coordinator may give a worker the same job twice in one response.

It ends with `CoordinatorIsABuildService`, the refinement of `BuildService`, by steps: each action is a `Start`, `Compute`, `Tell` or
`Finish` of the service or leaves it alone. `ServiceInv` is what makes `Tell` and `Finish` right: who is between a lock and an unlock of
`buildData.mu` holds it (`Locks`); a build is once in the channel of each of its unreported jobs or once in a handler's hands (`WaitsOnce`,
`HeldOnce`, `QueuesOnce`), so that no job is reported twice to it; and the counter that ends the build is the number of jobs reported
(`Counted`), all of which are located (`ReportsLocated`). No assumption on `FreeSlots` or faults.

**`TopSortProofs`**, for a call with any graph whatever, of any size:

- `NoJobIsLostOrDoubled` (`EveryJobSorted`): the result has every ID as often as the request, on cycles and with missing dependencies too;
- `SortIsATopologicalOrder` (`DepsSortedFirst`): on a graph without cycles that holds its dependencies, each job comes after them;
- `RecursionEnds` (`RecursionBounded`): `visit` is never nested deeper than the graph has jobs.

All three speak of the end of the call or of one number; `SortInv` says what holds in its middle. `Counted`: what is marked and no longer running
is exactly what is in the result, as often. `Progress`: what runs is marked, each position once, and the loop has marked all behind
it, so that at the end everything marked has returned. `DepsVisited`: a call has visited the dependencies before its next one.
That is not yet that they are in the result, since a marked job may be one that is still running. `StackDescends` excludes this:
if any ranking of the jobs falls from a job to its dependencies, it falls along the stack, so a call that runs is never a dependency of the one on top.
With that, `SortedAfterDeps` is kept by each `append`.

**`ArtifactCacheProofs`** proves `CacheInv` inductive for finitely many threads and any IDs, restarts included, and from it `CacheTypeOK`,
`LocksExclude`, `NeverHalfWritten`, `FreshDir` and the action property `ReadersUndisturbed`. The strengthening is that a write
lock has exactly one owner (`OneWriter`), read locks are counted exactly and exclude writers (`ReadersCounted`), and `root/tmp` is
empty but for the owner's work (`TmpOfWriter`). `RestartInv` is proved for the loss of any part of the IDs, so that it also covers one of
several processes.

**`DownloadProofs`** builds on it for a fetch between two caches with any other users: `DownloadedWhole`, `JustDownloadedFound`, and the
properties of `ArtifactCache` for both caches. `DownloadInv` adds where fetcher and server are in their operations, that nobody else writes the
fetcher's cache (`Places`), and that the body is in `root/tmp`, and then in the cache, as it was sent (`Received`). The second Get finds its lock free
because a write lock of the artifact would need an owner, and the only writer there is the fetcher itself. The theorems assume
`"open" \notin Faults`: with it they are false, as `small_file` shows.

**`FileTransferProofs`**: `OkIsStored` and `TypeOK` for any uploads, readers and failures, and the exclusion of the cache's users. `TransferInv` adds
that the call of a file is one request, in the middle of it, and that whoever waits waits for one (`CallsRun`); that a request's place
in the cache fits its own (`PutPlaces`); that what is written or stored is whole (`FilesWhole`); and that an answer 200 is
already true when it is noted, not only when it is sent (`OkStored`).

**`StatusStreamProofs`**: `NoPanic`, `StreamTypeOK` and the refinement of `BuildStream`, for any number of updates and any capacity. `StreamInv` says who
may send (`OneSender`: a handler that is inline is the only one, and after the final update nobody sends), who closes the channel (`OneCloser`: `closed`
is swapped once), and what of the response is out (`Responds`).

**`GradeProofs`**: `GradeTypeOK`, `VerdictRight` and `GreenMeansPassed`, for any tasks, packages, commits and defects. `GradeInv` adds what the grader knows of the
task it is at (`Tested`, `VerdictKnown`), that until something fails every changed task is on the list or has passed (`NoneForgotten`), and that green is the end of
the list (`GreenIsThrough`).

Assumptions: `GraphAssumption` (types of the constants, finitely many workers, and that a request holds no job twice), `CoordinatorAssumption` (types of the capacities, and that `Nil` is no build and no `FileCheck`),
`TopSortAssumption` (the order `TopSort` gives for the requests: the proofs about builds do not look into that operator, which recurses over data. TLC
evaluates the assumption in every run, `TopSortProofs` proves the same of the steps of the call, and `ReturnsTopSort` checks that both compute the same), `NilAssumption`, and the type of the queue's capacity; for the cache, finitely many threads;
`DownloadAssumption` and `TransferAssumption` name the constants; the `GraphAssumption` of `TopSortSteps` gives their types and no more; for the grader, finitely many tasks.

Proofs changed the model in three ways. `CASE` with guards that overlap (the errors of the locks, the states after an unlock, the end of the loop
over tasks, who calls whom in `StatusStream`) leaves the choice open in TLA+, though TLC takes the first; they are `IF`s now, in the order of the code.
`CreditForResult` counts the executions in the same terms (`Queued`, `Given`, `Running`, `Built`, `Processed`) as its invariant. And the
changed tasks of `Grade` are any increasing sequence of them (`Sorted`) in place of one made by a recursive sort.

Only model-checked: that the operator `TopSort` is the result of `TopSortSteps` (`ReturnsTopSort`: induction over data is out of the prover's reach), and everything
with liveness (`BuildCompletes`, `Returns`, `UploadReturns`, `StreamEnds`, `UpdatedReturns`, `ClientAnswered`, `ServerUnlocks`, `FetchEnds`, `GradeEnds` and the
runs that refute one), which it cannot express.

## Not modelled

- Hex IDs, command templates, JSON and HTTP status codes, logging: conversions without state.
- `Range` of the caches, `Remove` of the file cache, `TimeAfter` and the timeouts of `scheduler.Config`: nothing calls them.
- Failures of the disk in `NewCache` and of the rename in `commit`; an ID in a request header that does not parse.
- Names, modes and contents of the files of an artifact: `tarstream` is modelled by what is whole and what is not.
- Three builds or more for one job (`ChanCap` is 10 in the code): two builds that list the same jobs in opposite orders while the
  channels of both are full would wait for each other in `StartBuild`. It takes twenty clients.
- Of the grader, which files are tests or protected, the coverage percentage and the statistics of benchmarks: they are the data
  that `defect` stands for. Release dates, since `grade` only logs them. The other commands of `src/tools/testtool` call `git`, `rsync` and `go` in a row.
- `disttest/` and `api/mock/` are test code.

## Plan

Done: `BuildGraph`, `Scheduler`, `Coordinator`, `WorkerLoop`, `DistBuild`, `TopSort` with `TopSortSteps`, `ArtifactCache`, `FileTransfer`, `StatusStream` with `BuildStream`,
`Download` and `Grade`, their runs, and the proofs of all their invariants, action properties and refinements.

Left: more of the safety half of the liveness properties (that a place at which a thread waits has somebody who will end the wait). `NobodyForgotten`,
`CallsRun` and `Locks` are proved; that the waits for `buildData.mu`, a full queue and a dependency form no circle is not, since they
do form one (`chain_deadlock`), and a condition that excludes it (one build, or as many workers as jobs) is yet to be proved. Properties
of files (`FilesStored`) could be checked properties of their own.
