-------------------------- MODULE DistBuildProofs --------------------------
(***************************************************************************)
(* The types of DistBuild, and what its jobs, results and artifact         *)
(* locations promise each other, for every number of workers, builds and   *)
(* jobs, every graph and every combination of faults.                      *)
(*                                                                         *)
(* IInv (module DistBuildInv) is inductive: a lemma for every action says  *)
(* that it preserves IInv.                                                 *)
(***************************************************************************)
EXTENDS DistBuildInv, TLAPS

(***************************************************************************)
(* What all proofs about the queues of the system use of sequences.        *)
(***************************************************************************)
(* Taking from a queue gives one of its elements and leaves the others.    *)
LEMMA TakeFacts ==
  ASSUME NEW S, NEW s \in Seq(S), s # <<>>
  PROVE  /\ Head(s) \in S
         /\ Tail(s) \in Seq(S)
         /\ Head(s) \in Range(s)
         /\ Range(Tail(s)) \subseteq Range(s)
<1>1. Head(s) \in S /\ Tail(s) \in Seq(S)
  OBVIOUS
<1>2. Head(s) \in Range(s) /\ Range(Tail(s)) \subseteq Range(s)
  BY DEF Range
<1> QED
  BY <1>1, <1>2

(* Putting into a queue adds the element and keeps the others.             *)
LEMMA PutFacts ==
  ASSUME NEW S, NEW s \in Seq(S), NEW e \in S
  PROVE  /\ Append(s, e) \in Seq(S)
         /\ Len(Append(s, e)) = Len(s) + 1
         /\ \A i \in 1..Len(s) : Append(s, e)[i] = s[i]
         /\ Append(s, e)[Len(s) + 1] = e
         /\ Range(Append(s, e)) = Range(s) \cup {e}
<1>1. /\ Append(s, e) \in Seq(S)
      /\ Len(Append(s, e)) = Len(s) + 1
      /\ \A i \in 1..Len(s) : Append(s, e)[i] = s[i]
      /\ Append(s, e)[Len(s) + 1] = e
  OBVIOUS
<1>2. DOMAIN Append(s, e) = 1..(Len(s) + 1) /\ DOMAIN s = 1..Len(s)
  BY <1>1
<1>3. Range(Append(s, e)) \subseteq Range(s) \cup {e}
  <2> SUFFICES ASSUME NEW i \in 1..(Len(s) + 1)
               PROVE  Append(s, e)[i] \in Range(s) \cup {e}
    BY <1>2 DEF Range
  <2>1. CASE i \in 1..Len(s)
    BY <1>1, <1>2, <2>1 DEF Range
  <2>2. CASE i = Len(s) + 1
    BY <1>1, <2>2
  <2> QED
    BY <2>1, <2>2
<1>4. Range(s) \cup {e} \subseteq Range(Append(s, e))
  <2>1. e \in Range(Append(s, e))
    <3>1. Len(s) + 1 \in DOMAIN Append(s, e)
      BY <1>2
    <3> QED
      BY <1>1, <3>1 DEF Range
  <2>2. ASSUME NEW i \in 1..Len(s) PROVE s[i] \in Range(Append(s, e))
    <3>1. i \in DOMAIN Append(s, e) /\ Append(s, e)[i] = s[i]
      BY <1>1, <1>2
    <3> QED
      BY <3>1 DEF Range
  <2> QED
    BY <1>2, <2>1, <2>2 DEF Range
<1> QED
  BY <1>1, <1>3, <1>4

(* Elements of a sequence are in its range and of its type.                *)
LEMMA RangeFacts ==
  ASSUME NEW S, NEW s \in Seq(S)
  PROVE  /\ Range(s) \subseteq S
         /\ \A i \in 1..Len(s) : s[i] \in S /\ s[i] \in Range(s)
BY DEF Range

(* A new queue.                                                            *)
LEMMA EmptyFacts ==
  ASSUME NEW S
  PROVE  <<>> \in Seq(S) /\ Len(<<>>) = 0 /\ Range(<<>>) = {} /\ DOMAIN <<>> = {}
BY DEF Range

(* What a sequence of at most one element is when its head is taken.       *)
LEMMA ShortFacts ==
  ASSUME NEW S, NEW s \in Seq(S), Len(s) <= 1, s # <<>>
  PROVE  /\ Tail(s) = <<>>
         /\ Len(s) = 1
         /\ s = <<Head(s)>>
         /\ Range(s) = {Head(s)}
<1>1. Len(s) = 1 /\ Tail(s) = <<>> /\ s = <<Head(s)>>
  <2>1. Len(s) \in Nat /\ Len(s) # 0
    OBVIOUS
  <2>2. Len(s) = 1 /\ Head(s) = s[1]
    BY <2>1, SMTT(60)
  <2>3. Tail(s) = <<>>
    <3>1. Tail(s) \in Seq(S)
      BY TakeFacts
    <3>2. Len(Tail(s)) = 0
      BY <2>2
    <3> QED
      BY <3>1, <3>2
  <2>4. s = <<s[1]>>
    BY <2>2
  <2> QED
    BY <2>2, <2>3, <2>4
<1>2. DOMAIN s = {1} /\ Head(s) = s[1]
  BY <1>1
<1> QED
  BY <1>1, <1>2 DEF Range

(* A channel that holds each element once, and an element that is put into *)
(* it or taken from it.                                                    *)
LEMMA PutInjective ==
  ASSUME NEW S, NEW s \in Seq(S), IsInjective(s), NEW e \in S, e \notin Range(s)
  PROVE  IsInjective(Append(s, e))
<1>1. /\ DOMAIN s = 1..Len(s) /\ Len(s) \in Nat
      /\ DOMAIN Append(s, e) = 1..(Len(s) + 1)
      /\ \A i \in 1..Len(s) : Append(s, e)[i] = s[i]
      /\ Append(s, e)[Len(s) + 1] = e
  OBVIOUS
<1>2. \A i \in 1..Len(s) : s[i] # e
  BY RangeFacts
<1>3. \A i \in 1..(Len(s) + 1) : i \in 1..Len(s) \/ i = Len(s) + 1
  BY <1>1
<1> QED
  BY <1>1, <1>2, <1>3 DEF IsInjective

LEMMA TakeInjective ==
  ASSUME NEW S, NEW s \in Seq(S), IsInjective(s), s # <<>>
  PROVE  IsInjective(Tail(s)) /\ Head(s) \notin Range(Tail(s))
<1>1. /\ Tail(s) \in Seq(S) /\ Head(s) = s[1] /\ 1 \in DOMAIN s
      /\ \A i \in DOMAIN Tail(s) : i \in Nat \ {0} /\ i + 1 \in DOMAIN s /\ Tail(s)[i] = s[i + 1]
  OBVIOUS
<1>2. \A i, j \in DOMAIN s : s[i] = s[j] => i = j
  BY DEF IsInjective
<1>3. ASSUME NEW i \in DOMAIN Tail(s), NEW j \in DOMAIN Tail(s), Tail(s)[i] = Tail(s)[j]
      PROVE  i = j
  <2>1. i + 1 = j + 1
    BY <1>1, <1>2, <1>3
  <2> QED
    BY <1>1, <2>1
<1>4. ASSUME NEW i \in DOMAIN Tail(s) PROVE Tail(s)[i] # Head(s)
  <2>1. i + 1 # 1
    BY <1>1
  <2> QED
    BY <1>1, <1>2, <2>1
<1> QED
  BY <1>3, <1>4 DEF IsInjective, Range

-----------------------------------------------------------------------------
(* The groups of TypeOK, each proved and used on its own.                  *)
LEMMA TypeGroups ==
  TypeOK <=> /\ files \subseteq File
             /\ SchedulerTypeOK
             /\ BuildTypeOK
             /\ SessionTypeOK
             /\ HandlerTypeOK
             /\ WorkerTypeOK
             /\ client \in [Build -> {"building", "done", "gone"}]
BY DEF TypeOK, CoordinatorTypeOK

(* Nothing that is on its way becomes unrunnable while the caches grow.    *)
LEMMA StaysRunnable ==
  ASSUME TypeOK, SpecsRunnable, InFlight' \subseteq InFlight,
         \A w \in Worker : artifacts[w] \subseteq artifacts'[w],
         files \subseteq files'
  PROVE  SpecsRunnable'
<1>1. InFlight \subseteq JobSpec
  <2>1. Range(jobsQue) \subseteq JobSpec
    BY TypeGroups, RangeFacts DEF SchedulerTypeOK
  <2>2. ASSUME NEW w \in Worker
        PROVE  resp[w] \cup toRun[w] \cup ({picked[w], spec[w]} \ {Nil}) \subseteq JobSpec
    BY TypeGroups DEF HandlerTypeOK, WorkerTypeOK
  <2> QED
    BY <2>1, <2>2 DEF InFlight
<1>2. ASSUME NEW s \in InFlight, Runnable(s), s \in JobSpec
      PROVE  Runnable(s)'
  <2>1. \A i \in DOMAIN s.arts : s.arts[i] \in Worker
    BY <1>2 DEF JobSpec
  <2> QED
    BY <1>2, <2>1 DEF Runnable
<1> QED
  BY <1>1, <1>2 DEF SpecsRunnable

-----------------------------------------------------------------------------
(* The client and the session of a build.                                  *)

(* What StartBuild notes while it looks for files is known to nobody else. *)
LEMMA CheckInv ==
  ASSUME IInv, NEW b \in Build, NEW c \in FileCheck,
         check' = [check EXCEPT ![b] = c],
         SourceFiles(c.graph) \subseteq files \cup c.left \cup c.missing,
         UNCHANGED <<files, buildVars, spc, pos, arts, handlerVars, schedVars, client,
                     workerVars>>
  PROVE  IInv'
<1>1. /\ TypeOK /\ SchedulerTypeOK /\ BuildTypeOK /\ SessionTypeOK /\ HandlerTypeOK
      /\ WorkerTypeOK
  BY TypeGroups DEF IInv
<1>2. TypeOK'
  <2>1. SessionTypeOK'
    BY <1>1 DEF SessionTypeOK
  <2>2. BuildTypeOK' /\ SchedulerTypeOK'
    BY <1>1 DEF BuildTypeOK, SchedulerTypeOK, buildVars, schedVars
  <2>3. HandlerTypeOK' /\ WorkerTypeOK'
    BY <1>1 DEF HandlerTypeOK, WorkerTypeOK, handlerVars, workerVars
  <2> QED
    BY <2>1, <2>2, <2>3 DEF IInv, TypeOK, CoordinatorTypeOK
<1>3. FilesStored'
  BY <1>1 DEF IInv, FilesStored, SessionTypeOK, buildVars
<1>4. SessionReady'
  BY DEF IInv, SessionReady, ReadyAt, Current, buildVars, workerVars
<1>5. HandlerReady' /\ WorkerReady' /\ ResultsStored'
  BY DEF IInv, HandlerReady, WorkerReady, ResultsStored, handlerVars, workerVars
<1>6. LocatedStored' /\ SpecsRunnable'
  BY DEF IInv, LocatedStored, Located, LocateArtifact, SpecsRunnable, Runnable, InFlight,
         schedVars, handlerVars, workerVars
<1> QED
  BY <1>2, <1>3, <1>4, <1>5, <1>6 DEF IInv

(* StartBuild looks for every source file of its request ...               *)
LEMMA CheckFilesInv ==
  ASSUME IInv, NEW b \in Build, NEW g \in Requests, CheckFiles(b, g),
         UNCHANGED <<client, workerVars>>
  PROVE  IInv'
<1> DEFINE c == [graph |-> g, left |-> SourceFiles(g), missing |-> {}, held |-> {}]
<1>1. SourceFiles(g) \subseteq File
  BY GraphAssumption, RangeFacts DEF SourceFiles
<1>2. c \in FileCheck
  BY <1>1 DEF FileCheck
<1>3. SourceFiles(c.graph) \subseteq files \cup c.left \cup c.missing
  OBVIOUS
<1>4. check' = [check EXCEPT ![b] = c]
  BY DEF CheckFiles
<1> HIDE DEF c
<1> QED
  BY <1>2, <1>3, <1>4, CheckInv DEF CheckFiles

(* ... and each is then stored, missing, or still to be looked for.        *)
LEMMA CheckFileInv ==
  ASSUME IInv, NEW b \in Build, CheckFile(b) \/ UnlockFile(b), UNCHANGED <<client, workerVars>>
  PROVE  IInv'
<1>1. /\ check \in [Build -> FileCheck \cup {Nil}] /\ check[b] # Nil
      /\ files \subseteq File
  BY TypeGroups DEF IInv, TypeOK, CoordinatorTypeOK, SessionTypeOK, CheckFile, UnlockFile
<1>2. /\ check[b] \in FileCheck
      /\ SourceFiles(check[b].graph) \subseteq files \cup check[b].left \cup check[b].missing
  BY <1>1 DEF IInv, FilesStored
<1>3. CASE UnlockFile(b)
  <2> DEFINE c == [check[b] EXCEPT !.held = {}]
  <2>1. c \in FileCheck /\ SourceFiles(c.graph) \subseteq files \cup c.left \cup c.missing
    BY <1>2 DEF FileCheck
  <2>2. check' = [check EXCEPT ![b] = c]
    BY <1>3 DEF UnlockFile
  <2> HIDE DEF c
  <2> QED
    BY <1>3, <2>1, <2>2, CheckInv DEF UnlockFile
<1>4. CASE CheckFile(b)
  <2>1. PICK f \in check[b].left :
          check' = [check EXCEPT ![b].left = @ \ {f},
                                 ![b].missing = @ \cup ({f} \ files),
                                 ![b].held = {f}]
    BY <1>4 DEF CheckFile
  <2> DEFINE c == check'[b]
  <2>2. c = [check[b] EXCEPT !.left = check[b].left \ {f},
                             !.missing = check[b].missing \cup ({f} \ files),
                             !.held = {f}]
    BY <1>1, <2>1
  <2>3. c \in FileCheck /\ SourceFiles(c.graph) \subseteq files \cup c.left \cup c.missing
    BY <1>2, <2>2, ZenonT(60) DEF FileCheck
  <2>4. check' = [check EXCEPT ![b] = c]
    BY <1>1, <2>1
  <2> HIDE DEF c
  <2> QED
    BY <1>4, <2>3, <2>4, CheckInv DEF CheckFile
<1> QED
  BY <1>3, <1>4

(* StartBuild (coordinator.go:112) makes the build with the files that it  *)
(* found missing; none has left the cache since.                           *)
LEMMA StartBuildInv ==
  ASSUME IInv, NEW b \in Build, StartBuild(b), UNCHANGED <<client, workerVars>>
  PROVE  IInv'
<1> DEFINE g == check[b].graph
<1>1. /\ TypeOK /\ SchedulerTypeOK /\ BuildTypeOK /\ SessionTypeOK /\ HandlerTypeOK
      /\ WorkerTypeOK
  BY TypeGroups DEF IInv
<1>2. /\ g \in Requests /\ check[b].missing \subseteq File
      /\ SourceFiles(g) \subseteq files \cup check[b].missing
  <2>1. check[b] \in FileCheck
    BY <1>1 DEF StartBuild, SessionTypeOK
  <2>2. /\ check[b].left = {}
        /\ SourceFiles(g) \subseteq files \cup check[b].left \cup check[b].missing
    BY DEF IInv, FilesStored, StartBuild
  <2> QED
    BY <2>1, <2>2 DEF FileCheck
<1>3. /\ g \in Seq(Job)
      /\ TopSort(g, Deps) \in Seq(Job)
      /\ Range(TopSort(g, Deps)) = Range(g)
  BY <1>2, GraphAssumption, TopSortAssumption DEF IsTopOrder
<1>4. TypeOK'
  <2>1. BuildTypeOK'
    BY <1>2, <1>1, <1>3 DEF StartBuild, BuildTypeOK
  <2>2. SessionTypeOK'
    BY <1>1 DEF StartBuild, SessionTypeOK
  <2>3. SchedulerTypeOK' /\ HandlerTypeOK' /\ WorkerTypeOK'
    BY <1>1 DEF StartBuild, SchedulerTypeOK, HandlerTypeOK, WorkerTypeOK, schedVars,
                handlerVars, workerVars
  <2> QED
    BY <2>1, <2>2, <2>3 DEF IInv, TypeOK, CoordinatorTypeOK, StartBuild
<1>5. SessionReady'
  BY <1>1 DEF IInv, SessionReady, ReadyAt, SessionTypeOK, BuildTypeOK, StartBuild, Current, workerVars
<1>6. FilesStored'
  BY <1>2, <1>1, <1>3 DEF IInv, FilesStored, StartBuild, SessionTypeOK, BuildTypeOK
<1>7. HandlerReady' /\ WorkerReady' /\ ResultsStored' 
  BY DEF IInv, HandlerReady, WorkerReady, ResultsStored, StartBuild, handlerVars, workerVars
<1>8. LocatedStored' /\ SpecsRunnable'
  BY DEF IInv, LocatedStored, Located, LocateArtifact, SpecsRunnable, Runnable, InFlight,
         StartBuild, schedVars, handlerVars, workerVars
<1> QED
  BY <1>4, <1>5, <1>6, <1>7, <1>8 DEF IInv

(* An upload moves a file from the missing ones to the stored ones.        *)
LEMMA StoreFileInv ==
  ASSUME IInv, NEW b \in Build, NEW f \in needFiles[b], StoreFile(b, f),
         UNCHANGED <<client, workerVars>>
  PROVE  IInv'
<1>1. /\ TypeOK /\ SchedulerTypeOK /\ BuildTypeOK /\ SessionTypeOK /\ HandlerTypeOK
      /\ WorkerTypeOK
  BY TypeGroups DEF IInv
<1>2. TypeOK'
  <2>1. BuildTypeOK'
    BY <1>1 DEF StoreFile, BuildTypeOK
  <2>2. SessionTypeOK' /\ SchedulerTypeOK' /\ HandlerTypeOK' /\ WorkerTypeOK'
    BY <1>1 DEF StoreFile, SessionTypeOK, SchedulerTypeOK, HandlerTypeOK, WorkerTypeOK,
                sessionVars, schedVars, handlerVars, workerVars
  <2>3. files' \subseteq File
    BY <1>1 DEF StoreFile, BuildTypeOK, TypeOK, CoordinatorTypeOK
  <2> QED
    BY <2>1, <2>2, <2>3 DEF IInv, TypeOK, CoordinatorTypeOK
<1>3. FilesStored'
  BY <1>1 DEF IInv, FilesStored, StoreFile, BuildTypeOK, sessionVars
<1>4. SpecsRunnable'
  BY StaysRunnable, <1>1 DEF IInv, InFlight, StoreFile, schedVars, handlerVars, workerVars
<1>5. SessionReady'
  BY DEF IInv, SessionReady, ReadyAt, StoreFile, Current, sessionVars, workerVars
<1>6. HandlerReady' /\ WorkerReady' /\ ResultsStored'
  BY DEF IInv, HandlerReady, WorkerReady, ResultsStored, StoreFile, handlerVars, workerVars
<1>7. LocatedStored'
  BY DEF IInv, LocatedStored, Located, LocateArtifact, StoreFile, schedVars, workerVars
<1> QED
  BY <1>2, <1>3, <1>4, <1>5, <1>6, <1>7 DEF IInv

(* A client signals when nothing is missing any more.                      *)
LEMMA SignalBuildInv ==
  ASSUME IInv, NEW b \in Build, needFiles[b] = {}, SignalBuild(b),
         UNCHANGED <<client, workerVars>>
  PROVE  IInv'
<1>1. /\ TypeOK /\ SchedulerTypeOK /\ BuildTypeOK /\ SessionTypeOK /\ HandlerTypeOK
      /\ WorkerTypeOK
  BY TypeGroups DEF IInv
<1>2. TypeOK'
  <2>1. SessionTypeOK'
    BY <1>1 DEF SignalBuild, SessionTypeOK
  <2>2. BuildTypeOK' /\ SchedulerTypeOK' /\ HandlerTypeOK' /\ WorkerTypeOK'
    BY <1>1 DEF SignalBuild, BuildTypeOK, SchedulerTypeOK, HandlerTypeOK, WorkerTypeOK,
                buildVars, schedVars, handlerVars, workerVars
  <2> QED
    BY <2>1, <2>2 DEF IInv, TypeOK, CoordinatorTypeOK, SignalBuild
<1>3. SessionReady'
  BY <1>1 DEF IInv, SessionReady, ReadyAt, SessionTypeOK, SignalBuild, Current, buildVars, workerVars
<1>4. FilesStored'
  BY <1>1 DEF IInv, FilesStored, SignalBuild, SessionTypeOK, buildVars
<1>5. HandlerReady' /\ WorkerReady' /\ ResultsStored'
  BY DEF IInv, HandlerReady, WorkerReady, ResultsStored, SignalBuild, handlerVars, workerVars
<1>6. LocatedStored' /\ SpecsRunnable'
  BY DEF IInv, LocatedStored, Located, LocateArtifact, SpecsRunnable, Runnable, InFlight,
         SignalBuild, schedVars, handlerVars, workerVars
<1> QED
  BY <1>2, <1>3, <1>4, <1>5, <1>6 DEF IInv

(* The status stream and the client's own state touch nothing else.        *)
LEMMA StreamInv ==
  ASSUME IInv, NEW b \in Build, WriteStatus(b) \/ \E c \in BOOLEAN : CloseStream(b, c),
         UNCHANGED <<client, workerVars>>
  PROVE  IInv'
<1>1. /\ TypeOK /\ SchedulerTypeOK /\ BuildTypeOK /\ SessionTypeOK /\ HandlerTypeOK
      /\ WorkerTypeOK
  BY TypeGroups DEF IInv
<1>2. /\ UNCHANGED <<files, graph, jobs, needFiles, sessionVars, handlerVars, schedVars>>
      /\ BuildTypeOK'
  <2>1. CASE WriteStatus(b)
    BY <1>1, <2>1 DEF WriteStatus, BuildTypeOK
  <2>2. ASSUME NEW c \in BOOLEAN, CloseStream(b, c)
        PROVE  /\ UNCHANGED <<files, graph, jobs, needFiles, sessionVars, handlerVars,
                              schedVars>>
               /\ BuildTypeOK'
    BY <1>1, <2>2 DEF CloseStream, BuildTypeOK
  <2> QED
    BY <2>1, <2>2
<1>3. TypeOK'
  <2>1. SessionTypeOK' /\ SchedulerTypeOK' /\ HandlerTypeOK' /\ WorkerTypeOK'
    BY <1>1, <1>2 DEF SessionTypeOK, SchedulerTypeOK, HandlerTypeOK, WorkerTypeOK,
                      sessionVars, schedVars, handlerVars, workerVars
  <2> QED
    BY <1>2, <2>1 DEF IInv, TypeOK, CoordinatorTypeOK
<1>4. SessionReady' /\ FilesStored'
  BY <1>2 DEF IInv, SessionReady, ReadyAt, FilesStored, Current, sessionVars, workerVars
<1>5. HandlerReady' /\ WorkerReady' /\ ResultsStored'
  BY <1>2 DEF IInv, HandlerReady, WorkerReady, ResultsStored, handlerVars, workerVars
<1>6. LocatedStored' /\ SpecsRunnable'
  BY <1>2 DEF IInv, LocatedStored, Located, LocateArtifact, SpecsRunnable, Runnable,
              InFlight, schedVars, handlerVars, workerVars
<1> QED
  BY <1>3, <1>4, <1>5, <1>6 DEF IInv

(* What only the client of a build knows.                                  *)
LEMMA ClientInv ==
  ASSUME IInv, UNCHANGED <<coordVars, schedVars, workerVars>>,
         client' \in [Build -> {"building", "done", "gone"}]
  PROVE  IInv'
<1>1. /\ TypeOK /\ SchedulerTypeOK /\ BuildTypeOK /\ SessionTypeOK /\ HandlerTypeOK
      /\ WorkerTypeOK
  BY TypeGroups DEF IInv
<1>2. TypeOK'
  <2>1. SchedulerTypeOK' /\ BuildTypeOK' /\ SessionTypeOK'
    BY <1>1 DEF SchedulerTypeOK, BuildTypeOK, SessionTypeOK, schedVars, coordVars,
                buildVars, sessionVars
  <2>2. HandlerTypeOK' /\ WorkerTypeOK'
    BY <1>1 DEF HandlerTypeOK, WorkerTypeOK, coordVars, handlerVars, workerVars
  <2> QED
    BY <1>1, <2>1, <2>2 DEF TypeOK, CoordinatorTypeOK, coordVars
<1>3. SessionReady' /\ FilesStored'
  BY DEF IInv, SessionReady, ReadyAt, FilesStored, Current, coordVars, buildVars, sessionVars,
         workerVars
<1>4. HandlerReady' /\ WorkerReady' /\ ResultsStored'
  BY DEF IInv, HandlerReady, WorkerReady, ResultsStored, coordVars, handlerVars, workerVars
<1>5. LocatedStored' /\ SpecsRunnable'
  BY DEF IInv, LocatedStored, Located, LocateArtifact, SpecsRunnable, Runnable, InFlight,
         schedVars, coordVars, handlerVars, workerVars
<1> QED
  BY <1>2, <1>3, <1>4, <1>5 DEF IInv

(* The loop that queues the build for results (coordinator.go:132).        *)
LEMMA PushDataInv ==
  ASSUME IInv, NEW b \in Build, PushData(b), UNCHANGED <<client, workerVars>>
  PROVE  IInv'
<1>1. /\ TypeOK /\ SchedulerTypeOK /\ BuildTypeOK /\ SessionTypeOK /\ HandlerTypeOK
      /\ WorkerTypeOK
  BY TypeGroups DEF IInv
<1>2. TypeOK'
  <2>1. graph[b][pos[b]] \in Job
    BY <1>1 DEF PushData, BuildTypeOK, SessionTypeOK
  <2>2. buildByJob' \in [Job -> Seq(Build)]
    BY <1>1, <2>1 DEF PushData, BuildTypeOK
  <2>3. BuildTypeOK'
    BY <1>1, <2>2 DEF PushData, BuildTypeOK
  <2>4. SessionTypeOK'
    BY <1>1 DEF PushData, SessionTypeOK
  <2>5. SchedulerTypeOK' /\ HandlerTypeOK' /\ WorkerTypeOK'
    BY <1>1 DEF PushData, SchedulerTypeOK, HandlerTypeOK, WorkerTypeOK, schedVars,
                handlerVars, workerVars
  <2> QED
    BY <2>3, <2>4, <2>5 DEF IInv, TypeOK, CoordinatorTypeOK, PushData
<1>3. SessionReady'
  BY <1>1 DEF IInv, SessionReady, ReadyAt, SessionTypeOK, PushData, Current, workerVars
<1>4. FilesStored'
  BY DEF IInv, FilesStored, PushData
<1>5. HandlerReady' /\ WorkerReady' /\ ResultsStored'
  BY DEF IInv, HandlerReady, WorkerReady, ResultsStored, PushData, handlerVars, workerVars
<1>6. LocatedStored' /\ SpecsRunnable'
  BY DEF IInv, LocatedStored, Located, LocateArtifact, SpecsRunnable, Runnable, InFlight,
         PushData, schedVars, handlerVars, workerVars
<1> QED
  BY <1>2, <1>3, <1>4, <1>5, <1>6 DEF IInv

(* The session takes or releases the lock of the build.                    *)
LEMMA SessionLockInv ==
  ASSUME IInv, NEW b \in Build, Started(b) \/ SignalLock(b) \/ SignalDone(b),
         UNCHANGED <<client, workerVars>>
  PROVE  IInv'
<1>1. /\ TypeOK /\ SchedulerTypeOK /\ BuildTypeOK /\ SessionTypeOK /\ HandlerTypeOK
      /\ WorkerTypeOK
  BY TypeGroups DEF IInv
<1>2. UNCHANGED <<files, check, graph, jobs, needFiles, arts, handlerVars, schedVars>>
  BY DEF Started, SignalLock, SignalDone
<1>3. TypeOK'
  <2>1. BuildTypeOK' /\ SessionTypeOK'
    <3>1. CASE Started(b)
      BY <1>1, <3>1 DEF Started, BuildTypeOK, SessionTypeOK
    <3>2. CASE SignalLock(b)
      BY <1>1, <3>2 DEF SignalLock, BuildTypeOK, SessionTypeOK
    <3>3. CASE SignalDone(b)
      BY <1>1, <3>3 DEF SignalDone, BuildTypeOK, SessionTypeOK
    <3> QED
      BY <3>1, <3>2, <3>3
  <2>2. SchedulerTypeOK' /\ HandlerTypeOK' /\ WorkerTypeOK'
    BY <1>1, <1>2 DEF SchedulerTypeOK, HandlerTypeOK, WorkerTypeOK, schedVars, handlerVars,
                      workerVars
  <2> QED
    BY <1>2, <2>1, <2>2 DEF IInv, TypeOK, CoordinatorTypeOK
<1>4. SessionReady' /\ FilesStored'
  <2>1. CASE Started(b)
    BY <1>1, <2>1 DEF IInv, SessionReady, ReadyAt, FilesStored, SessionTypeOK, Started, Current,
                      workerVars
  <2>2. CASE SignalLock(b)
    <3>1. arts[b] = <<>> /\ jobs[b] \in Seq(Job)
      BY <1>1, <2>2 DEF IInv, SessionReady, ReadyAt, SignalLock, BuildTypeOK
    <3>2. /\ spc' = [spc EXCEPT ![b] = "deps"] /\ spc[b] = "lock"
          /\ pos' = [pos EXCEPT ![b] = 1]
          /\ UNCHANGED <<files, check, graph, jobs, needFiles, arts>>
          /\ artifacts' = artifacts
      BY <2>2 DEF SignalLock, workerVars
    <3>3. 1 <= Len(jobs[b]) => Len(Deps[jobs[b][1]]) \in Nat
      BY <3>1, GraphAssumption
    <3>4. ASSUME NEW c \in Build PROVE ReadyAt(c)'
      <4>1. CASE c = b
        BY <1>1, <3>1, <3>2, <3>3, <4>1 DEF ReadyAt, SessionTypeOK, Current
      <4>2. CASE c # b
        <5>1. spc'[c] = spc[c] /\ pos'[c] = pos[c]
          BY <1>1, <3>2, <4>2 DEF SessionTypeOK
        <5> QED
          BY <3>2, <5>1 DEF IInv, SessionReady, ReadyAt, Current
      <4> QED
        BY <4>1, <4>2
    <3> QED
      BY <1>1, <3>2, <3>4 DEF IInv, SessionReady, FilesStored, SessionTypeOK
  <2>3. CASE SignalDone(b)
    BY <1>1, <2>3 DEF IInv, SessionReady, ReadyAt, FilesStored, SessionTypeOK, SignalDone, Current,
                      workerVars
  <2> QED
    BY <2>1, <2>2, <2>3
<1>5. HandlerReady' /\ WorkerReady' /\ ResultsStored'
  BY <1>2 DEF IInv, HandlerReady, WorkerReady, ResultsStored, handlerVars, workerVars
<1>6. LocatedStored' /\ SpecsRunnable'
  BY <1>2 DEF IInv, LocatedStored, Located, LocateArtifact, SpecsRunnable, Runnable,
              InFlight, schedVars, handlerVars, workerVars
<1> QED
  BY <1>3, <1>4, <1>5, <1>6 DEF IInv

(* A located dependency is noted with a worker that has it.                *)
LEMMA LocateDepInv ==
  ASSUME IInv, NEW b \in Build, LocateDep(b), UNCHANGED <<client, workerVars>>
  PROVE  IInv'
<1> DEFINE dep == Deps[Current(b)][Len(arts[b]) + 1]
<1>1. /\ TypeOK /\ SchedulerTypeOK /\ BuildTypeOK /\ SessionTypeOK /\ HandlerTypeOK
      /\ WorkerTypeOK
  BY TypeGroups DEF IInv
<1>2. /\ arts[b] \in Seq(Worker) /\ Current(b) \in Job /\ dep \in Job
      /\ Len(Deps[Current(b)]) \in Nat
  <2>1. Current(b) \in Job
    BY <1>1 DEF LocateDep, Current, BuildTypeOK, SessionTypeOK
  <2>2. arts[b] \in Seq(Worker) /\ Deps[Current(b)] \in Seq(Job)
    BY <1>1, <2>1, GraphAssumption DEF SessionTypeOK
  <2> QED
    BY <2>1, <2>2 DEF LocateDep
<1>3. LocateArtifact(dep) \in Worker /\ dep \in artifacts[LocateArtifact(dep)]
  BY <1>1, <1>2 DEF IInv, LocateDep, LocatedStored, Located, LocateArtifact, SchedulerTypeOK
<1>4. /\ arts'[b] \in Seq(Worker)
      /\ Len(arts'[b]) = Len(arts[b]) + 1
      /\ \A i \in 1..Len(arts[b]) : arts'[b][i] = arts[b][i]
      /\ arts'[b][Len(arts[b]) + 1] = LocateArtifact(dep)
      /\ \A c \in Build \ {b} : arts'[c] = arts[c]
      /\ arts' \in [Build -> Seq(Worker)]
  <2>1. arts' = [arts EXCEPT ![b] = Append(arts[b], LocateArtifact(dep))]
    BY <1>1 DEF LocateDep, SessionTypeOK
  <2> QED
    BY <1>1, <1>2, <1>3, <2>1, PutFacts DEF SessionTypeOK
<1>5. TypeOK'
  <2>1. SessionTypeOK'
    BY <1>1, <1>4 DEF LocateDep, SessionTypeOK
  <2>2. BuildTypeOK' /\ SchedulerTypeOK' /\ HandlerTypeOK' /\ WorkerTypeOK'
    BY <1>1 DEF LocateDep, BuildTypeOK, SchedulerTypeOK, HandlerTypeOK, WorkerTypeOK,
                buildVars, schedVars, handlerVars, workerVars
  <2> QED
    BY <2>1, <2>2 DEF IInv, TypeOK, CoordinatorTypeOK, LocateDep
<1>6. SessionReady'
  <2>1. Len(arts'[b]) <= Len(Deps[Current(b)])
    BY <1>2, <1>4 DEF LocateDep
  <2>2. \A i \in DOMAIN arts'[b] : Deps[Current(b)][i] \in artifacts[arts'[b][i]]
    <3>1. DOMAIN arts'[b] = 1..(Len(arts[b]) + 1) /\ DOMAIN arts[b] = 1..Len(arts[b])
      BY <1>2, <1>4
    <3>2. \A i \in 1..Len(arts[b]) : Deps[Current(b)][i] \in artifacts[arts[b][i]]
      BY <1>2, <3>1 DEF IInv, SessionReady, ReadyAt, LocateDep
    <3>3. ASSUME NEW i \in 1..(Len(arts[b]) + 1)
          PROVE  Deps[Current(b)][i] \in artifacts[arts'[b][i]]
      <4>1. CASE i \in 1..Len(arts[b])
        BY <1>4, <3>2, <4>1
      <4>2. CASE i = Len(arts[b]) + 1
        BY <1>3, <1>4, <4>2
      <4> QED
        BY <1>2, <4>1, <4>2
    <3> QED
      BY <3>1, <3>3
  <2>3. UNCHANGED <<jobs, spc, pos, artifacts>> /\ spc[b] = "deps"
    BY DEF LocateDep, buildVars, workerVars
  <2> QED
    BY <1>1, <1>4, <2>1, <2>2, <2>3 DEF IInv, SessionReady, ReadyAt, Current, SessionTypeOK
<1>7. FilesStored'
  BY DEF IInv, FilesStored, LocateDep, buildVars
<1>8. HandlerReady' /\ WorkerReady' /\ ResultsStored'
  BY DEF IInv, HandlerReady, WorkerReady, ResultsStored, LocateDep, handlerVars, workerVars
<1>9. LocatedStored' /\ SpecsRunnable'
  BY DEF IInv, LocatedStored, Located, LocateArtifact, SpecsRunnable, Runnable, InFlight,
         LocateDep, schedVars, handlerVars, workerVars
<1> QED
  BY <1>5, <1>6, <1>7, <1>8, <1>9 DEF IInv

(* A session goes on to its next job.                                      *)
LEMMA NextJobReady ==
  ASSUME TypeOK, SessionReady, NEW b \in Build,
         pos' = [pos EXCEPT ![b] = @ + 1],
         arts' = [arts EXCEPT ![b] = <<>>],
         spc' = [spc EXCEPT ![b] = "deps"],
         UNCHANGED <<jobs, artifacts>>
  PROVE  SessionReady'
<1>1. BuildTypeOK /\ SessionTypeOK
  BY TypeGroups
<1>2. ReadyAt(b)'
  <2>1. arts'[b] = <<>> /\ spc'[b] = "deps" /\ pos'[b] \in Nat \ {0}
    BY <1>1 DEF SessionTypeOK
  <2>2. ASSUME pos'[b] <= Len(jobs[b])
        PROVE  Len(Deps[jobs[b][pos'[b]]]) \in Nat
    <3>1. jobs[b][pos'[b]] \in Job
      BY <1>1, <2>1, <2>2 DEF BuildTypeOK
    <3> QED
      BY <3>1, GraphAssumption
  <2> QED
    BY <2>1, <2>2 DEF ReadyAt, Current
<1>3. ASSUME NEW c \in Build \ {b} PROVE ReadyAt(c)'
  <2>1. arts'[c] = arts[c] /\ spc'[c] = spc[c] /\ pos'[c] = pos[c]
    BY <1>1 DEF SessionTypeOK
  <2> QED
    BY <2>1 DEF SessionReady, ReadyAt, Current
<1> QED
  BY <1>2, <1>3 DEF SessionReady

(* ScheduleJob goes on to its send, or drops the job after Stop.           *)
LEMMA ScheduleJobInv ==
  ASSUME IInv, NEW b \in Build, ScheduleJob(b), UNCHANGED <<client, workerVars>>
  PROVE  IInv'
<1>1. /\ TypeOK /\ SchedulerTypeOK /\ BuildTypeOK /\ SessionTypeOK /\ HandlerTypeOK
      /\ WorkerTypeOK
  BY TypeGroups DEF IInv
<1>2. /\ UNCHANGED <<files, check, buildVars, handlerVars, jobsQue, artifactLocations, stopped>>
      /\ SchedulerTypeOK'
  <2>1. CASE ScheduleJobStopped
    BY <1>1, <2>1 DEF ScheduleJob, ScheduleJobStopped, SchedulerTypeOK
  <2>2. CASE UNCHANGED schedVars
    BY <1>1, <2>2 DEF ScheduleJob, SchedulerTypeOK, schedVars
  <2> QED
    BY <2>1, <2>2 DEF ScheduleJob
<1>3. SessionTypeOK' /\ SessionReady'
  <2>1. UNCHANGED <<jobs, artifacts>>
    BY <1>2 DEF buildVars, workerVars
  <2>2. CASE /\ pos' = [pos EXCEPT ![b] = @ + 1]
             /\ arts' = [arts EXCEPT ![b] = <<>>]
             /\ UNCHANGED spc
    <3>1. SessionTypeOK'
      BY <1>1, <1>2, <2>2 DEF SessionTypeOK
    <3>2. spc' = [spc EXCEPT ![b] = "deps"]
      BY <1>1, <2>2 DEF ScheduleJob, SessionTypeOK
    <3> QED
      BY <1>1, <2>1, <2>2, <3>1, <3>2, NextJobReady DEF IInv
  <2>3. CASE spc' = [spc EXCEPT ![b] = "send"] /\ UNCHANGED <<pos, arts>>
    <3>1. SessionTypeOK'
      BY <1>1, <1>2, <2>3 DEF SessionTypeOK
    <3> QED
      BY <1>1, <2>1, <2>3, <3>1 DEF IInv, SessionReady, ReadyAt, SessionTypeOK, ScheduleJob, Current
  <2> QED
    BY <2>2, <2>3 DEF ScheduleJob
<1>4. TypeOK'
  <2>1. BuildTypeOK' /\ HandlerTypeOK' /\ WorkerTypeOK'
    BY <1>1, <1>2 DEF BuildTypeOK, HandlerTypeOK, WorkerTypeOK, buildVars, handlerVars,
                      workerVars
  <2> QED
    BY <1>2, <1>3, <2>1 DEF IInv, TypeOK, CoordinatorTypeOK
<1>5. FilesStored'
  <2>1. spc[b] = "deps" /\ spc'[b] \in {"deps", "send"} /\ \A c \in Build \ {b} : spc'[c] = spc[c]
    BY <1>1 DEF ScheduleJob, SessionTypeOK
  <2> QED
    BY <1>2, <2>1 DEF IInv, FilesStored, buildVars
<1>6. HandlerReady' /\ WorkerReady' /\ ResultsStored'
  BY <1>2 DEF IInv, HandlerReady, WorkerReady, ResultsStored, handlerVars, workerVars
<1>7. LocatedStored' /\ SpecsRunnable'
  BY <1>2 DEF IInv, LocatedStored, Located, LocateArtifact, SpecsRunnable, Runnable,
              InFlight, handlerVars, workerVars
<1> QED
  BY <1>3, <1>4, <1>5, <1>6, <1>7 DEF IInv

(* The job spec that enters the queue is runnable.                         *)
LEMMA SendJobInv ==
  ASSUME IInv, NEW b \in Build, SendJob(b), UNCHANGED <<client, workerVars>>
  PROVE  IInv'
<1> DEFINE new == [job |-> Current(b), arts |-> arts[b]]
<1>1. /\ TypeOK /\ SchedulerTypeOK /\ BuildTypeOK /\ SessionTypeOK /\ HandlerTypeOK
      /\ WorkerTypeOK
  BY TypeGroups DEF IInv
<1>2. /\ UNCHANGED <<files, check, buildVars, handlerVars, artifactLocations, stopped, readers>>
      /\ jobsQue' = Append(jobsQue, new)
      /\ pos' = [pos EXCEPT ![b] = @ + 1]
      /\ arts' = [arts EXCEPT ![b] = <<>>]
      /\ spc' = [spc EXCEPT ![b] = "deps"]
      /\ spc[b] = "send"
  BY DEF SendJob, ScheduleJobSend
<1>3. pos[b] \in 1..Len(jobs[b]) /\ jobs[b] \in Seq(Job) /\ Current(b) \in Job
  <2>1. pos[b] <= Len(jobs[b]) /\ pos[b] \in Nat \ {0} /\ jobs[b] \in Seq(Job)
    BY <1>1, <1>2 DEF IInv, SessionReady, ReadyAt, BuildTypeOK, SessionTypeOK
  <2> QED
    BY <2>1 DEF Current
<1>4. new \in JobSpec
  BY <1>1, <1>3 DEF SessionTypeOK, JobSpec
<1>5. jobsQue' \in Seq(JobSpec) /\ Range(jobsQue') = Range(jobsQue) \cup {new}
  BY <1>1, <1>2, <1>4, PutFacts DEF SchedulerTypeOK
<1>6. Runnable(new)
  <2>1. /\ Len(arts[b]) = Len(Deps[Current(b)])
        /\ \A i \in DOMAIN arts[b] : Deps[Current(b)][i] \in artifacts[arts[b][i]]
    BY <1>2, <1>3 DEF IInv, SessionReady, ReadyAt
  <2>2. Inputs[Current(b)] \subseteq files
    <3>1. Current(b) \in Range(jobs[b])
      BY <1>3, RangeFacts DEF Current
    <3>2. /\ Range(jobs[b]) \subseteq Range(graph[b])
          /\ SourceFiles(graph[b]) \subseteq files
      BY <1>2 DEF IInv, FilesStored
    <3> QED
      BY <3>1, <3>2 DEF SourceFiles
  <2> QED
    BY <2>1, <2>2 DEF Runnable
<1>7. SpecsRunnable'
  <2>1. InFlight' = InFlight \cup {new}
    BY <1>2, <1>5 DEF InFlight, handlerVars, workerVars
  <2>2. \A s : Runnable(s) => Runnable(s)'
    BY <1>2 DEF Runnable, workerVars
  <2> QED
    BY <1>6, <2>1, <2>2 DEF IInv, SpecsRunnable
<1>8. TypeOK'
  <2>1. SchedulerTypeOK' /\ SessionTypeOK'
    BY <1>1, <1>2, <1>5 DEF SchedulerTypeOK, SessionTypeOK
  <2>2. BuildTypeOK' /\ HandlerTypeOK' /\ WorkerTypeOK'
    BY <1>1, <1>2 DEF BuildTypeOK, HandlerTypeOK, WorkerTypeOK, buildVars, handlerVars,
                      workerVars
  <2> QED
    BY <1>2, <2>1, <2>2 DEF IInv, TypeOK, CoordinatorTypeOK
<1>9. SessionReady' /\ FilesStored'
  <2>1. UNCHANGED <<jobs, artifacts>>
    BY <1>2 DEF buildVars, workerVars
  <2>2. SessionReady'
    BY <1>1, <1>2, <2>1, NextJobReady DEF IInv
  <2> QED
    BY <1>1, <1>2, <2>2 DEF IInv, FilesStored, SessionTypeOK, buildVars
<1>10. HandlerReady' /\ WorkerReady' /\ ResultsStored' /\ LocatedStored'
  BY <1>2 DEF IInv, HandlerReady, WorkerReady, ResultsStored, LocatedStored, Located,
              LocateArtifact, handlerVars, workerVars
<1> QED
  BY <1>7, <1>8, <1>9, <1>10 DEF IInv

-----------------------------------------------------------------------------
(* The heartbeat handler of a worker.                                      *)

(* A heartbeat brings results of artifacts that are committed.             *)
LEMMA HeartbeatRequestInv ==
  ASSUME IInv, NEW w \in Worker, HeartbeatRequest(w)
  PROVE  IInv'
<1> DEFINE results == [i \in DOMAIN finished[w] |-> [job |-> finished[w][i], at |-> w]]
<1>1. /\ TypeOK /\ SchedulerTypeOK /\ BuildTypeOK /\ SessionTypeOK /\ HandlerTypeOK
      /\ WorkerTypeOK
  BY TypeGroups DEF IInv
<1>2. /\ UNCHANGED <<files, buildVars, sessionVars, data, picked, schedVars, client>>
      /\ UNCHANGED <<toRun, spec, need, fetch, finished, artifacts, wfiles>>
      /\ todo' = [todo EXCEPT ![w] = results]
      /\ slots' = [slots EXCEPT ![w] = FreeSlots]
      /\ resp' = [resp EXCEPT ![w] = {}]
      /\ hpc' = [hpc EXCEPT ![w] = Onward(finished[w], FreeSlots)]
      /\ wpc[w] = "next" /\ wpc' = [wpc EXCEPT ![w] = "heartbeat"]
  BY DEF HeartbeatRequest, SendHeartbeat, Heartbeat
<1>3. finished[w] \in Seq(Job)
  BY <1>1 DEF WorkerTypeOK
<1>4. results \in Seq(Result) /\ (finished[w] # <<>> => results # <<>>)
  <2>1. \A i \in 1..Len(finished[w]) : [job |-> finished[w][i], at |-> w] \in Result
    BY <1>3 DEF Result
  <2>2. DOMAIN finished[w] = 1..Len(finished[w]) /\ Len(finished[w]) \in Nat
    BY <1>3
  <2>3. results \in Seq(Result) /\ Len(results) = Len(finished[w])
    BY <2>1, <2>2
  <2> QED
    BY <1>3, <2>3
<1>5. \A r \in Range(results) : r.job \in artifacts[w] /\ r.at = w
  <2>1. \A i \in DOMAIN finished[w] : finished[w][i] \in artifacts[w]
    BY <1>2 DEF IInv, ResultsStored, Range
  <2>2. ASSUME NEW i \in DOMAIN results
        PROVE  results[i].job \in artifacts[w] /\ results[i].at = w
    BY <2>1
  <2> HIDE DEF results
  <2> QED
    BY <2>2 DEF Range
<1>6. TypeOK'
  <2>1. HandlerTypeOK'
    <3>1. Onward(finished[w], FreeSlots) \in {"complete", "pick", "respond"}
      BY DEF Onward
    <3> QED
      BY <1>1, <1>2, <1>4, <3>1, CoordinatorAssumption DEF HandlerTypeOK
  <2>2. WorkerTypeOK'
    BY <1>1, <1>2 DEF WorkerTypeOK
  <2>3. SchedulerTypeOK' /\ BuildTypeOK' /\ SessionTypeOK'
    BY <1>1, <1>2 DEF SchedulerTypeOK, BuildTypeOK, SessionTypeOK, schedVars, buildVars,
                      sessionVars
  <2> QED
    BY <1>2, <2>1, <2>2, <2>3 DEF IInv, TypeOK, CoordinatorTypeOK
<1>7. HandlerReady'
  BY <1>1, <1>2, <1>4 DEF IInv, HandlerReady, HandlerTypeOK, Onward
<1>8. WorkerReady'
  BY <1>1, <1>2 DEF IInv, WorkerReady, WorkerTypeOK
<1>9. ResultsStored'
  BY <1>1, <1>2, <1>5 DEF IInv, ResultsStored, WorkerTypeOK, HandlerTypeOK
<1>10. SpecsRunnable'
  <2>1. InFlight' \subseteq InFlight
    BY <1>1, <1>2 DEF InFlight, HandlerTypeOK, schedVars
  <2> QED
    BY <1>1, <1>2, <2>1, StaysRunnable DEF IInv
<1>11. SessionReady' /\ FilesStored' /\ LocatedStored'
  BY <1>2 DEF IInv, SessionReady, ReadyAt, Current, FilesStored, LocatedStored, Located,
              LocateArtifact, buildVars, sessionVars, schedVars
<1> QED
  BY <1>6, <1>7, <1>8, <1>9, <1>10, <1>11 DEF IInv

(* The location that OnJobComplete stores is right.                        *)
LEMMA CompleteJobInv ==
  ASSUME IInv, NEW w \in Worker, CompleteJob(w), UNCHANGED <<client, workerVars>>
  PROVE  IInv'
<1> DEFINE r == Head(todo[w])
<1>1. /\ TypeOK /\ SchedulerTypeOK /\ BuildTypeOK /\ SessionTypeOK /\ HandlerTypeOK
      /\ WorkerTypeOK
  BY TypeGroups DEF IInv
<1>2. /\ UNCHANGED <<files, buildVars, sessionVars, todo, data, slots, picked, resp>>
      /\ UNCHANGED <<jobsQue, stopped, readers>>
      /\ artifactLocations' = [artifactLocations EXCEPT ![r.job] = r.at]
      /\ hpc[w] = "complete" /\ hpc' = [hpc EXCEPT ![w] = "receive"]
  BY DEF CompleteJob, OnJobComplete
<1>3. r \in Result /\ r \in Range(todo[w])
  <2>1. todo[w] \in Seq(Result) /\ todo[w] # <<>>
    BY <1>1, <1>2 DEF IInv, HandlerReady, HandlerTypeOK
  <2> QED
    BY <2>1, TakeFacts
<1>4. r.job \in Job /\ r.at \in Worker /\ r.job \in artifacts[r.at]
  BY <1>3 DEF IInv, ResultsStored, Result
<1>5. TypeOK'
  <2>1. SchedulerTypeOK'
    BY <1>1, <1>2, <1>4 DEF SchedulerTypeOK
  <2>2. HandlerTypeOK'
    BY <1>1, <1>2 DEF HandlerTypeOK
  <2>3. BuildTypeOK' /\ SessionTypeOK' /\ WorkerTypeOK'
    BY <1>1, <1>2 DEF BuildTypeOK, SessionTypeOK, WorkerTypeOK, buildVars, sessionVars,
                      workerVars
  <2> QED
    BY <1>2, <2>1, <2>2, <2>3 DEF IInv, TypeOK, CoordinatorTypeOK
<1>6. LocatedStored'
  BY <1>1, <1>2, <1>4 DEF IInv, LocatedStored, Located, LocateArtifact, SchedulerTypeOK,
                          workerVars
<1>7. HandlerReady'
  BY <1>1, <1>2 DEF IInv, HandlerReady, HandlerTypeOK
<1>8. WorkerReady' /\ ResultsStored' /\ SpecsRunnable'
  BY <1>2 DEF IInv, WorkerReady, ResultsStored, SpecsRunnable, Runnable, InFlight,
              workerVars
<1>9. SessionReady' /\ FilesStored'
  BY <1>2 DEF IInv, SessionReady, ReadyAt, Current, FilesStored, buildVars, sessionVars,
              workerVars
<1> QED
  BY <1>5, <1>6, <1>7, <1>8, <1>9 DEF IInv

(* The handler gets and locks the data of a build.                         *)
LEMMA GetDataInv ==
  ASSUME IInv, NEW w \in Worker, ReceiveData(w) \/ LockData(w),
         UNCHANGED <<client, workerVars>>
  PROVE  IInv'
<1>1. /\ TypeOK /\ SchedulerTypeOK /\ BuildTypeOK /\ SessionTypeOK /\ HandlerTypeOK
      /\ WorkerTypeOK
  BY TypeGroups DEF IInv
<1>2. /\ UNCHANGED <<files, graph, jobs, needFiles, sessionVars, todo, slots, picked, resp,
                     schedVars>>
  BY DEF ReceiveData, LockData
<1>3. BuildTypeOK' /\ HandlerTypeOK' /\ HandlerReady'
  <2>1. CASE ReceiveData(w)
    <3> DEFINE j == Head(todo[w]).job
    <3>1. j \in Job
      <4>1. todo[w] \in Seq(Result) /\ todo[w] # <<>>
        BY <1>1, <2>1 DEF IInv, HandlerReady, HandlerTypeOK, ReceiveData
      <4>2. Head(todo[w]) \in Result
        BY <4>1, TakeFacts
      <4> QED
        BY <4>2 DEF Result
    <3>2. Head(buildByJob[j]) \in Build /\ Tail(buildByJob[j]) \in Seq(Build)
      <4>1. buildByJob[j] \in Seq(Build) /\ buildByJob[j] # <<>>
        BY <1>1, <2>1, <3>1 DEF ReceiveData, BuildTypeOK
      <4> QED
        BY <4>1, TakeFacts
    <3>3. /\ data' = [data EXCEPT ![w] = Head(buildByJob[j])]
          /\ buildByJob' = [buildByJob EXCEPT ![j] = Tail(buildByJob[j])]
          /\ hpc[w] = "receive" /\ hpc' = [hpc EXCEPT ![w] = "lock"]
          /\ UNCHANGED <<mu, jobsDoneCnt, status, written, stream>>
      BY <1>1, <2>1, <3>1 DEF ReceiveData, BuildTypeOK
    <3>4. BuildTypeOK'
      BY <1>1, <1>2, <3>2, <3>3 DEF BuildTypeOK
    <3>5. HandlerTypeOK'
      BY <1>1, <1>2, <3>2, <3>3 DEF HandlerTypeOK
    <3>6. HandlerReady'
      BY <1>1, <1>2, <3>2, <3>3 DEF IInv, HandlerReady, HandlerTypeOK
    <3> QED
      BY <3>4, <3>5, <3>6
  <2>2. CASE LockData(w)
    <3>1. data[w] \in Build
      BY <2>2 DEF IInv, HandlerReady, LockData
    <3>2. BuildTypeOK'
      BY <1>1, <2>2, <3>1 DEF LockData, BuildTypeOK
    <3>3. HandlerTypeOK'
      BY <1>1, <2>2 DEF LockData, HandlerTypeOK
    <3>4. HandlerReady'
      BY <1>1, <2>2 DEF IInv, LockData, HandlerReady, HandlerTypeOK
    <3> QED
      BY <3>2, <3>3, <3>4
  <2> QED
    BY <2>1, <2>2
<1>4. TypeOK'
  <2>1. SchedulerTypeOK' /\ SessionTypeOK' /\ WorkerTypeOK'
    BY <1>1, <1>2 DEF SchedulerTypeOK, SessionTypeOK, WorkerTypeOK, schedVars, sessionVars,
                      workerVars
  <2> QED
    BY <1>2, <1>3, <2>1 DEF IInv, TypeOK, CoordinatorTypeOK
<1>5. WorkerReady' /\ ResultsStored' /\ SpecsRunnable'
  BY <1>2 DEF IInv, WorkerReady, ResultsStored, SpecsRunnable, Runnable, InFlight,
              schedVars, workerVars
<1>6. SessionReady' /\ FilesStored' /\ LocatedStored'
  BY <1>2 DEF IInv, SessionReady, ReadyAt, Current, FilesStored, LocatedStored, Located,
              LocateArtifact, schedVars, sessionVars, workerVars
<1> QED
  BY <1>3, <1>4, <1>5, <1>6 DEF IInv

(* What EndResult leaves behind: the next result, or the next iteration.   *)
LEMMA EndResultFacts ==
  ASSUME TypeOK, HandlerReady, ResultsStored, NEW w \in Worker, EndResult(w),
         hpc[w] \in {"report", "finish"}
  PROVE  /\ mu' \in [Build -> Build \cup Worker \cup {Nil}]
         /\ data' \in [Worker -> Build \cup {Nil}]
         /\ todo' \in [Worker -> Seq(Result)]
         /\ \A v \in Worker : Range(todo'[v]) \subseteq Range(todo[v])
         /\ \A v \in Worker \ {w} : /\ hpc'[v] = hpc[v]
                                    /\ todo'[v] = todo[v]
                                    /\ data'[v] = data[v]
         /\ hpc' = [hpc EXCEPT ![w] = Onward(todo'[w], slots[w])]
<1>1. BuildTypeOK /\ HandlerTypeOK
  BY TypeGroups
<1>2. /\ Head(todo[w]) \in Result
      /\ Tail(todo[w]) \in Seq(Result)
      /\ Range(Tail(todo[w])) \subseteq Range(todo[w])
  <2>1. todo[w] \in Seq(Result) /\ todo[w] # <<>>
    BY <1>1 DEF HandlerReady, HandlerTypeOK
  <2> QED
    BY <2>1, TakeFacts
<1>3. /\ mu' \in [Build -> Build \cup Worker \cup {Nil}]
      /\ data' \in [Worker -> Build \cup {Nil}]
  BY <1>1 DEF EndResult, BuildTypeOK, HandlerTypeOK
<1>4. todo' = [todo EXCEPT ![w] = Tail(todo[w])] /\ todo'[w] = Tail(todo[w])
  BY <1>1 DEF EndResult, HandlerTypeOK
<1>5. /\ todo' \in [Worker -> Seq(Result)]
      /\ \A v \in Worker : Range(todo'[v]) \subseteq Range(todo[v])
  BY <1>1, <1>2, <1>4 DEF HandlerTypeOK
<1>6. /\ \A v \in Worker \ {w} : /\ hpc'[v] = hpc[v]
                                 /\ todo'[v] = todo[v]
                                 /\ data'[v] = data[v]
      /\ hpc' = [hpc EXCEPT ![w] = Onward(todo'[w], slots[w])]
  BY <1>1, <1>4 DEF EndResult, HandlerTypeOK
<1> QED
  BY <1>3, <1>5, <1>6

(* The report of a result is in the status stream; the handler goes on.    *)
LEMMA ReportInv ==
  ASSUME IInv, NEW w \in Worker, ReportJob(w) \/ ReportBuild(w),
         UNCHANGED <<client, workerVars>>
  PROVE  IInv'
<1>1. /\ TypeOK /\ SchedulerTypeOK /\ BuildTypeOK /\ SessionTypeOK /\ HandlerTypeOK
      /\ WorkerTypeOK
  BY TypeGroups DEF IInv
<1>2. UNCHANGED <<files, graph, jobs, needFiles, written, stream, buildByJob, sessionVars,
                  slots, picked, resp, schedVars>>
  BY DEF ReportJob, ReportBuild
<1>3. /\ hpc[w] \in {"report", "finish"}
      /\ data[w] \in Build
      /\ todo[w] \in Seq(Result) /\ todo[w] # <<>>
  BY <1>1 DEF IInv, HandlerReady, HandlerTypeOK, ReportJob, ReportBuild
<1>4. Head(todo[w]).job \in Job
  <2>1. Head(todo[w]) \in Result
    BY <1>3, TakeFacts
  <2> QED
    BY <2>1 DEF Result
<1>5. status' \in [Build -> Seq(Update)] /\ jobsDoneCnt' \in [Build -> Nat]
  <2>1. JobFinished(Head(todo[w]).job) \in Update /\ BuildFinished \in Update
    BY <1>4 DEF JobFinished, BuildFinished, Update
  <2>2. \A u \in Update : Append(status[data[w]], u) \in Seq(Update)
    BY <1>1, <1>3, PutFacts DEF BuildTypeOK
  <2>3. CASE ReportJob(w)
    <3>1. status' = [status EXCEPT ![data[w]] = Append(status[data[w]], JobFinished(Head(todo[w]).job))]
      BY <1>1, <1>3, <2>3 DEF ReportJob, Updated, BuildTypeOK
    <3>2. jobsDoneCnt' \in [Build -> Nat]
      <4>1. jobsDoneCnt' = [jobsDoneCnt EXCEPT ![data[w]] = jobsDoneCnt[data[w]] + 1]
        BY <1>1, <1>3, <2>3 DEF ReportJob, BuildTypeOK
      <4>2. jobsDoneCnt[data[w]] + 1 \in Nat
        BY <1>1, <1>3 DEF BuildTypeOK
      <4> QED
        BY <1>1, <4>1, <4>2 DEF BuildTypeOK
    <3> QED
      BY <1>1, <2>1, <2>2, <3>1, <3>2 DEF BuildTypeOK
  <2>4. CASE ReportBuild(w)
    <3>1. status' = [status EXCEPT ![data[w]] = Append(status[data[w]], BuildFinished)]
      BY <1>1, <1>3, <2>4 DEF ReportBuild, Updated, BuildTypeOK
    <3>2. jobsDoneCnt' = jobsDoneCnt
      BY <2>4 DEF ReportBuild
    <3> QED
      BY <1>1, <2>1, <2>2, <3>1, <3>2 DEF BuildTypeOK
  <2> QED
    BY <2>3, <2>4
<1>6. /\ mu' \in [Build -> Build \cup Worker \cup {Nil}]
      /\ HandlerTypeOK'
      /\ HandlerReady'
      /\ \A v \in Worker : Range(todo'[v]) \subseteq Range(todo[v])
  <2>1. CASE EndResult(w)
    <3>1. /\ mu' \in [Build -> Build \cup Worker \cup {Nil}]
          /\ data' \in [Worker -> Build \cup {Nil}]
          /\ todo' \in [Worker -> Seq(Result)]
          /\ \A v \in Worker : Range(todo'[v]) \subseteq Range(todo[v])
          /\ \A v \in Worker \ {w} : /\ hpc'[v] = hpc[v]
                                     /\ todo'[v] = todo[v]
                                     /\ data'[v] = data[v]
          /\ hpc' = [hpc EXCEPT ![w] = Onward(todo'[w], slots[w])]
      BY <1>3, <2>1, EndResultFacts DEF IInv
    <3>2. HandlerTypeOK'
      BY <1>1, <1>2, <3>1 DEF HandlerTypeOK, Onward
    <3>3. HandlerReady'
      BY <1>1, <1>2, <3>1 DEF IInv, HandlerReady, HandlerTypeOK, Onward
    <3> QED
      BY <3>1, <3>2, <3>3
  <2>2. CASE hpc' = [hpc EXCEPT ![w] = "finish"] /\ UNCHANGED <<mu, data, todo>>
    <3>1. mu' \in [Build -> Build \cup Worker \cup {Nil}] /\ HandlerTypeOK'
      BY <1>1, <1>2, <2>2 DEF BuildTypeOK, HandlerTypeOK
    <3>2. HandlerReady'
      BY <1>1, <1>2, <1>3, <2>2 DEF IInv, HandlerReady, HandlerTypeOK
    <3> QED
      BY <2>2, <3>1, <3>2
  <2> QED
    BY <2>1, <2>2 DEF ReportJob, ReportBuild
<1>7. TypeOK'
  <2>1. BuildTypeOK'
    BY <1>1, <1>2, <1>5, <1>6 DEF BuildTypeOK
  <2>2. SchedulerTypeOK' /\ SessionTypeOK' /\ WorkerTypeOK'
    BY <1>1, <1>2 DEF SchedulerTypeOK, SessionTypeOK, WorkerTypeOK, schedVars, sessionVars,
                      workerVars
  <2> QED
    BY <1>2, <1>6, <2>1, <2>2 DEF IInv, TypeOK, CoordinatorTypeOK
<1>8. ResultsStored'
  BY <1>6 DEF IInv, ResultsStored, workerVars
<1>9. WorkerReady' /\ SpecsRunnable'
  BY <1>2 DEF IInv, WorkerReady, SpecsRunnable, Runnable, InFlight, schedVars, workerVars
<1>10. SessionReady' /\ FilesStored' /\ LocatedStored'
  BY <1>2 DEF IInv, SessionReady, ReadyAt, Current, FilesStored, LocatedStored, Located,
              LocateArtifact, schedVars, sessionVars, workerVars
<1> QED
  BY <1>6, <1>7, <1>8, <1>9, <1>10 DEF IInv

(* The picked job comes from the queue.                                    *)
LEMMA PickJobInv ==
  ASSUME IInv, NEW w \in Worker, PickJob(w), UNCHANGED <<client, workerVars>>
  PROVE  IInv'
<1>1. /\ TypeOK /\ SchedulerTypeOK /\ BuildTypeOK /\ SessionTypeOK /\ HandlerTypeOK
      /\ WorkerTypeOK
  BY TypeGroups DEF IInv
<1>2. /\ UNCHANGED <<files, buildVars, sessionVars, todo, data, resp>>
      /\ UNCHANGED <<artifactLocations, stopped, readers>>
      /\ jobsQue # <<>> /\ jobsQue' = Tail(jobsQue)
      /\ picked' = [picked EXCEPT ![w] = Head(jobsQue)]
      /\ slots' = [slots EXCEPT ![w] = slots[w] - 1]
      /\ hpc[w] = "pick" /\ hpc' = [hpc EXCEPT ![w] = "check"]
  BY <1>1 DEF PickJob, PickJobTake, HandlerTypeOK
<1>3. /\ Head(jobsQue) \in JobSpec
      /\ Tail(jobsQue) \in Seq(JobSpec)
      /\ Head(jobsQue) \in Range(jobsQue)
      /\ Range(Tail(jobsQue)) \subseteq Range(jobsQue)
  <2>1. jobsQue \in Seq(JobSpec)
    BY <1>1 DEF SchedulerTypeOK
  <2> QED
    BY <1>2, <2>1, TakeFacts
<1>4. slots[w] - 1 \in Nat
  BY <1>1, <1>2 DEF IInv, HandlerReady, HandlerTypeOK
<1>5. TypeOK'
  <2>1. SchedulerTypeOK'
    BY <1>1, <1>2, <1>3 DEF SchedulerTypeOK
  <2>2. HandlerTypeOK'
    BY <1>1, <1>2, <1>3, <1>4 DEF HandlerTypeOK
  <2>3. BuildTypeOK' /\ SessionTypeOK' /\ WorkerTypeOK'
    BY <1>1, <1>2 DEF BuildTypeOK, SessionTypeOK, WorkerTypeOK, buildVars, sessionVars,
                      workerVars
  <2> QED
    BY <1>2, <2>1, <2>2, <2>3 DEF IInv, TypeOK, CoordinatorTypeOK
<1>6. HandlerReady'
  <2>1. Head(jobsQue) # Nil
    BY <1>3, NilAssumption
  <2> QED
    BY <1>1, <1>2, <2>1 DEF IInv, HandlerReady, HandlerTypeOK
<1>7. SpecsRunnable'
  <2>1. \A v \in Worker : picked'[v] \in {picked[v], Head(jobsQue)}
    BY <1>1, <1>2 DEF HandlerTypeOK
  <2>2. InFlight' \subseteq InFlight
    BY <1>2, <1>3, <2>1 DEF InFlight, workerVars
  <2> QED
    BY <1>1, <1>2, <2>2, StaysRunnable DEF IInv, workerVars
<1>8. WorkerReady' /\ ResultsStored'
  BY <1>2 DEF IInv, WorkerReady, ResultsStored, workerVars
<1>9. SessionReady' /\ FilesStored' /\ LocatedStored'
  BY <1>2 DEF IInv, SessionReady, ReadyAt, Current, FilesStored, LocatedStored, Located,
              LocateArtifact, buildVars, sessionVars, workerVars
<1> QED
  BY <1>5, <1>6, <1>7, <1>8, <1>9 DEF IInv

(* The handler stops picking, or hands out what it picked.                 *)
LEMMA PickNilInv ==
  ASSUME IInv, NEW w \in Worker, NEW c \in BOOLEAN, PickNil(w, c),
         UNCHANGED <<client, workerVars>>
  PROVE  IInv'
<1>1. /\ TypeOK /\ SchedulerTypeOK /\ BuildTypeOK /\ SessionTypeOK /\ HandlerTypeOK
      /\ WorkerTypeOK
  BY TypeGroups DEF IInv
<1>2. /\ UNCHANGED <<files, buildVars, sessionVars, todo, data, slots, picked, resp, schedVars>>
      /\ hpc' = [hpc EXCEPT ![w] = "respond"]
  BY DEF PickNil, PickJobNil
<1>3. TypeOK'
  <2>1. HandlerTypeOK'
    BY <1>1, <1>2 DEF HandlerTypeOK
  <2>2. SchedulerTypeOK' /\ BuildTypeOK' /\ SessionTypeOK' /\ WorkerTypeOK'
    BY <1>1, <1>2 DEF SchedulerTypeOK, BuildTypeOK, SessionTypeOK, WorkerTypeOK, schedVars,
                      buildVars, sessionVars, workerVars
  <2> QED
    BY <1>2, <2>1, <2>2 DEF IInv, TypeOK, CoordinatorTypeOK
<1>4. HandlerReady'
  BY <1>1, <1>2 DEF IInv, HandlerReady, HandlerTypeOK
<1>5. WorkerReady' /\ ResultsStored' /\ SpecsRunnable'
  BY <1>2 DEF IInv, WorkerReady, ResultsStored, SpecsRunnable, Runnable, InFlight,
              schedVars, workerVars
<1>6. SessionReady' /\ FilesStored' /\ LocatedStored'
  BY <1>2 DEF IInv, SessionReady, ReadyAt, Current, FilesStored, LocatedStored, Located,
              LocateArtifact, schedVars, buildVars, sessionVars, workerVars
<1> QED
  BY <1>3, <1>4, <1>5, <1>6 DEF IInv

(* A cached result names the worker that the scheduler located.            *)
LEMMA CheckCacheInv ==
  ASSUME IInv, NEW w \in Worker, CheckCache(w), UNCHANGED <<client, workerVars>>
  PROVE  IInv'
<1> DEFINE j == picked[w].job
           cached == [job |-> j, at |-> LocateArtifact(j)]
<1>1. /\ TypeOK /\ SchedulerTypeOK /\ BuildTypeOK /\ SessionTypeOK /\ HandlerTypeOK
      /\ WorkerTypeOK
  BY TypeGroups DEF IInv
<1>2. /\ UNCHANGED <<files, buildVars, sessionVars, data, slots, schedVars>>
      /\ hpc[w] = "check"
      /\ picked' = [picked EXCEPT ![w] = Nil]
  BY DEF CheckCache
<1>3. picked[w] \in JobSpec /\ picked[w] # Nil /\ j \in Job
  BY <1>1, <1>2 DEF IInv, HandlerReady, HandlerTypeOK, JobSpec
<1>4. /\ HandlerTypeOK' /\ HandlerReady'
      /\ \A v \in Worker : resp'[v] \subseteq resp[v] \cup ({picked[v]} \ {Nil})
      /\ \A v \in Worker : \A r \in Range(todo'[v]) : r.job \in artifacts[r.at]
  <2>1. CASE Located(j)
    <3>1. cached \in Result /\ cached.job \in artifacts[cached.at]
      BY <1>1, <1>3, <2>1 DEF IInv, LocatedStored, Located, LocateArtifact, Result,
                              SchedulerTypeOK
    <3> HIDE DEF cached
    <3>2. <<cached>> \in Seq(Result) /\ <<cached>> # <<>> /\ Range(<<cached>>) = {cached}
      BY <3>1 DEF Range
    <3>3. /\ todo' = [todo EXCEPT ![w] = <<cached>>]
          /\ hpc' = [hpc EXCEPT ![w] = "complete"]
          /\ UNCHANGED resp
      BY <2>1 DEF CheckCache, cached
    <3>4. HandlerTypeOK'
      BY <1>1, <1>2, <3>2, <3>3 DEF HandlerTypeOK
    <3>5. HandlerReady'
      BY <1>1, <1>2, <3>2, <3>3 DEF IInv, HandlerReady, HandlerTypeOK
    <3>6. \A v \in Worker : \A r \in Range(todo'[v]) : r.job \in artifacts[r.at]
      BY <1>1, <3>1, <3>2, <3>3 DEF IInv, ResultsStored, HandlerTypeOK
    <3> QED
      BY <3>3, <3>4, <3>5, <3>6
  <2>2. CASE ~Located(j)
    <3>1. /\ resp' = [resp EXCEPT ![w] = resp[w] \cup {picked[w]}]
          /\ hpc' = [hpc EXCEPT ![w] = Onward(<<>>, slots[w])]
          /\ UNCHANGED todo
      BY <1>1, <2>2 DEF CheckCache, HandlerTypeOK
    <3>2. HandlerTypeOK'
      BY <1>1, <1>2, <1>3, <3>1 DEF HandlerTypeOK, Onward
    <3>3. HandlerReady'
      BY <1>1, <1>2, <3>1 DEF IInv, HandlerReady, HandlerTypeOK, Onward
    <3>4. \A v \in Worker : resp'[v] \subseteq resp[v] \cup ({picked[v]} \ {Nil})
      BY <1>1, <1>3, <3>1 DEF HandlerTypeOK
    <3> QED
      BY <3>1, <3>2, <3>3, <3>4 DEF IInv, ResultsStored
  <2> QED
    BY <2>1, <2>2
<1>5. TypeOK'
  <2>1. SchedulerTypeOK' /\ BuildTypeOK' /\ SessionTypeOK' /\ WorkerTypeOK'
    BY <1>1, <1>2 DEF SchedulerTypeOK, BuildTypeOK, SessionTypeOK, WorkerTypeOK, schedVars,
                      buildVars, sessionVars, workerVars
  <2> QED
    BY <1>2, <1>4, <2>1 DEF IInv, TypeOK, CoordinatorTypeOK
<1>6. ResultsStored'
  BY <1>4 DEF IInv, ResultsStored, workerVars
<1>7. SpecsRunnable'
  <2>1. \A v \in Worker : picked'[v] \in {picked[v], Nil}
    BY <1>1, <1>2 DEF HandlerTypeOK
  <2>2. InFlight' \subseteq InFlight
    BY <1>2, <1>4, <2>1 DEF InFlight, schedVars, workerVars
  <2> QED
    BY <1>1, <1>2, <2>2, StaysRunnable DEF IInv, workerVars
<1>8. WorkerReady' /\ SessionReady' /\ FilesStored' /\ LocatedStored'
  BY <1>2 DEF IInv, WorkerReady, SessionReady, ReadyAt, Current, FilesStored, LocatedStored,
              Located, LocateArtifact, schedVars, buildVars, sessionVars, workerVars
<1> QED
  BY <1>4, <1>5, <1>6, <1>7, <1>8 DEF IInv

(* The response reaches the worker, or is lost with its jobs.              *)
LEMMA HeartbeatResponseInv ==
  ASSUME IInv, NEW w \in Worker, HeartbeatResponse(w)
  PROVE  IInv'
<1>1. /\ TypeOK /\ SchedulerTypeOK /\ BuildTypeOK /\ SessionTypeOK /\ HandlerTypeOK
      /\ WorkerTypeOK
  BY TypeGroups DEF IInv
<1>2. /\ UNCHANGED <<files, buildVars, sessionVars, todo, data, picked, schedVars, client>>
      /\ UNCHANGED <<spec, need, fetch, artifacts, wfiles>>
      /\ resp' = [resp EXCEPT ![w] = {}]
      /\ slots' = [slots EXCEPT ![w] = 0]
      /\ hpc' = [hpc EXCEPT ![w] = "idle"]
      /\ \/ UNCHANGED <<wpc, toRun, finished>>
         \/ /\ wpc[w] = "heartbeat" /\ wpc' = [wpc EXCEPT ![w] = "next"]
            /\ toRun' = [toRun EXCEPT ![w] = resp[w]]
            /\ finished' = [finished EXCEPT ![w] = <<>>]
  BY DEF HeartbeatResponse, Respond, ReceiveResponse, workerVars
<1>3. TypeOK'
  <2>1. HandlerTypeOK'
    BY <1>1, <1>2 DEF HandlerTypeOK
  <2>2. WorkerTypeOK'
    <3>1. CASE UNCHANGED <<wpc, toRun, finished>>
      BY <1>1, <1>2, <3>1 DEF WorkerTypeOK
    <3>2. CASE /\ wpc' = [wpc EXCEPT ![w] = "next"]
               /\ toRun' = [toRun EXCEPT ![w] = resp[w]]
               /\ finished' = [finished EXCEPT ![w] = <<>>]
      <4>1. resp[w] \subseteq JobSpec
        BY <1>1 DEF HandlerTypeOK
      <4> QED
        BY <1>1, <1>2, <3>2, <4>1 DEF WorkerTypeOK
    <3> QED
      BY <1>2, <3>1, <3>2
  <2>3. SchedulerTypeOK' /\ BuildTypeOK' /\ SessionTypeOK'
    BY <1>1, <1>2 DEF SchedulerTypeOK, BuildTypeOK, SessionTypeOK, schedVars, buildVars,
                      sessionVars
  <2> QED
    BY <1>2, <2>1, <2>2, <2>3 DEF IInv, TypeOK, CoordinatorTypeOK
<1>4. HandlerReady'
  BY <1>1, <1>2 DEF IInv, HandlerReady, HandlerTypeOK
<1>5. WorkerReady'
  BY <1>1, <1>2 DEF IInv, WorkerReady, WorkerTypeOK
<1>6. ResultsStored'
  <2>1. CASE UNCHANGED <<wpc, toRun, finished>>
    BY <1>2, <2>1 DEF IInv, ResultsStored
  <2>2. CASE /\ wpc' = [wpc EXCEPT ![w] = "next"]
             /\ finished' = [finished EXCEPT ![w] = <<>>]
    <3>1. Range(finished'[w]) = {}
      BY <1>1, <2>2 DEF Range, WorkerTypeOK
    <3> QED
      BY <1>1, <1>2, <2>2, <3>1 DEF IInv, ResultsStored, WorkerTypeOK
  <2> QED
    BY <1>2, <2>1, <2>2
<1>7. SpecsRunnable'
  <2>1. \A v \in Worker : resp'[v] \cup toRun'[v] \subseteq resp[v] \cup toRun[v]
    BY <1>1, <1>2 DEF HandlerTypeOK, WorkerTypeOK
  <2>2. InFlight' \subseteq InFlight
    BY <1>2, <2>1 DEF InFlight, schedVars
  <2> QED
    BY <1>1, <1>2, <2>2, StaysRunnable DEF IInv
<1>8. SessionReady' /\ FilesStored' /\ LocatedStored'
  BY <1>2 DEF IInv, SessionReady, ReadyAt, Current, FilesStored, LocatedStored, Located,
              LocateArtifact, schedVars, buildVars, sessionVars
<1> QED
  BY <1>3, <1>4, <1>5, <1>6, <1>7, <1>8 DEF IInv

-----------------------------------------------------------------------------
(* The workers.  What they do leaves the coordinator's promises alone, as  *)
(* long as no artifact is lost.                                            *)

(* Any step of a worker that keeps the artifacts of all workers.           *)
LEMMA WorkerFrame ==
  ASSUME IInv, UNCHANGED <<client, coordVars, schedVars>>, WorkerTypeOK',
         \A v \in Worker : artifacts[v] \subseteq artifacts'[v]
  PROVE  /\ TypeOK' /\ HandlerReady' /\ SessionReady' /\ FilesStored' /\ LocatedStored'
         /\ \A v \in Worker : \A r \in Range(todo'[v]) : r.job \in artifacts'[r.at]
<1>1. /\ TypeOK /\ SchedulerTypeOK /\ BuildTypeOK /\ SessionTypeOK /\ HandlerTypeOK
  BY TypeGroups DEF IInv
<1>2. TypeOK'
  <2>1. SchedulerTypeOK' /\ BuildTypeOK' /\ SessionTypeOK'
    BY <1>1 DEF SchedulerTypeOK, BuildTypeOK, SessionTypeOK, schedVars, coordVars,
                buildVars, sessionVars
  <2>2. HandlerTypeOK'
    BY <1>1 DEF HandlerTypeOK, coordVars, handlerVars
  <2> QED
    BY <1>1, <2>1, <2>2 DEF TypeOK, CoordinatorTypeOK, coordVars
<1>3. SessionReady'
  <2> SUFFICES ASSUME NEW b \in Build PROVE ReadyAt(b)'
    BY DEF SessionReady
  <2>1. \A i \in DOMAIN arts[b] : arts[b][i] \in Worker
    BY <1>1 DEF SessionTypeOK
  <2>2. UNCHANGED <<spc, pos, arts, jobs>>
    BY DEF coordVars, buildVars, sessionVars
  <2> QED
    BY <2>1, <2>2 DEF IInv, SessionReady, ReadyAt, Current
<1>4. HandlerReady' /\ FilesStored'
  BY DEF IInv, HandlerReady, FilesStored, coordVars, buildVars, sessionVars, handlerVars
<1>5. LocatedStored'
  BY <1>1 DEF IInv, LocatedStored, Located, LocateArtifact, SchedulerTypeOK, schedVars
<1>6. \A v \in Worker : \A r \in Range(todo'[v]) : r.job \in artifacts'[r.at]
  <2> SUFFICES ASSUME NEW v \in Worker, NEW r \in Range(todo[v])
               PROVE  r.job \in artifacts'[r.at]
    BY DEF coordVars, handlerVars
  <2>1. todo[v] \in Seq(Result)
    BY <1>1 DEF HandlerTypeOK
  <2>2. r \in Result
    BY <2>1, RangeFacts
  <2>3. r.at \in Worker
    BY <2>2 DEF Result
  <2> QED
    BY <2>3 DEF IInv, ResultsStored
<1> QED
  BY <1>2, <1>3, <1>4, <1>5, <1>6

(* Whatever ends a worker's Run, its caches are served as they are.        *)
LEMMA RunReturnsInv ==
  ASSUME IInv, NEW w \in Worker, RunReturns(w), UNCHANGED <<client, coordVars, schedVars>>
  PROVE  IInv'
<1>1. TypeOK /\ WorkerTypeOK
  BY TypeGroups DEF IInv
<1>2. /\ wpc' = [wpc EXCEPT ![w] = "dead"]
      /\ UNCHANGED <<toRun, spec, need, fetch, finished, artifacts, wfiles>>
  BY DEF RunReturns
<1>3. WorkerTypeOK'
  BY <1>1, <1>2 DEF WorkerTypeOK
<1>4. /\ TypeOK' /\ HandlerReady' /\ SessionReady' /\ FilesStored' /\ LocatedStored'
      /\ \A v \in Worker : \A r \in Range(todo'[v]) : r.job \in artifacts'[r.at]
  BY <1>2, <1>3, WorkerFrame
<1>5. WorkerReady' /\ ResultsStored'
  BY <1>1, <1>2, <1>4 DEF IInv, WorkerReady, ResultsStored, WorkerTypeOK
<1>6. SpecsRunnable'
  BY <1>2 DEF IInv, SpecsRunnable, Runnable, InFlight, schedVars, coordVars, handlerVars
<1> QED
  BY <1>4, <1>5, <1>6 DEF IInv

(* A worker takes a job from the last response.                            *)
LEMMA TakeJobInv ==
  ASSUME IInv, NEW w \in Worker, TakeJob(w), UNCHANGED <<client, coordVars, schedVars>>
  PROVE  IInv'
<1>1. TypeOK /\ WorkerTypeOK
  BY TypeGroups DEF IInv
<1>2. PICK s \in toRun[w] :
        /\ toRun' = [toRun EXCEPT ![w] = toRun[w] \ {s}]
        /\ spec' = [spec EXCEPT ![w] = s]
        /\ need' = [need EXCEPT ![w] = DOMAIN s.arts]
        /\ fetch' = [fetch EXCEPT ![w] = Inputs[s.job]]
  BY <1>1 DEF TakeJob, WorkerTypeOK
<1>3. /\ wpc[w] = "next" /\ wpc' = [wpc EXCEPT ![w] = "collect"]
      /\ UNCHANGED <<finished, artifacts, wfiles>>
  BY DEF TakeJob
<1>4. /\ s \in JobSpec /\ s # Nil
      /\ DOMAIN s.arts \subseteq Nat
      /\ Inputs[s.job] \subseteq File
  <2>1. s \in JobSpec
    BY <1>1 DEF WorkerTypeOK
  <2>2. s.arts \in Seq(Worker) /\ s.job \in Job
    BY <2>1 DEF JobSpec
  <2> QED
    BY <2>1, <2>2, NilAssumption, GraphAssumption
<1>5. WorkerTypeOK'
  BY <1>1, <1>2, <1>3, <1>4 DEF WorkerTypeOK
<1>6. /\ TypeOK' /\ HandlerReady' /\ SessionReady' /\ FilesStored' /\ LocatedStored'
      /\ \A v \in Worker : \A r \in Range(todo'[v]) : r.job \in artifacts'[r.at]
  BY <1>3, <1>5, WorkerFrame
<1>7. WorkerReady'
  BY <1>1, <1>2, <1>3, <1>4 DEF IInv, WorkerReady, WorkerTypeOK
<1>8. ResultsStored'
  <2>1. \A v \in Worker \ {w} : wpc'[v] = wpc[v] /\ spec'[v] = spec[v]
    BY <1>1, <1>2, <1>3 DEF WorkerTypeOK
  <2>2. wpc'[w] = "collect" /\ Range(finished[w]) \subseteq artifacts[w]
    BY <1>1, <1>3 DEF IInv, ResultsStored, WorkerTypeOK
  <2> QED
    BY <1>3, <1>6, <2>1, <2>2 DEF IInv, ResultsStored
<1>9. SpecsRunnable'
  <2>1. \A v \in Worker : /\ toRun'[v] \subseteq toRun[v]
                          /\ spec'[v] \in {spec[v]} \cup toRun[v]
    BY <1>1, <1>2 DEF WorkerTypeOK
  <2>2. InFlight' \subseteq InFlight
    BY <2>1 DEF InFlight, schedVars, coordVars, handlerVars
  <2> QED
    BY <1>1, <1>3, <2>2, StaysRunnable DEF IInv, coordVars
<1> QED
  BY <1>6, <1>7, <1>8, <1>9 DEF IInv

(* A dependency is collected, or Run returns.                              *)
LEMMA CollectArtifactInv ==
  ASSUME IInv, NEW w \in Worker, CollectArtifact(w),
         UNCHANGED <<client, coordVars, schedVars>>
  PROVE  IInv'
<1>1. TypeOK /\ WorkerTypeOK
  BY TypeGroups DEF IInv
<1>2. PICK i \in need[w] :
        \/ RunReturns(w)
        \/ /\ artifacts' = [artifacts EXCEPT ![w] = artifacts[w] \cup {Deps[spec[w].job][i]}]
           /\ need' = [need EXCEPT ![w] = need[w] \ {i}]
           /\ UNCHANGED <<wpc, toRun, spec, fetch, finished, wfiles>>
  BY <1>1 DEF CollectArtifact, WorkerTypeOK
<1>3. CASE RunReturns(w)
  BY <1>3, RunReturnsInv
<1>4. CASE /\ artifacts' = [artifacts EXCEPT ![w] = artifacts[w] \cup {Deps[spec[w].job][i]}]
           /\ need' = [need EXCEPT ![w] = need[w] \ {i}]
           /\ UNCHANGED <<wpc, toRun, spec, fetch, finished, wfiles>>
  <2>1. spec[w] \in InFlight /\ spec[w] \in JobSpec /\ i \in DOMAIN spec[w].arts
    <3>1. spec[w] # Nil /\ i \in DOMAIN spec[w].arts
      BY DEF IInv, WorkerReady, CollectArtifact
    <3> QED
      BY <1>1, <3>1 DEF InFlight, WorkerTypeOK
  <2>2. Deps[spec[w].job][i] \in Job
    <3>1. spec[w].job \in Job /\ spec[w].arts \in Seq(Worker)
      BY <2>1 DEF JobSpec
    <3>2. Len(spec[w].arts) = Len(Deps[spec[w].job])
      BY <2>1 DEF IInv, SpecsRunnable, Runnable
    <3> QED
      BY <2>1, <3>1, <3>2, GraphAssumption
  <2>3. WorkerTypeOK'
    BY <1>1, <1>4, <2>2 DEF WorkerTypeOK
  <2>4. \A v \in Worker : artifacts[v] \subseteq artifacts'[v]
    BY <1>1, <1>4 DEF WorkerTypeOK
  <2>5. /\ TypeOK' /\ HandlerReady' /\ SessionReady' /\ FilesStored' /\ LocatedStored'
        /\ \A v \in Worker : \A r \in Range(todo'[v]) : r.job \in artifacts'[r.at]
    BY <2>3, <2>4, WorkerFrame
  <2>6. WorkerReady'
    BY <1>1, <1>4 DEF IInv, WorkerReady, WorkerTypeOK
  <2>7. ResultsStored'
    BY <1>4, <2>4, <2>5 DEF IInv, ResultsStored
  <2>8. SpecsRunnable'
    <3>1. InFlight' \subseteq InFlight
      BY <1>4 DEF InFlight, schedVars, coordVars, handlerVars
    <3> QED
      BY <1>1, <2>4, <3>1, StaysRunnable DEF IInv, coordVars
  <2> QED
    BY <2>5, <2>6, <2>7, <2>8 DEF IInv
<1> QED
  BY <1>2, <1>3, <1>4

(* The source files are there, or Run returns.                             *)
LEMMA DownloadFileInv ==
  ASSUME IInv, NEW w \in Worker, DownloadFile(w, files),
         UNCHANGED <<client, coordVars, schedVars>>
  PROVE  IInv'
<1>1. TypeOK /\ WorkerTypeOK
  BY TypeGroups DEF IInv
<1>2. PICK f \in fetch[w] :
        \/ RunReturns(w)
        \/ /\ wfiles' = [wfiles EXCEPT ![w] = wfiles[w] \cup {f}]
           /\ fetch' = [fetch EXCEPT ![w] = fetch[w] \ {f}]
           /\ UNCHANGED <<wpc, toRun, spec, need, finished, artifacts>>
  BY <1>1 DEF DownloadFile, WorkerTypeOK
<1>3. CASE RunReturns(w)
  BY <1>3, RunReturnsInv
<1>4. CASE /\ wfiles' = [wfiles EXCEPT ![w] = wfiles[w] \cup {f}]
           /\ fetch' = [fetch EXCEPT ![w] = fetch[w] \ {f}]
           /\ UNCHANGED <<wpc, toRun, spec, need, finished, artifacts>>
  <2>1. WorkerTypeOK'
    BY <1>1, <1>4 DEF WorkerTypeOK
  <2>2. /\ TypeOK' /\ HandlerReady' /\ SessionReady' /\ FilesStored' /\ LocatedStored'
        /\ \A v \in Worker : \A r \in Range(todo'[v]) : r.job \in artifacts'[r.at]
    BY <1>4, <2>1, WorkerFrame
  <2>3. WorkerReady' /\ ResultsStored' /\ SpecsRunnable'
    BY <1>4, <2>2 DEF IInv, WorkerReady, ResultsStored, SpecsRunnable, Runnable, InFlight,
                      schedVars, coordVars, handlerVars
  <2> QED
    BY <2>2, <2>3 DEF IInv
<1> QED
  BY <1>2, <1>3, <1>4

(* Create succeeds, or Run returns.                                        *)
LEMMA CreateArtifactInv ==
  ASSUME IInv, NEW w \in Worker, CreateArtifact(w),
         UNCHANGED <<client, coordVars, schedVars>>
  PROVE  IInv'
<1>1. TypeOK /\ WorkerTypeOK
  BY TypeGroups DEF IInv
<1>2. CASE RunReturns(w)
  BY <1>2, RunReturnsInv
<1>3. CASE /\ wpc[w] = "collect" /\ wpc' = [wpc EXCEPT ![w] = "run"]
           /\ UNCHANGED <<toRun, spec, need, fetch, finished, artifacts, wfiles>>
  <2>1. WorkerTypeOK'
    BY <1>1, <1>3 DEF WorkerTypeOK
  <2>2. /\ TypeOK' /\ HandlerReady' /\ SessionReady' /\ FilesStored' /\ LocatedStored'
        /\ \A v \in Worker : \A r \in Range(todo'[v]) : r.job \in artifacts'[r.at]
    BY <1>3, <2>1, WorkerFrame
  <2>3. WorkerReady' /\ ResultsStored'
    BY <1>1, <1>3, <2>2 DEF IInv, WorkerReady, ResultsStored, WorkerTypeOK
  <2>4. SpecsRunnable'
    BY <1>3 DEF IInv, SpecsRunnable, Runnable, InFlight, schedVars, coordVars, handlerVars
  <2> QED
    BY <2>2, <2>3, <2>4 DEF IInv
<1> QED
  BY <1>2, <1>3 DEF CreateArtifact

(* The result is noted before the commit that it stands for.               *)
LEMMA RunCmdsInv ==
  ASSUME IInv, NEW w \in Worker, RunCmds(w), UNCHANGED <<client, coordVars, schedVars>>
  PROVE  IInv'
<1>1. TypeOK /\ WorkerTypeOK
  BY TypeGroups DEF IInv
<1>2. /\ wpc[w] = "run" /\ wpc' = [wpc EXCEPT ![w] = "commit"]
      /\ finished' = [finished EXCEPT ![w] = Append(finished[w], spec[w].job)]
      /\ UNCHANGED <<toRun, spec, need, fetch, artifacts, wfiles>>
  BY <1>1 DEF RunCmds, WorkerTypeOK
<1>3. spec[w].job \in Job
  BY <1>1, <1>2 DEF IInv, WorkerReady, WorkerTypeOK, JobSpec
<1>4. /\ Append(finished[w], spec[w].job) \in Seq(Job)
      /\ Range(Append(finished[w], spec[w].job)) = Range(finished[w]) \cup {spec[w].job}
  BY <1>1, <1>3, PutFacts DEF WorkerTypeOK
<1>5. WorkerTypeOK'
  BY <1>1, <1>2, <1>4 DEF WorkerTypeOK
<1>6. /\ TypeOK' /\ HandlerReady' /\ SessionReady' /\ FilesStored' /\ LocatedStored'
      /\ \A v \in Worker : \A r \in Range(todo'[v]) : r.job \in artifacts'[r.at]
  BY <1>2, <1>5, WorkerFrame
<1>7. WorkerReady' /\ ResultsStored'
  BY <1>1, <1>2, <1>4, <1>6 DEF IInv, WorkerReady, ResultsStored, WorkerTypeOK
<1>8. SpecsRunnable'
  BY <1>2 DEF IInv, SpecsRunnable, Runnable, InFlight, schedVars, coordVars, handlerVars
<1> QED
  BY <1>6, <1>7, <1>8 DEF IInv

(* A committed artifact is what its result, noted before, says it is.      *)
LEMMA CommitArtifactInv ==
  ASSUME IInv, NEW w \in Worker, CommitArtifact(w),
         UNCHANGED <<client, coordVars, schedVars>>
  PROVE  IInv'
<1>1. TypeOK /\ WorkerTypeOK
  BY TypeGroups DEF IInv
<1>2. /\ wpc[w] = "commit" /\ wpc' = [wpc EXCEPT ![w] = "next"]
      /\ artifacts' = [artifacts EXCEPT ![w] = artifacts[w] \cup {spec[w].job}]
      /\ spec' = [spec EXCEPT ![w] = Nil]
      /\ UNCHANGED <<toRun, need, fetch, finished, wfiles>>
  BY <1>1 DEF CommitArtifact, WorkerTypeOK
<1>3. spec[w].job \in Job
  BY <1>1, <1>2 DEF IInv, WorkerReady, WorkerTypeOK, JobSpec
<1>4. WorkerTypeOK' /\ \A v \in Worker : artifacts[v] \subseteq artifacts'[v]
  BY <1>1, <1>2, <1>3 DEF WorkerTypeOK
<1>5. /\ TypeOK' /\ HandlerReady' /\ SessionReady' /\ FilesStored' /\ LocatedStored'
      /\ \A v \in Worker : \A r \in Range(todo'[v]) : r.job \in artifacts'[r.at]
  BY <1>4, WorkerFrame
<1>6. WorkerReady'
  BY <1>1, <1>2 DEF IInv, WorkerReady, WorkerTypeOK
<1>7. ResultsStored'
  <2>1. ASSUME NEW v \in Worker \ {w}
        PROVE  wpc'[v] = wpc[v] /\ spec'[v] = spec[v] /\ artifacts'[v] = artifacts[v]
    BY <1>1, <1>2 DEF WorkerTypeOK
  <2>2. Range(finished[w]) \subseteq artifacts'[w]
    BY <1>1, <1>2 DEF IInv, ResultsStored, WorkerTypeOK
  <2>3. wpc'[w] = "next" /\ UNCHANGED finished
    BY <1>1, <1>2 DEF WorkerTypeOK
  <2> QED
    BY <1>5, <2>1, <2>2, <2>3 DEF IInv, ResultsStored
<1>8. SpecsRunnable'
  <2>1. \A v \in Worker : spec'[v] \in {spec[v], Nil}
    BY <1>1, <1>2 DEF WorkerTypeOK
  <2>2. InFlight' \subseteq InFlight
    BY <1>2, <2>1 DEF InFlight, schedVars, coordVars, handlerVars
  <2> QED
    BY <1>1, <1>4, <2>2, StaysRunnable DEF IInv, coordVars
<1> QED
  BY <1>5, <1>6, <1>7, <1>8 DEF IInv

-----------------------------------------------------------------------------
(* The invariant holds at first, and every step preserves it.              *)

(* A system that just started.                                             *)
LEMMA InitInv == Init => IInv
<1> SUFFICES ASSUME Init PROVE IInv
  OBVIOUS
<1> USE DEF Init, NewScheduler, CoordinatorInit, WorkerInit
<1>1. /\ \A S : <<>> \in Seq(S)
      /\ Range(<<>>) = {}
      /\ DOMAIN <<>> = {}
  BY DEF Range
<1>2. BuildTypeOK
  <2>1. graph \in [Build -> Seq(Job)] /\ jobs \in [Build -> Seq(Job)]
    BY <1>1
  <2>2. mu \in [Build -> Build \cup Worker \cup {Nil}]
    OBVIOUS
  <2>3. status \in [Build -> Seq(Update)] /\ buildByJob \in [Job -> Seq(Build)]
    BY <1>1
  <2>4. needFiles \in [Build -> SUBSET File] /\ stream \in [Build -> BOOLEAN]
    OBVIOUS
  <2>5. jobsDoneCnt \in [Build -> Nat] /\ written \in [Build -> Nat]
    OBVIOUS
  <2> QED
    BY <2>1, <2>2, <2>3, <2>4, <2>5 DEF BuildTypeOK
<1>3. SessionTypeOK
  <2>1. arts \in [Build -> Seq(Worker)]
    BY <1>1
  <2>2. pos \in [Build -> Nat \ {0}]
    OBVIOUS
  <2>3. spc \in [Build -> {"new", "push", "open", "lock", "deps", "send", "signalled"}]
    OBVIOUS
  <2> QED
    BY <2>1, <2>2, <2>3 DEF SessionTypeOK
<1>4. HandlerTypeOK
  <2>1. todo \in [Worker -> Seq(Result)]
    BY <1>1
  <2>2. data \in [Worker -> Build \cup {Nil}] /\ picked \in [Worker -> JobSpec \cup {Nil}]
    OBVIOUS
  <2>3. slots \in [Worker -> Nat] /\ resp \in [Worker -> SUBSET JobSpec]
    OBVIOUS
  <2>4. hpc \in [Worker -> {"idle", "complete", "receive", "lock", "report", "finish",
                            "pick", "check", "respond"}]
    OBVIOUS
  <2> QED
    BY <2>1, <2>2, <2>3, <2>4 DEF HandlerTypeOK
<1>5. WorkerTypeOK
  <2>1. finished \in [Worker -> Seq(Job)]
    BY <1>1
  <2>2. spec \in [Worker -> JobSpec \cup {Nil}] /\ toRun \in [Worker -> SUBSET JobSpec]
    OBVIOUS
  <2>3. /\ need \in [Worker -> SUBSET Nat]
        /\ fetch \in [Worker -> SUBSET File]
        /\ wfiles \in [Worker -> SUBSET File]
        /\ artifacts \in [Worker -> SUBSET Job]
    OBVIOUS
  <2>4. wpc \in [Worker -> {"next", "heartbeat", "collect", "run", "commit", "dead"}]
    OBVIOUS
  <2> QED
    BY <2>1, <2>2, <2>3, <2>4 DEF WorkerTypeOK
<1>6. SchedulerTypeOK
  BY <1>1 DEF SchedulerTypeOK
<1>7. TypeOK
  BY <1>2, <1>3, <1>4, <1>5, <1>6 DEF TypeOK, CoordinatorTypeOK
<1>8. HandlerReady /\ WorkerReady
  BY DEF HandlerReady, WorkerReady
<1>9. SessionReady
  BY DEF SessionReady, ReadyAt
<1>10. FilesStored
  BY <1>1 DEF FilesStored, SourceFiles
<1>11. ResultsStored /\ LocatedStored
  BY <1>1 DEF ResultsStored, LocatedStored, Located, LocateArtifact
<1>12. SpecsRunnable
  <2>1. InFlight = {}
    BY <1>1 DEF InFlight
  <2> QED
    BY <2>1 DEF SpecsRunnable
<1> QED
  BY <1>7, <1>8, <1>9, <1>10, <1>11, <1>12 DEF IInv

(* The steps of a client.                                                  *)
LEMMA ClientStepInv ==
  ASSUME IInv, NEW b \in Build, ClientStart(b) \/ ClientStep(b) \/ ClientGivesUp(b)
  PROVE  IInv'
<1>1. client \in [Build -> {"building", "done", "gone"}]
  BY TypeGroups DEF IInv
<1>2. CASE ClientStart(b)
  BY <1>2, CheckFilesInv DEF ClientStart
<1>3. CASE ClientUpload(b)
  <2>1. ASSUME NEW f \in needFiles[b], StoreFile(b, f), UNCHANGED <<client, workerVars>>
        PROVE  IInv'
    BY <2>1, StoreFileInv
  <2>2. ASSUME NEW f \in needFiles[b], RefuseFile(b, f), UNCHANGED workerVars,
               client' = [client EXCEPT ![b] = "gone"]
        PROVE  IInv'
    BY <1>1, <2>2, ClientInv DEF RefuseFile
  <2> QED
    BY <1>3, <2>1, <2>2 DEF ClientUpload
<1>4. CASE ClientSignal(b)
  BY <1>4, SignalBuildInv DEF ClientSignal
<1>5. CASE ClientDone(b)
  BY <1>1, <1>5, ClientInv DEF ClientDone
<1>6. CASE ClientGivesUp(b)
  BY <1>1, <1>6, ClientInv DEF ClientGivesUp
<1> QED
  BY <1>2, <1>3, <1>4, <1>5, <1>6 DEF ClientStep

(* The steps of the handlers of a build.                                   *)
LEMMA BuildStepInv ==
  ASSUME IInv, NEW b \in Build, StartStep(b) \/ StatusStep(b) \/ SessionStep(b)
  PROVE  IInv'
<1>1. CASE StartStep(b)
  BY <1>1, CheckFileInv, StartBuildInv DEF StartStep
<1>2. CASE StatusStep(b)
  BY <1>2, StreamInv DEF StatusStep
<1>3. CASE SessionStep(b)
  BY <1>3, PushDataInv, SessionLockInv, LocateDepInv, ScheduleJobInv, SendJobInv
     DEF SessionStep
<1> QED
  BY <1>1, <1>2, <1>3

(* The steps of a heartbeat handler.                                       *)
LEMMA HandlerStepInv ==
  ASSUME IInv, NEW w \in Worker, HandlerStep(w)
  PROVE  IInv'
<1>1. CASE /\ CompleteJob(w) \/ ReceiveData(w) \/ LockData(w) \/ ReportJob(w) \/ ReportBuild(w)
           /\ UNCHANGED <<client, workerVars>>
  BY <1>1, CompleteJobInv, GetDataInv, ReportInv
<1>2. CASE /\ PickJob(w) \/ PickNil(w, wpc[w] = "dead") \/ CheckCache(w)
           /\ UNCHANGED <<client, workerVars>>
  BY <1>2, PickJobInv, PickNilInv, CheckCacheInv
<1>3. CASE HeartbeatResponse(w)
  BY <1>3, HeartbeatResponseInv
<1> QED
  BY <1>1, <1>2, <1>3 DEF HandlerStep

(* The steps of a worker, and its faults.                                  *)
LEMMA WorkerStepInv ==
  ASSUME IInv, NEW w \in Worker, WorkerStep(w) \/ WorkerFault(w)
  PROVE  IInv'
<1>1. CASE HeartbeatRequest(w)
  BY <1>1, HeartbeatRequestInv
<1>2. CASE WorkerStep(w) /\ ~HeartbeatRequest(w)
  BY <1>2, TakeJobInv, CollectArtifactInv, DownloadFileInv, CreateArtifactInv, RunCmdsInv,
     CommitArtifactInv DEF WorkerStep
<1>3. CASE WorkerFault(w)
  BY <1>3, RunReturnsInv DEF WorkerFault, CmdFails, Crash
<1> QED
  BY <1>1, <1>2, <1>3

(* Coordinator.Stop.                                                       *)
LEMMA SchedulerStopsInv ==
  ASSUME IInv, SchedulerStops
  PROVE  IInv'
<1>1. /\ TypeOK /\ SchedulerTypeOK /\ BuildTypeOK /\ SessionTypeOK /\ HandlerTypeOK
      /\ WorkerTypeOK
  BY TypeGroups DEF IInv
<1>2. UNCHANGED <<client, coordVars, workerVars, jobsQue, artifactLocations>>
  BY DEF SchedulerStops, StopScheduler, Stop
<1>3. TypeOK'
  <2>1. SchedulerTypeOK'
    BY <1>1 DEF SchedulerTypeOK, SchedulerStops, StopScheduler, Stop
  <2>2. BuildTypeOK' /\ SessionTypeOK'
    BY <1>1, <1>2 DEF BuildTypeOK, SessionTypeOK, coordVars, buildVars, sessionVars
  <2>3. HandlerTypeOK' /\ WorkerTypeOK'
    BY <1>1, <1>2 DEF HandlerTypeOK, WorkerTypeOK, coordVars, handlerVars, workerVars
  <2> QED
    BY <1>2, <2>1, <2>2, <2>3 DEF IInv, TypeOK, CoordinatorTypeOK, coordVars
<1>4. SessionReady' /\ FilesStored'
  BY <1>2 DEF IInv, SessionReady, ReadyAt, FilesStored, Current, coordVars, buildVars,
              sessionVars, workerVars
<1>5. HandlerReady' /\ WorkerReady' /\ ResultsStored'
  BY <1>2 DEF IInv, HandlerReady, WorkerReady, ResultsStored, coordVars, handlerVars,
              workerVars
<1>6. LocatedStored' /\ SpecsRunnable'
  BY <1>2 DEF IInv, LocatedStored, Located, LocateArtifact, SpecsRunnable, Runnable,
              InFlight, coordVars, handlerVars, workerVars
<1> QED
  BY <1>3, <1>4, <1>5, <1>6 DEF IInv

(* Every step of the system.                                               *)
LEMMA StepInv == IInv /\ [Next]_vars => IInv'
<1> SUFFICES ASSUME IInv, [Next]_vars PROVE IInv'
  OBVIOUS
<1>1. ASSUME NEW b \in Build,
             \/ ClientStart(b) \/ ClientStep(b) \/ ClientGivesUp(b)
             \/ StartStep(b) \/ StatusStep(b) \/ SessionStep(b)
      PROVE  IInv'
  BY <1>1, ClientStepInv, BuildStepInv
<1>2. ASSUME NEW w \in Worker, HandlerStep(w) \/ WorkerStep(w) \/ WorkerFault(w)
      PROVE  IInv'
  BY <1>2, HandlerStepInv, WorkerStepInv
<1>3. CASE SchedulerStops
  BY <1>3, SchedulerStopsInv
<1>4. CASE UNCHANGED vars
  <2>1. client \in [Build -> {"building", "done", "gone"}]
    BY TypeGroups DEF IInv
  <2>2. UNCHANGED <<coordVars, schedVars, workerVars>> /\ client' = client
    BY <1>4 DEF vars
  <2> QED
    BY <2>1, <2>2, ClientInv
<1> QED
  BY <1>1, <1>2, <1>3, <1>4 DEF Next, AllReturned

-----------------------------------------------------------------------------
(* IInv is an invariant: every thread finds what it relies on at each of   *)
(* its positions, in every behaviour of the system, faults included.       *)
THEOREM Invariant == Spec => []IInv
<1>1. Init => IInv
  BY InitInv
<1>2. IInv /\ [Next]_vars => IInv'
  BY StepInv
<1> QED
  BY <1>1, <1>2, PTL DEF Spec

(* Every variable of the coordinator, the workers and the clients stays of *)
(* its type.                                                               *)
THEOREM TypeCorrect == Spec => []TypeOK
<1>1. IInv => TypeOK
  BY DEF IInv
<1> QED
  BY <1>1, Invariant, PTL

(* The artifact the scheduler locates for a dependency (coordinator.go:172 *)
(* takes it to be there) is in the cache of the worker it names, whatever  *)
(* was computed twice, given up or lost.                                   *)
THEOREM ArtifactsAreWhereLocated == Spec => []LocatedStored
<1>1. IInv => LocatedStored
  BY DEF IInv
<1> QED
  BY <1>1, Invariant, PTL

(* A worker finds the artifacts and the source files that its job spec     *)
(* names (worker.go:99-128), wherever between SignalBuild and its commands *)
(* the spec is, and whatever happened to the build since.                  *)
THEOREM JobsFindTheirInputs == Spec => []SpecsRunnable
<1>1. IInv => SpecsRunnable
  BY DEF IInv
<1> QED
  BY <1>1, Invariant, PTL
=============================================================================
