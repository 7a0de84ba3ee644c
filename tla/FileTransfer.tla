---------------------------- MODULE FileTransfer ---------------------------
(***************************************************************************)
(* The coordinator's file cache between its users: the PUT /file handlers  *)
(* of the clients' uploads (distbuild/pkg/filecache/handler.go), which     *)
(* singleflight runs one at a time for a file, and the readers of a file,  *)
(* which are StartBuild's check (dist/coordinator.go:121) and GET /file.   *)
(*                                                                         *)
(* Faults says what may fail: "body", reading the body of a request (its   *)
(* client is gone), "disk", making the directory of the file, and "create",*)
(* making the file in it.                                                  *)
(***************************************************************************)
EXTENDS ArtifactCache

CONSTANTS
  Put,      \* the PUT requests
  Reader,   \* the readers, each of which reads over and over
  NoCall,   \* singleflight: no call for the file is going on
  Faults

ASSUME TransferAssumption ==
  /\ Thread = Put \cup Reader
  /\ Put \cap Reader = {}
  /\ NoCall \notin Put
  /\ Faults \subseteq {"body", "disk", "create"}

VARIABLES
  put,    \* where a PUT request is
  file,   \* the file it uploads
  res,    \* what it answers: 200 or 500
  call    \* singleflight: the request that runs the call for a file

vars == <<cacheVars, put, file, res, call>>

Init ==
  /\ NewCache
  /\ put = [p \in Put |-> "new"]
  /\ file \in [Put -> ID]
  /\ res = [p \in Put |-> "none"]
  /\ call = [f \in ID |-> NoCall]

PutGoes(p, step) == put' = [put EXCEPT ![p] = step]
Answers(p, r) == res' = [res EXCEPT ![p] = r]

-----------------------------------------------------------------------------
(* singleflight.Do: the first request for a file runs the call, those that *)
(* come while it runs wait for it.                                         *)
Do(p) ==
  /\ put[p] = "new"
  /\ IF call[file[p]] = NoCall
     THEN /\ call' = [call EXCEPT ![file[p]] = p]
          /\ PutGoes(p, "lead")
     ELSE /\ PutGoes(p, "wait")
          /\ UNCHANGED call
  /\ UNCHANGED <<cacheVars, file, res>>

(* The call has returned: all its requests get its result.                 *)
Finish(p) ==
  /\ put[p] = "return"
  /\ LET joined == {q \in Put : put[q] = "wait" /\ file[q] = file[p]}
     IN  /\ put' = [q \in Put |-> IF q \in joined \cup {p} THEN "done" ELSE put[q]]
         /\ res' = [q \in Put |-> IF q \in joined THEN res[p] ELSE res[q]]
  /\ call' = [call EXCEPT ![file[p]] = NoCall]
  /\ UNCHANGED <<cacheVars, file>>

-----------------------------------------------------------------------------
(* Slip: any error of Write is taken for a file that is there already.     *)
WriteAnyError(p) ==
  /\ put[p] = "lead"
  /\ \/ /\ Create(p, file[p])
        /\ PutGoes(p, "run")
        /\ UNCHANGED res
     \/ /\ WriteLockError(file[p], FALSE) # "nil"
        /\ Answers(p, "ok")
        /\ PutGoes(p, "return")
        /\ UNCHANGED cacheVars
  /\ UNCHANGED <<file, call>>

(* The call.  Write: a file that is there already will do, any other error *)
(* is the answer.                                                          *)
Write(p) ==
  /\ put[p] = "lead"
  /\ \/ /\ Create(p, file[p])
        /\ PutGoes(p, "run")
        /\ UNCHANGED res
     \/ /\ WriteLockError(file[p], FALSE) # "nil"
        /\ Answers(p, IF WriteLockError(file[p], FALSE) = "ErrExists" THEN "ok" ELSE "err")
        /\ PutGoes(p, "return")
        /\ UNCHANGED cacheVars
  /\ UNCHANGED <<file, call>>

(* When os.Create fails Write calls its own result "abort", which is nil:  *)
(* the panic ends the requests of the call, and the write lock stays.      *)
OpenFile(p) ==
  /\ \/ MakeDir(p) /\ UNCHANGED <<put, res>>
     \/ "disk" \in Faults /\ MakeDirFails(p) /\ Answers(p, "err") /\ UNCHANGED put
     \/ "create" \in Faults /\ MakeDir(p) /\ Answers(p, "err") /\ PutGoes(p, "return")
  /\ UNCHANGED <<file, call>>

(* The body is read and written to the file, or the write is aborted.      *)
ReadBody(p) ==
  /\ put[p] = "run"
  /\ \/ Fill(p) /\ UNCHANGED res
     \/ "body" \in Faults /\ at[p] = "write" /\ Abort(p) /\ Answers(p, "err")
  /\ UNCHANGED <<put, file, call>>

(* Close commits.                                                          *)
Close(p) ==
  /\ Commit(p)
  /\ Answers(p, "ok")
  /\ UNCHANGED <<put, file, call>>

(* Slip: the call does not return when the write was aborted.              *)
ReturnOk(p) ==
  /\ res[p] = "ok"
  /\ WriteUnlock(p)
  /\ PutGoes(p, "return")
  /\ UNCHANGED <<file, res, call>>

Return(p) ==
  /\ WriteUnlock(p)
  /\ PutGoes(p, "return")
  /\ UNCHANGED <<file, res, call>>

-----------------------------------------------------------------------------
PutStep(p) ==
  Do(p) \/ Finish(p) \/ Write(p) \/ OpenFile(p) \/ ReadBody(p) \/ Close(p) \/ Return(p)

Read(r) ==
  /\ (\E f \in ID : Get(r, f)) \/ GetFound(r) \/ GetNotFound(r) \/ Unlock(r)
  /\ UNCHANGED <<put, file, res, call>>

Next == (\E p \in Put : PutStep(p)) \/ (\E r \in Reader : Read(r))

Spec == Init /\ [][Next]_vars

(* A request that came is handled: the runtime runs its goroutine.         *)
FairSpec == Spec /\ \A p \in Put : WF_vars(PutStep(p))

-----------------------------------------------------------------------------
TypeOK ==
  /\ CacheTypeOK
  /\ put \in [Put -> {"new", "wait", "lead", "run", "return", "done"}]
  /\ file \in [Put -> ID]
  /\ res \in [Put -> {"none", "ok", "err"}]
  /\ call \in [ID -> Put \cup {NoCall}]

(* handler.go:60-97: a client that is told 200 can signal its build: its   *)
(* file is stored whole, whoever wrote it and whosever body failed.        *)
OkIsStored == \A p \in Put : put[p] = "done" /\ res[p] = "ok" => cacheDir[file[p]] = "whole"

(* filecache/README.md:16: an upload waits until the first one is through, *)
(* and is answered then.                                                   *)
UploadReturns == \A p \in Put : (put[p] # "new") ~> (put[p] = "done")

(* filecache/README.md:14-17: clients that upload the same files at the    *)
(* same time are all served.                                               *)
UploadSucceeds == \A p \in Put : res[p] # "err"

-----------------------------------------------------------------------------
(* The inductive invariant, beside CacheInv.  Where a request is in its    *)
(* use of the cache; one whose os.Create failed keeps its lock for ever.   *)
PutPlaces ==
  \A p \in Put :
    /\ put[p] \in {"new", "wait", "lead"} => at[p] = "idle"
    /\ put[p] = "run" => at[p] \in {"mkdir", "write", "written", "unlock"} /\ on[p] = file[p]
    /\ put[p] \in {"return", "done"} => at[p] \in {"idle", "write"}

(* The call of a file is one request, which is in the middle of it, and    *)
(* whoever waits waits for a call.                                         *)
CallsRun ==
  /\ \A p \in Put : put[p] \in {"lead", "run", "return"} <=> call[file[p]] = p
  /\ \A f \in ID : call[f] # NoCall => file[call[f]] = f
  /\ \A p \in Put : put[p] = "wait" => call[file[p]] # NoCall

(* What is written and what is stored is whole: nobody removes a file.     *)
FilesWhole ==
  /\ \A p \in Put : at[p] = "written" => tmpDir[on[p]] = "whole"
  /\ \A f \in ID : Stored(f) => cacheDir[f] = "whole"

(* An answer is about the present state of the cache, not only about what  *)
(* the request itself did.                                                 *)
OkStored == \A p \in Put : res[p] = "ok" => cacheDir[file[p]] = "whole"

TransferInv == CacheInv /\ TypeOK /\ PutPlaces /\ CallsRun /\ FilesWhole /\ OkStored
=============================================================================
