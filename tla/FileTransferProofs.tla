------------------------- MODULE FileTransferProofs -------------------------
(***************************************************************************)
(* Uploads of files, for every number of requests, files and readers, and  *)
(* whatever fails: who is answered 200 finds the file stored.  TransferInv *)
(* (module FileTransfer) is inductive.                                     *)
(***************************************************************************)
EXTENDS FileTransfer, ArtifactCacheProofs

LEMMA Requests ==
  ASSUME NEW p \in Put
  PROVE  p \in Thread /\ p # NoCall
BY TransferAssumption

LEMMA TransferInit == Init => TransferInv
<1> SUFFICES ASSUME Init PROVE TransferInv
  OBVIOUS
<1>1. CacheInv
  BY CacheInitInv DEF Init
<1>2. TypeOK
  BY <1>1 DEF Init, TypeOK, CacheInv
<1>3. PutPlaces /\ FilesWhole /\ OkStored
  BY Requests DEF Init, NewCache, PutPlaces, FilesWhole, OkStored, Stored
<1>4. CallsRun
  BY <1>2, Requests DEF Init, CallsRun, TypeOK
<1> QED
  BY <1>1, <1>2, <1>3, <1>4 DEF TransferInv

-----------------------------------------------------------------------------
(* A step of a request or of a reader is at most one of the cache.         *)
LEMMA CacheOfTransfer ==
  ASSUME TransferInv, [Next]_vars
  PROVE  CacheInv'
<1>1. ASSUME NEW p \in Put, PutStep(p)
      PROVE  CacheStep(p) \/ UNCHANGED cacheVars
  <2>1. file[p] \in ID
    BY DEF TransferInv, TypeOK
  <2>2. CASE Do(p) \/ Finish(p) \/ Close(p) \/ Return(p)
    BY <2>2 DEF Do, Finish, Close, Return, CacheStep
  <2>3. CASE Write(p)
    BY <2>1, <2>3 DEF Write, CacheStep
  <2>4. CASE OpenFile(p) \/ ReadBody(p)
    BY <2>4 DEF OpenFile, ReadBody, CacheStep
  <2> QED
    BY <1>1, <2>2, <2>3, <2>4 DEF PutStep
<1>2. ASSUME NEW r \in Reader, Read(r)
      PROVE  CacheStep(r)
  BY <1>2 DEF Read, CacheStep
<1>3. (\E t \in Thread : CacheStep(t)) \/ UNCHANGED cacheVars
  BY <1>1, <1>2, TransferAssumption DEF Next, vars, cacheVars
<1>4. [CacheNext]_cacheVars
  BY <1>3 DEF CacheNext
<1> QED
  BY <1>4, CacheStepInv DEF TransferInv

(* What an upload does to the cache: it writes whole files and takes none  *)
(* away, and the others are where they were.                               *)
LEMMA UploadFacts ==
  ASSUME CacheInv, FilesWhole, NEW p \in Put,
         \/ \E f \in ID : Create(p, f)
         \/ MakeDir(p) \/ MakeDirFails(p) \/ Fill(p) \/ Commit(p) \/ Abort(p) \/ WriteUnlock(p)
  PROVE  /\ FilesWhole'
         /\ \A f \in ID : cacheDir[f] = "whole" => cacheDir'[f] = "whole"
         /\ \A t \in Thread \ {p} : at'[t] = at[t] /\ on'[t] = on[t]
<1> USE Requests, TransferAssumption
<1>1. CacheTypeOK
  BY DEF CacheInv
<1>2. ASSUME NEW f \in ID, Create(p, f)
      PROVE  /\ UNCHANGED <<cacheDir, tmpDir>> /\ at'[p] = "mkdir"
             /\ \A t \in Thread \ {p} : at'[t] = at[t] /\ on'[t] = on[t]
  BY <1>1, <1>2 DEF Create, WriteLock, Goes, CacheTypeOK
<1>3. CASE MakeDirFails(p) \/ WriteUnlock(p)
  <2>1. /\ UNCHANGED <<cacheDir, tmpDir, on>> /\ at'[p] # "written"
        /\ \A t \in Thread \ {p} : at'[t] = at[t]
    BY <1>1, <1>3 DEF MakeDirFails, WriteUnlock, Goes, CacheTypeOK
  <2> QED
    BY <2>1 DEF FilesWhole, Stored
<1>4. CASE MakeDir(p) \/ Fill(p) \/ Commit(p) \/ Abort(p)
  <2>1. /\ UNCHANGED on /\ on[p] \in ID
        /\ \A t \in Thread \ {p} : at'[t] = at[t]
        /\ \A t \in Thread \ {p} : at[t] = "written" => on[t] # on[p]
    BY <1>1, <1>4 DEF MakeDir, Fill, Commit, Abort, Goes, CacheInv, CacheTypeOK, OneWriter, Writes
  <2>2. /\ \A f \in ID \ {on[p]} : tmpDir'[f] = tmpDir[f] /\ cacheDir'[f] = cacheDir[f]
        /\ at'[p] = "written" => tmpDir'[on[p]] = "whole"
        /\ cacheDir'[on[p]] \in {cacheDir[on[p]], "whole"}
    BY <1>1, <1>4, <2>1 DEF MakeDir, Fill, Commit, Abort, Goes, CacheTypeOK, FilesWhole
  <2>3. \A q \in Put : at'[q] = "written" => tmpDir'[on'[q]] = "whole"
    BY <1>1, <2>1, <2>2 DEF FilesWhole, CacheTypeOK
  <2>4. \A f \in ID : Stored(f)' => cacheDir'[f] = "whole"
    BY <2>1, <2>2 DEF FilesWhole, Stored
  <2> QED
    BY <2>1, <2>2, <2>3, <2>4 DEF FilesWhole
<1> QED
  BY <1>2, <1>3, <1>4 DEF FilesWhole, Stored

(* Where an upload goes.                                                   *)
LEMMA UploadGoes ==
  ASSUME CacheInv, FilesWhole, NEW p \in Put
  PROVE  /\ \A f \in ID : Create(p, f) => at'[p] = "mkdir" /\ on'[p] = f
         /\ MakeDir(p) => at[p] = "mkdir" /\ at'[p] = "write" /\ on'[p] = on[p]
         /\ MakeDirFails(p) => at[p] = "mkdir" /\ at'[p] = "unlock" /\ on'[p] = on[p]
         /\ Fill(p) => at'[p] = "written" /\ on'[p] = on[p]
         /\ Commit(p) =>
              at[p] = "written" /\ at'[p] = "unlock" /\ on'[p] = on[p]
                /\ cacheDir'[on[p]] = "whole"
         /\ Abort(p) => at'[p] = "unlock" /\ on'[p] = on[p]
         /\ WriteUnlock(p) => at[p] = "unlock" /\ at'[p] = "idle" /\ on'[p] = on[p]
BY Requests DEF Create, WriteLock, MakeDir, MakeDirFails, Fill, Commit, Abort, WriteUnlock, Goes,
                CacheInv, CacheTypeOK, FilesWhole

-----------------------------------------------------------------------------
(* Neither singleflight nor a reader touches the disk.                     *)
LEMMA DoInv ==
  ASSUME TransferInv, CacheInv', NEW p \in Put, Do(p)
  PROVE  TransferInv'
<1> USE Requests DEF TransferInv
<1>1. /\ put[p] = "new" /\ UNCHANGED <<cacheDir, tmpDir, at, on, file, res>>
      /\ file[p] \in ID
      /\ \A q \in Put \ {p} : put'[q] = put[q]
      /\ \/ /\ call[file[p]] = NoCall /\ call' = [call EXCEPT ![file[p]] = p]
            /\ put'[p] = "lead"
         \/ call[file[p]] # NoCall /\ UNCHANGED call /\ put'[p] = "wait"
  BY DEF Do, PutGoes, cacheVars, TypeOK
<1>2. TypeOK'
  BY <1>1 DEF Do, PutGoes, TypeOK, CacheInv
<1>3. PutPlaces' /\ FilesWhole' /\ OkStored'
  BY <1>1 DEF PutPlaces, FilesWhole, Stored, OkStored
<1>4. CallsRun'
  <2>1. CASE call[file[p]] = NoCall
    BY <1>1, <2>1 DEF CallsRun, TypeOK
  <2>2. CASE call[file[p]] # NoCall
    BY <1>1, <2>2 DEF CallsRun
  <2> QED
    BY <2>1, <2>2
<1> QED
  BY <1>2, <1>3, <1>4

LEMMA FinishInv ==
  ASSUME TransferInv, CacheInv', NEW p \in Put, Finish(p)
  PROVE  TransferInv'
<1> USE Requests DEF TransferInv
<1>1. PICK joined \in SUBSET Put :
        /\ joined = {q \in Put : put[q] = "wait" /\ file[q] = file[p]}
        /\ put' = [q \in Put |-> IF q \in joined \cup {p} THEN "done" ELSE put[q]]
        /\ res' = [q \in Put |-> IF q \in joined THEN res[p] ELSE res[q]]
  BY DEF Finish
<1>2. /\ put[p] = "return" /\ UNCHANGED <<cacheDir, tmpDir, at, on, file>>
      /\ call' = [call EXCEPT ![file[p]] = NoCall]
      /\ call[file[p]] = p /\ file[p] \in ID
  BY DEF Finish, cacheVars, CallsRun, TypeOK
<1>3. TypeOK'
  BY <1>1, <1>2 DEF TypeOK, CacheInv
<1>4. PutPlaces'
  BY <1>1, <1>2 DEF PutPlaces
<1>5. FilesWhole' /\ OkStored'
  BY <1>1, <1>2 DEF FilesWhole, Stored, OkStored
<1>6. CallsRun'
  <2>1. ASSUME NEW q \in Put
        PROVE  /\ put'[q] \in {"lead", "run", "return"} <=> call'[file[q]] = q
               /\ put'[q] = "wait" => call'[file[q]] # NoCall
    <3>1. CASE file[q] = file[p]
      BY <1>1, <1>2, <2>1, <3>1 DEF CallsRun, TypeOK
    <3>2. CASE file[q] # file[p]
      BY <1>1, <1>2, <2>1, <3>2 DEF CallsRun, TypeOK
    <3> QED
      BY <3>1, <3>2
  <2>2. \A f \in ID : call'[f] # NoCall => file[call'[f]] = f
    BY <1>2 DEF CallsRun, TypeOK
  <2> QED
    BY <1>2, <2>1, <2>2 DEF CallsRun
<1> QED
  BY <1>3, <1>4, <1>5, <1>6

LEMMA ReadInv ==
  ASSUME TransferInv, CacheInv', NEW r \in Reader, Read(r)
  PROVE  TransferInv'
<1> USE DEF TransferInv
<1>1. /\ UNCHANGED <<cacheDir, tmpDir, put, file, res, call>>
      /\ \A p \in Put : at'[p] = at[p] /\ on'[p] = on[p]
  BY TransferAssumption
  DEF Read, Get, ReadLock, GetFound, GetNotFound, Unlock, ReadUnlock, Goes, CacheInv, CacheTypeOK
<1> QED
  BY <1>1 DEF TypeOK, CacheInv, PutPlaces, CallsRun, FilesWhole, Stored, OkStored

-----------------------------------------------------------------------------
(* The request that runs the call.  A step of it that leaves it in the     *)
(* middle of the call is right when it answers 200 only if the file is     *)
(* stored.                                                                 *)
LEMMA LeaderInv ==
  ASSUME TransferInv, CacheInv', NEW p \in Put,
         put[p] \in {"lead", "run"}, UNCHANGED <<file, call>>,
         FilesWhole',
         \A f \in ID : cacheDir[f] = "whole" => cacheDir'[f] = "whole",
         \A q \in Put \ {p} : at'[q] = at[q] /\ on'[q] = on[q],
         NEW step \in {"run", "return"}, put' = [put EXCEPT ![p] = step],
         step = "run" => at'[p] \in {"mkdir", "write", "written", "unlock"} /\ on'[p] = file[p],
         step = "return" => at'[p] \in {"idle", "write"},
         NEW r \in {"none", "ok", "err"}, res' = [res EXCEPT ![p] = r],
         r = "ok" => cacheDir'[file[p]] = "whole"
  PROVE  TransferInv'
<1> USE DEF TransferInv
<1>1. /\ put'[p] = step /\ \A q \in Put \ {p} : put'[q] = put[q]
      /\ res'[p] = r /\ \A q \in Put \ {p} : res'[q] = res[q]
  BY DEF TypeOK
<1>2. TypeOK'
  BY DEF TypeOK, CacheInv
<1>3. PutPlaces'
  BY <1>1 DEF PutPlaces
<1>4. CallsRun'
  BY <1>1 DEF CallsRun
<1>5. OkStored'
  BY <1>1 DEF OkStored, TypeOK
<1> QED
  BY <1>2, <1>3, <1>4, <1>5

(* An answer that stays, and a place that stays.                           *)
LEMMA Stays ==
  ASSUME TypeOK, NEW p \in Put
  PROVE  /\ res[p] \in {"none", "ok", "err"}
         /\ UNCHANGED res => res' = [res EXCEPT ![p] = res[p]]
         /\ UNCHANGED put => put' = [put EXCEPT ![p] = put[p]]
BY DEF TypeOK

LEMMA WriteInv ==
  ASSUME TransferInv, CacheInv', NEW p \in Put, Write(p)
  PROVE  TransferInv'
<1> USE DEF TransferInv
<1>1. put[p] = "lead" /\ at[p] = "idle" /\ file[p] \in ID /\ UNCHANGED <<file, call>>
  BY DEF Write, PutPlaces, TypeOK
<1>2. CASE Create(p, file[p]) /\ PutGoes(p, "run") /\ UNCHANGED res
  <2>1. /\ FilesWhole'
        /\ \A f \in ID : cacheDir[f] = "whole" => cacheDir'[f] = "whole"
        /\ \A q \in Put \ {p} : at'[q] = at[q] /\ on'[q] = on[q]
        /\ at'[p] = "mkdir" /\ on'[p] = file[p]
    BY <1>1, <1>2, UploadFacts, UploadGoes, Requests
  <2>2. put' = [put EXCEPT ![p] = "run"] /\ res' = [res EXCEPT ![p] = res[p]]
        /\ res[p] \in {"none", "ok", "err"}
    BY <1>2, Stays DEF PutGoes
  <2>3. res[p] = "ok" => cacheDir'[file[p]] = "whole"
    BY <1>1, <2>1 DEF OkStored
  <2> QED
    BY <1>1, <2>1, <2>2, <2>3, LeaderInv
<1>3. ASSUME NEW r \in {"ok", "err"}, res' = [res EXCEPT ![p] = r], PutGoes(p, "return"),
             UNCHANGED cacheVars, r = "ok" => Stored(file[p])
      PROVE  TransferInv'
  <2>1. /\ FilesWhole'
        /\ \A f \in ID : cacheDir[f] = "whole" => cacheDir'[f] = "whole"
        /\ \A q \in Put : at'[q] = at[q] /\ on'[q] = on[q]
        /\ r = "ok" => cacheDir'[file[p]] = "whole"
    BY <1>1, <1>3 DEF cacheVars, FilesWhole, Stored
  <2> QED
    BY <1>1, <1>3, <2>1, LeaderInv DEF PutGoes
<1>4. CASE /\ Answers(p, IF WriteLockError(file[p], FALSE) = "ErrExists" THEN "ok" ELSE "err")
           /\ PutGoes(p, "return")
           /\ UNCHANGED cacheVars
  <2>1. CASE WriteLockError(file[p], FALSE) = "ErrExists"
    <3>1. Stored(file[p])
      BY <2>1 DEF WriteLockError
    <3> QED
      BY <1>3, <1>4, <2>1, <3>1 DEF Answers
  <2>2. CASE WriteLockError(file[p], FALSE) # "ErrExists"
    BY <1>3, <1>4, <2>2 DEF Answers
  <2> QED
    BY <2>1, <2>2
<1> QED
  BY <1>2, <1>4 DEF Write

LEMMA OpenFileInv ==
  ASSUME TransferInv, CacheInv', NEW p \in Put, OpenFile(p)
  PROVE  TransferInv'
<1> USE DEF TransferInv
<1>1. MakeDir(p) \/ MakeDirFails(p)
  BY DEF OpenFile
<1>2. /\ FilesWhole'
      /\ \A f \in ID : cacheDir[f] = "whole" => cacheDir'[f] = "whole"
      /\ \A q \in Put \ {p} : at'[q] = at[q] /\ on'[q] = on[q]
  BY <1>1, UploadFacts, Requests
<1>3. put[p] = "run" /\ on[p] = file[p] /\ file[p] \in ID /\ UNCHANGED <<file, call>>
  BY <1>1 DEF OpenFile, MakeDir, MakeDirFails, PutPlaces, TypeOK
<1>4. res[p] = "ok" => cacheDir'[file[p]] = "whole"
  BY <1>2, <1>3 DEF OkStored
<1>5. CASE MakeDir(p) /\ UNCHANGED <<put, res>>
  <2>1. at'[p] = "write" /\ on'[p] = on[p]
    BY <1>5, UploadGoes
  <2> QED
    BY <1>2, <1>3, <1>4, <1>5, <2>1, Stays, LeaderInv
<1>6. CASE MakeDirFails(p) /\ Answers(p, "err") /\ UNCHANGED put
  <2>1. at'[p] = "unlock" /\ on'[p] = on[p]
    BY <1>6, UploadGoes
  <2> QED
    BY <1>2, <1>3, <1>6, <2>1, Stays, LeaderInv DEF Answers
<1>7. CASE MakeDir(p) /\ Answers(p, "err") /\ PutGoes(p, "return")
  <2>1. at'[p] = "write" /\ on'[p] = on[p]
    BY <1>7, UploadGoes
  <2> QED
    BY <1>2, <1>3, <1>7, <2>1, LeaderInv DEF Answers, PutGoes
<1> QED
  BY <1>5, <1>6, <1>7 DEF OpenFile

LEMMA ReadBodyInv ==
  ASSUME TransferInv, CacheInv', NEW p \in Put, ReadBody(p) \/ Close(p)
  PROVE  TransferInv'
<1> USE DEF TransferInv
<1>1. /\ Fill(p) \/ Abort(p) \/ Commit(p)
      /\ UNCHANGED <<put, file, call>>
  BY DEF ReadBody, Close
<1>2. /\ FilesWhole'
      /\ \A f \in ID : cacheDir[f] = "whole" => cacheDir'[f] = "whole"
      /\ \A q \in Put \ {p} : at'[q] = at[q] /\ on'[q] = on[q]
  BY <1>1, UploadFacts, Requests
<1>3. put[p] = "run" /\ on[p] = file[p] /\ file[p] \in ID
  BY DEF ReadBody, Close, Commit, PutPlaces, TypeOK
<1>4. at'[p] \in {"written", "unlock"} /\ on'[p] = file[p]
  BY <1>1, <1>3, UploadGoes
<1>5. PICK r \in {"none", "ok", "err"} :
        res' = [res EXCEPT ![p] = r] /\ (r = "ok" => cacheDir'[file[p]] = "whole")
  <2>1. CASE UNCHANGED res
    BY <1>2, <1>3, <2>1, Stays DEF OkStored
  <2>2. CASE Answers(p, "err")
    BY <2>2 DEF Answers
  <2>3. CASE Commit(p) /\ Answers(p, "ok")
    BY <1>3, <2>3, UploadGoes DEF Answers
  <2> QED
    BY <2>1, <2>2, <2>3 DEF ReadBody, Close
<1> QED
  BY <1>1, <1>2, <1>3, <1>4, <1>5, Stays, LeaderInv

LEMMA ReturnInv ==
  ASSUME TransferInv, CacheInv', NEW p \in Put, Return(p)
  PROVE  TransferInv'
<1> USE DEF TransferInv
<1>1. WriteUnlock(p) /\ PutGoes(p, "return") /\ UNCHANGED <<file, res, call>>
  BY DEF Return
<1>2. /\ FilesWhole'
      /\ \A f \in ID : cacheDir[f] = "whole" => cacheDir'[f] = "whole"
      /\ \A q \in Put \ {p} : at'[q] = at[q] /\ on'[q] = on[q]
      /\ at[p] = "unlock" /\ at'[p] = "idle"
  BY <1>1, UploadFacts, UploadGoes, Requests
<1>3. put[p] = "run" /\ file[p] \in ID
  BY <1>2 DEF PutPlaces, TypeOK
<1>4. res[p] = "ok" => cacheDir'[file[p]] = "whole"
  BY <1>2, <1>3 DEF OkStored
<1> QED
  BY <1>1, <1>2, <1>3, <1>4, Stays, LeaderInv DEF PutGoes

LEMMA TransferStep == TransferInv /\ [Next]_vars => TransferInv'
<1> SUFFICES ASSUME TransferInv, [Next]_vars PROVE TransferInv'
  OBVIOUS
<1>1. CacheInv'
  BY CacheOfTransfer
<1>2. ASSUME NEW p \in Put, PutStep(p) PROVE TransferInv'
  BY <1>1, <1>2, DoInv, FinishInv, WriteInv, OpenFileInv, ReadBodyInv, ReturnInv DEF PutStep
<1>3. CASE UNCHANGED vars
  BY <1>1, <1>3 DEF vars, cacheVars, TransferInv, TypeOK, CacheInv, PutPlaces, CallsRun,
                    FilesWhole, Stored, OkStored
<1> QED
  BY <1>1, <1>2, <1>3, ReadInv DEF Next

-----------------------------------------------------------------------------
(* The requests, the calls they join and the files they store stay as      *)
(* TransferInv says.                                                       *)
THEOREM TransferInvariant == Spec => []TransferInv
<1> QED
  BY TransferInit, TransferStep, PTL DEF Spec

(* Every variable of the uploads stays of its type.                        *)
THEOREM TransferTypeCorrect == Spec => []TypeOK
<1>1. TransferInv => TypeOK
  BY DEF TransferInv
<1> QED
  BY <1>1, TransferInvariant, PTL

(* Whoever is answered 200 (handler.go:60-97) finds the file stored whole, *)
(* though another request wrote it, and though bodies and the disk fail.   *)
THEOREM AnsweredIsStored == Spec => []OkIsStored
<1>1. TransferInv => OkIsStored
  BY DEF TransferInv, OkStored, OkIsStored
<1> QED
  BY <1>1, TransferInvariant, PTL

(* The uploads and the readers of a file exclude each other, and no file   *)
(* is stored in part.                                                      *)
THEOREM UploadsExclude == Spec => [](LocksExclude /\ NeverHalfWritten)
<1>1. TransferInv => LocksExclude /\ NeverHalfWritten
  BY InvExcludes DEF TransferInv, CacheInv
<1> QED
  BY <1>1, TransferInvariant, PTL
=============================================================================
