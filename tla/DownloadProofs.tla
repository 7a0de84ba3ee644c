--------------------------- MODULE DownloadProofs ---------------------------
(***************************************************************************)
(* A fetch between two caches, for every number of other users and every   *)
(* fault but the one that cannot be told from an archive (an error text in *)
(* the padding of the last file, "open"): what arrives in the local cache  *)
(* is what the other one had.  DownloadInv (module Download) is inductive. *)
(***************************************************************************)
EXTENDS Download, ArtifactCacheProofs

LEMMA Names ==
  /\ Fetcher \in Thread /\ Server \in Thread /\ Fetcher # Server
  /\ Local \in ID /\ Remote \in ID /\ Local # Remote
BY DownloadAssumption

-----------------------------------------------------------------------------
(* The caches.                                                             *)

(* The body of a response is complete in root/tmp.                         *)
LEMMA ReceivesInv ==
  ASSUME CacheInv, Places, NEW content \in {"whole", "cut"}, Receives(content)
  PROVE  CacheInv'
<1>1. /\ at[Fetcher] = "write" /\ on[Fetcher] = Local /\ at'[Fetcher] = "written"
      /\ \A u \in Thread \ {Fetcher} : at'[u] = at[u]
      /\ UNCHANGED <<cacheDir, writeLocked, readLocked, on>>
      /\ tmpDir' = [tmpDir EXCEPT ![Local] = content]
      /\ CacheTypeOK
  BY Names DEF Receives, Goes, Places, CacheInv, CacheTypeOK
<1>2. CacheTypeOK'
  BY <1>1, Names DEF Receives, Goes, CacheTypeOK, Content
<1>3. \A id \in ID : Writers(id)' = Writers(id) /\ Readers(id)' = Readers(id)
  BY <1>1, Names DEF Writers, Writes, Readers, Reads
<1>4. OneWriter'
  BY <1>1, <1>3, Names DEF CacheInv, CacheTypeOK, OneWriter, Writes
<1>5. ReadersCounted'
  BY <1>1, <1>3 DEF CacheInv, ReadersCounted, Reads
<1>6. TmpOfWriter'
  <2>1. Local \in writeLocked /\ \A u \in Thread \ {Fetcher} : at[u] \in Writes => on[u] # Local
    BY <1>1, Names DEF CacheInv, OneWriter, Writes
  <2>2. \A id \in ID \ {Local} : tmpDir'[id] = tmpDir[id]
    BY <1>1 DEF CacheTypeOK
  <2>3. \A id \in ID \ writeLocked : tmpDir'[id] = "none"
    BY <2>1, <2>2 DEF CacheInv, TmpOfWriter
  <2>4. tmpDir'[Local] = content
    BY <1>1, Names DEF CacheTypeOK
  <2>5. ASSUME NEW u \in Thread
        PROVE  /\ at'[u] \in {"mkdir", "remove", "unlock"} => tmpDir'[on[u]] = "none"
               /\ at'[u] = "written" => tmpDir'[on[u]] \in {"whole", "cut"}
    <3>1. CASE u = Fetcher
      BY <1>1, <2>4, <3>1
    <3>2. CASE u # Fetcher
      BY <1>1, <2>1, <2>2, <3>2 DEF CacheInv, CacheTypeOK, TmpOfWriter, Writes
    <3> QED
      BY <3>1, <3>2
  <2> QED
    BY <1>1, <2>3, <2>5 DEF TmpOfWriter
<1> QED
  BY <1>1, <1>2, <1>4, <1>5, <1>6 DEF CacheInv, NeverHalfWritten

(* A step of a fetch is one of a cache, of a process that is lost, or of   *)
(* no cache at all.                                                        *)
LEMMA StepKinds ==
  ASSUME "open" \notin Faults, DownloadInv, [Next]_vars
  PROVE  \/ \E t \in Thread : CacheStep(t)
         \/ \E content \in {"whole", "cut"} : Receives(content)
         \/ \E lost \in SUBSET ID : Restart(lost)
         \/ UNCHANGED cacheVars
<1> USE Names DEF CacheStep
<1>1. CASE GetLocal \/ Ask \/ Header
  BY <1>1 DEF GetLocal, Ask, Header
<1>2. CASE OpenDir \/ CommitLocal \/ UnlockLocal
  BY <1>2 DEF OpenDir, CommitLocal, UnlockLocal
<1>3. CASE ReceiveBody
  BY <1>3 DEF ReceiveBody
<1>4. CASE GetAgain
  BY <1>4 DEF GetAgain
<1>5. CASE ServerStep
  BY <1>5 DEF ServerStep, ServeGet, ServeBody, ServeUnlock
<1>6. CASE Cut \/ UNCHANGED vars
  BY <1>6 DEF Cut, vars
<1>7. ASSUME NEW id \in ID, Lost(id)
      PROVE  \E lost \in SUBSET ID : Restart(lost)
  BY <1>7 DEF Lost
<1>8. ASSUME NEW t \in Thread, Other(t)
      PROVE  CacheStep(t)
  BY <1>8 DEF Other
<1> QED
  BY <1>1, <1>2, <1>3, <1>4, <1>5, <1>6, <1>7, <1>8 DEF Next, FetcherStep

LEMMA CacheOfDownload ==
  ASSUME "open" \notin Faults, DownloadInv, [Next]_vars
  PROVE  CacheInv'
<1>1. CacheInv /\ Places
  BY DEF DownloadInv
<1>2. ASSUME NEW t \in Thread, CacheStep(t)
      PROVE  CacheInv'
  BY <1>1, <1>2, CacheStepInv DEF CacheNext
<1>3. CASE UNCHANGED cacheVars
  BY <1>1, <1>3, CacheStepInv
<1> QED
  BY <1>1, <1>2, <1>3, StepKinds, ReceivesInv, RestartInv

(* Who is not the fetcher and does not write the local cache leaves the    *)
(* fetch alone.                                                            *)
LEMMA OthersKeep ==
  ASSUME CacheInv, Places, NEW t \in Thread \ {Fetcher}, CacheStep(t),
         on'[t] = Local => at'[t] \in {"idle", "stat", "read"}
  PROVE  /\ cacheDir'[Local] = cacheDir[Local] /\ tmpDir'[Local] = tmpDir[Local]
         /\ \A u \in Thread \ {t} : at'[u] = at[u] /\ on'[u] = on[u]
<1>1. CacheTypeOK /\ (on[t] = Local => at[t] \in {"idle", "stat", "read"})
  BY DEF CacheInv, Places
<1>2. ASSUME NEW id \in ID, Get(t, id) \/ Create(t, id) \/ Remove(t, id)
      PROVE  /\ UNCHANGED <<cacheDir, tmpDir>>
             /\ \A u \in Thread \ {t} : at'[u] = at[u] /\ on'[u] = on[u]
  BY <1>1, <1>2 DEF Get, ReadLock, Create, Remove, WriteLock, Goes, CacheTypeOK
<1>3. CASE GetFound(t) \/ GetNotFound(t) \/ Unlock(t) \/ MakeDirFails(t) \/ WriteUnlock(t)
  BY <1>1, <1>3 DEF GetFound, GetNotFound, Unlock, ReadUnlock, MakeDirFails, WriteUnlock, Goes, CacheTypeOK
<1>4. CASE MakeDir(t) \/ Fill(t) \/ Commit(t) \/ Abort(t) \/ RemoveSome(t) \/ RemoveRest(t)
  <2>1. on[t] # Local /\ on[t] \in ID
    BY <1>1, <1>4 DEF MakeDir, Fill, Commit, Abort, RemoveSome, RemoveRest, CacheTypeOK
  <2> QED
    BY <1>1, <1>4, <2>1, Names
    DEF MakeDir, Fill, Commit, Abort, RemoveSome, RemoveRest, Goes, CacheTypeOK
<1> QED
  BY <1>2, <1>3, <1>4 DEF CacheStep

-----------------------------------------------------------------------------
(* The fetch.                                                              *)
FetchInv == DownloadTypeOK /\ Places /\ Received /\ JustDownloadedFound

LEMMA DownloadInit == Init => DownloadInv
<1> SUFFICES ASSUME Init PROVE DownloadInv
  OBVIOUS
<1>1. CacheInv
  BY CacheInitInv DEF Init
<1>2. \A t \in Thread : at[t] = "idle"
  BY DEF Init, NewCache
<1>3. DownloadTypeOK /\ Received /\ JustDownloadedFound
  BY <1>2, Names DEF Init, DownloadTypeOK, Response, Received, JustDownloadedFound
<1>4. Places
  BY <1>2, Names DEF Init, Places
<1> QED
  BY <1>1, <1>3, <1>4 DEF DownloadInv

(* While nobody writes the artifact there is no lock to be refused.        *)
LEMMA NoWriterNoLock ==
  ASSUME CacheInv, Places, at[Fetcher] \notin Writes
  PROVE  Local \notin writeLocked
<1>1. \A t \in Thread : ~(at[t] \in Writes /\ on[t] = Local)
  BY DEF Places, Writes
<1> QED
  BY <1>1 DEF CacheInv, OneWriter, Writers

(* The operations on the cache that a fetch consists of, as the fetcher    *)
(* sees them.                                                              *)
LEMMA GetFacts ==
  ASSUME CacheInv, NEW t \in Thread, NEW i \in ID,
         Get(t, i) \/ GetFound(t) \/ GetNotFound(t) \/ Unlock(t)
  PROVE  /\ UNCHANGED <<cacheDir, tmpDir, writeLocked>>
         /\ \A u \in Thread \ {t} : at'[u] = at[u] /\ on'[u] = on[u]
         /\ Get(t, i) => at[t] = "idle" /\ at'[t] = "stat" /\ on'[t] = i
         /\ GetFound(t) =>
              at[t] = "stat" /\ at'[t] = "read" /\ on'[t] = on[t] /\ Stored(on[t])
         /\ GetNotFound(t) =>
              at[t] = "stat" /\ at'[t] = "idle" /\ on'[t] = on[t] /\ ~Stored(on[t])
         /\ Unlock(t) => at[t] = "read" /\ at'[t] = "idle" /\ on'[t] = on[t]
<1> USE DEF CacheInv, CacheTypeOK, Goes
<1>1. CASE Get(t, i)
  BY <1>1 DEF Get, ReadLock, GetFound, GetNotFound, Unlock
<1>2. CASE GetFound(t)
  BY <1>2 DEF Get, GetFound, GetNotFound, Unlock
<1>3. CASE GetNotFound(t)
  BY <1>3 DEF Get, GetFound, GetNotFound, ReadUnlock, Unlock
<1>4. CASE Unlock(t)
  BY <1>4 DEF Get, GetFound, GetNotFound, ReadUnlock, Unlock
<1> QED
  BY <1>1, <1>2, <1>3, <1>4

LEMMA WriteFacts ==
  ASSUME CacheInv, Places,
         \/ Create(Fetcher, Local) \/ MakeDir(Fetcher) \/ MakeDirFails(Fetcher)
         \/ Abort(Fetcher) \/ Commit(Fetcher) \/ WriteUnlock(Fetcher)
         \/ \E content \in {"whole", "cut"} : Receives(content)
  PROVE  /\ on'[Fetcher] = Local
         /\ \A u \in Thread \ {Fetcher} : at'[u] = at[u] /\ on'[u] = on[u]
<1> USE Names DEF CacheInv, CacheTypeOK, Goes, Places
<1>1. CASE Create(Fetcher, Local)
  BY <1>1 DEF Create, WriteLock
<1>2. CASE MakeDir(Fetcher) \/ MakeDirFails(Fetcher) \/ Abort(Fetcher)
  BY <1>2 DEF MakeDir, MakeDirFails, Abort
<1>3. CASE Commit(Fetcher)
  BY <1>3 DEF Commit
<1>4. CASE WriteUnlock(Fetcher)
  BY <1>4 DEF WriteUnlock
<1>5. ASSUME NEW content \in {"whole", "cut"}, Receives(content)
      PROVE  UNCHANGED on /\ \A u \in Thread \ {Fetcher} : at'[u] = at[u]
  BY <1>5 DEF Receives
<1>6. (\E content \in {"whole", "cut"} : Receives(content)) => on[Fetcher] = Local
  BY DEF Receives
<1> QED
  BY <1>1, <1>2, <1>3, <1>4, <1>5, <1>6

(* The fetcher looks the artifact up, before the download and after it.    *)
LEMMA FetcherReads ==
  ASSUME DownloadInv, GetLocal \/ GetAgain
  PROVE  FetchInv'
<1> USE Names DEF DownloadInv
<1>1. CASE GetLocal
  <2>1. /\ fetch = "new" /\ kind = "artifact" /\ UNCHANGED <<kind, resp>>
        /\ UNCHANGED <<cacheDir, tmpDir>>
        /\ \A u \in Thread \ {Fetcher} : at'[u] = at[u] /\ on'[u] = on[u]
        /\ on'[Fetcher] = Local
        /\ \/ at'[Fetcher] = "stat" /\ fetch' = "new"
           \/ at'[Fetcher] = "read" /\ fetch' = "found"
           \/ at'[Fetcher] = "idle" /\ fetch' = "ask"
    <3>1. at[Fetcher] = "stat" => on[Fetcher] = Local
      BY DEF Places
    <3>2. CASE (Get(Fetcher, Local) \/ GetFound(Fetcher))
               /\ fetch' = IF at[Fetcher] = "stat" THEN "found" ELSE "new"
      BY <1>1, <3>1, <3>2, GetFacts DEF GetLocal
    <3>3. CASE GetNotFound(Fetcher) /\ fetch' = "ask"
      BY <1>1, <3>1, <3>3, GetFacts DEF GetLocal
    <3> QED
      BY <1>1, <3>2, <3>3 DEF GetLocal
  <2> QED
    BY <2>1 DEF FetchInv, DownloadTypeOK, Places, Received, JustDownloadedFound
<1>2. CASE GetAgain
  <2>1. /\ fetch = "again" /\ UNCHANGED <<kind, resp>>
        /\ resp \in {"whole", "cut"} /\ cacheDir[Local] = resp
        /\ at[Fetcher] \in {"idle", "stat"}
        /\ at[Fetcher] = "stat" => on[Fetcher] = Local
    BY <1>2 DEF GetAgain, Places, Received
  <2>2. ReadLockError(Local) = "nil"
    BY <2>1, NoWriterNoLock DEF ReadLockError, Writes
  <2>3. ~GetNotFound(Fetcher)
    BY <2>1 DEF GetNotFound, Stored
  <2>4. /\ UNCHANGED <<cacheDir, tmpDir>>
        /\ \A u \in Thread \ {Fetcher} : at'[u] = at[u] /\ on'[u] = on[u]
        /\ on'[Fetcher] = Local
        /\ \/ at'[Fetcher] = "stat" /\ fetch' = "again"
           \/ at'[Fetcher] = "read" /\ fetch' = "done"
    <3>1. CASE Get(Fetcher, Local) /\ UNCHANGED fetch
      BY <2>1, <3>1, GetFacts
    <3>2. CASE GetFound(Fetcher) /\ fetch' = "done"
      BY <2>1, <3>2, GetFacts
    <3> QED
      BY <1>2, <2>2, <2>3, <3>1, <3>2 DEF GetAgain
  <2> QED
    BY <2>1, <2>4 DEF FetchInv, DownloadTypeOK, Places, Received, JustDownloadedFound
<1> QED
  BY <1>1, <1>2

(* It asks, and makes a place for what it gets.                            *)
LEMMA FetcherAsks ==
  ASSUME DownloadInv, Ask \/ Header \/ OpenDir
  PROVE  FetchInv'
<1> USE Names DEF DownloadInv
<1>1. CASE Ask
  BY <1>1 DEF Ask, cacheVars, FetchInv, DownloadTypeOK, Response, Places, Received,
              JustDownloadedFound
<1>2. CASE Header
  <2>1. fetch = "wait" /\ at[Fetcher] = "idle" /\ UNCHANGED kind /\ resp' \in Response
    BY <1>2 DEF Header, Ends, DownloadTypeOK, Response
  <2>2. CASE Create(Fetcher, Local) /\ fetch' = "receive" /\ UNCHANGED resp
    <3>1. /\ on'[Fetcher] = Local /\ at'[Fetcher] = "mkdir"
          /\ \A u \in Thread \ {Fetcher} : at'[u] = at[u] /\ on'[u] = on[u]
      BY <2>1, <2>2, WriteFacts DEF Create, Goes, CacheInv, CacheTypeOK
    <3> QED
      BY <2>1, <2>2, <3>1 DEF FetchInv, DownloadTypeOK, Places, Received, JustDownloadedFound
  <2>3. CASE fetch' = "failed" /\ UNCHANGED cacheVars
    BY <2>1, <2>3 DEF cacheVars, FetchInv, DownloadTypeOK, Places, Received, JustDownloadedFound
  <2> QED
    BY <1>2, <2>2, <2>3 DEF Header
<1>3. CASE OpenDir
  <2>1. /\ fetch = "receive" /\ UNCHANGED kind /\ resp' \in Response
        /\ \/ MakeDir(Fetcher) /\ fetch' = "receive"
           \/ MakeDirFails(Fetcher) /\ fetch' = "abort"
    BY <1>3 DEF OpenDir, Ends, DownloadTypeOK, Response
  <2>2. /\ on'[Fetcher] = Local
        /\ \/ fetch' = "receive" /\ at'[Fetcher] = "write"
           \/ fetch' = "abort" /\ at'[Fetcher] = "unlock"
        /\ \A u \in Thread \ {Fetcher} : at'[u] = at[u] /\ on'[u] = on[u]
    <3>1. CASE MakeDir(Fetcher) /\ fetch' = "receive"
      <4>1. at'[Fetcher] = "write"
        BY <3>1 DEF MakeDir, Goes, CacheInv, CacheTypeOK
      <4> QED
        BY <3>1, <4>1, WriteFacts
    <3>2. CASE MakeDirFails(Fetcher) /\ fetch' = "abort"
      <4>1. at'[Fetcher] = "unlock"
        BY <3>2 DEF MakeDirFails, Goes, CacheInv, CacheTypeOK
      <4> QED
        BY <3>2, <4>1, WriteFacts
    <3> QED
      BY <2>1, <3>1, <3>2
  <2> QED
    BY <2>1, <2>2 DEF FetchInv, DownloadTypeOK, Places, Received, JustDownloadedFound
<1> QED
  BY <1>1, <1>2, <1>3

(* It receives the body, commits it or not, and gives the lock back.       *)
LEMMA FetcherReceives ==
  ASSUME "open" \notin Faults, DownloadInv, ReceiveBody \/ CommitLocal \/ UnlockLocal
  PROVE  FetchInv'
<1> USE Names DEF DownloadInv
<1>1. CASE ReceiveBody
  <2>1. fetch = "receive" /\ UNCHANGED kind /\ resp' \in Response
    BY <1>1 DEF ReceiveBody, Receives, Ends, DownloadTypeOK, Response
  <2>2. CASE resp \in {"whole", "cut"} /\ Receives(resp)
    <3>1. /\ at'[Fetcher] = "written" /\ tmpDir'[Local] = resp /\ UNCHANGED <<fetch, resp>>
      BY <2>2 DEF Receives, Goes, CacheInv, CacheTypeOK
    <3>2. /\ on'[Fetcher] = Local
          /\ \A u \in Thread \ {Fetcher} : at'[u] = at[u] /\ on'[u] = on[u]
      BY <2>2, WriteFacts
    <3> QED
      BY <2>1, <2>2, <3>1, <3>2
      DEF FetchInv, DownloadTypeOK, Places, Received, JustDownloadedFound
  <2>3. CASE Abort(Fetcher) /\ fetch' = "abort"
    <3>1. at'[Fetcher] = "unlock"
      BY <2>3 DEF Abort, Goes, CacheInv, CacheTypeOK
    <3>2. /\ on'[Fetcher] = Local
          /\ \A u \in Thread \ {Fetcher} : at'[u] = at[u] /\ on'[u] = on[u]
      BY <2>3, WriteFacts
    <3> QED
      BY <2>1, <2>3, <3>1, <3>2
      DEF FetchInv, DownloadTypeOK, Places, Received, JustDownloadedFound
  <2> QED
    BY <1>1, <2>2, <2>3 DEF ReceiveBody
<1>2. CASE CommitLocal
  <2>1. /\ fetch' = "commit" /\ UNCHANGED <<kind, resp>> /\ at[Fetcher] = "written"
        /\ resp \in {"whole", "cut"} /\ tmpDir[Local] = resp
    BY <1>2 DEF CommitLocal, Commit, Received
  <2>2. at'[Fetcher] = "unlock" /\ on[Fetcher] = Local /\ cacheDir'[Local] = tmpDir[Local]
    BY <1>2, <2>1 DEF CommitLocal, Commit, Goes, CacheInv, CacheTypeOK, Places
  <2>3. /\ on'[Fetcher] = Local
        /\ \A u \in Thread \ {Fetcher} : at'[u] = at[u] /\ on'[u] = on[u]
    BY <1>2, WriteFacts DEF CommitLocal
  <2> QED
    BY <2>1, <2>2, <2>3 DEF FetchInv, DownloadTypeOK, Places, Received, JustDownloadedFound
<1>3. CASE UnlockLocal
  <2>1. /\ fetch \in {"abort", "commit"} /\ at[Fetcher] = "unlock" /\ UNCHANGED <<kind, resp>>
        /\ fetch' \in {"failed", "again", "done"}
        /\ fetch' # "failed" => fetch = "commit"
    BY <1>3 DEF UnlockLocal, WriteUnlock, Places, DownloadTypeOK, JustDownloadedFound
  <2>2. /\ at'[Fetcher] = "idle" /\ UNCHANGED <<cacheDir, tmpDir>> /\ on'[Fetcher] = Local
        /\ \A u \in Thread \ {Fetcher} : at'[u] = at[u] /\ on'[u] = on[u]
    BY <1>3, <2>1 DEF UnlockLocal, WriteUnlock, Goes, CacheInv, CacheTypeOK, Places
  <2> QED
    BY <2>1, <2>2 DEF FetchInv, DownloadTypeOK, Places, Received, JustDownloadedFound
<1> QED
  BY <1>1, <1>2, <1>3

(* The server reads its own artifact and changes a response that has not   *)
(* come to its end; so does the network.                                   *)
LEMMA ServerKeeps ==
  ASSUME DownloadInv, ServerStep \/ Cut
  PROVE  FetchInv'
<1> USE Names DEF DownloadInv
<1>1. CASE ServeGet \/ ServeUnlock
  <2>1. /\ UNCHANGED <<kind, fetch, cacheDir, tmpDir>>
        /\ at'[Server] \in {"idle", "stat", "read"}
        /\ on'[Server] = Local => on[Server] = Local \/ at'[Server] = "idle"
        /\ \A u \in Thread \ {Server} : at'[u] = at[u] /\ on'[u] = on[u]
    <3>1. CASE UNCHANGED cacheVars /\ UNCHANGED <<kind, fetch>>
      BY <3>1 DEF cacheVars, Places
    <3>2. CASE /\ \/ Get(Server, Remote) \/ GetFound(Server) \/ GetNotFound(Server)
                  \/ Unlock(Server)
               /\ UNCHANGED <<kind, fetch>>
      BY <3>2, GetFacts DEF Places
    <3> QED
      BY <1>1, <3>1, <3>2 DEF ServeGet, ServeUnlock
  <2>2. resp' = resp \/ (resp = "none" /\ resp' = "500")
    BY <1>1 DEF ServeGet, ServeUnlock
  <2> QED
    BY <2>1, <2>2 DEF FetchInv, DownloadTypeOK, Response, Places, Received, JustDownloadedFound
<1>2. CASE ServeBody \/ Cut
  <2>1. UNCHANGED <<cacheVars, kind, fetch>> /\ resp \in {"none", "part"} /\ resp' \in Response
    BY <1>2 DEF ServeBody, Cut, CacheInv, CacheTypeOK, Content, Response
  <2> QED
    BY <2>1 DEF cacheVars, FetchInv, DownloadTypeOK, Places, Received, JustDownloadedFound
<1> QED
  BY <1>1, <1>2 DEF ServerStep

(* A process is lost: the fetcher's, and the fetch with it, or the other.  *)
LEMMA LostKeeps ==
  ASSUME DownloadInv, NEW id \in ID, Lost(id)
  PROVE  FetchInv'
<1> USE Names DEF DownloadInv
<1>1. /\ UNCHANGED <<kind, cacheDir, on>> /\ resp' \in Response
      /\ resp \in {"whole", "cut"} => resp' = resp
      /\ fetch' = IF id = Local THEN "new" ELSE fetch
      /\ \A t \in Thread : at'[t] = IF on[t] = id THEN "idle" ELSE at[t]
      /\ id # Local => tmpDir'[Local] = tmpDir[Local]
  BY DEF Lost, Restart, LocksLost, Ends, DownloadTypeOK, Response
<1>2. CASE id = Local
  <2>1. at'[Fetcher] = "idle" /\ fetch' = "new"
    BY <1>1, <1>2 DEF Places, CacheInv, CacheTypeOK
  <2> QED
    BY <1>1, <2>1 DEF FetchInv, DownloadTypeOK, Places, Received, JustDownloadedFound
<1>3. CASE id # Local
  <2>1. at'[Fetcher] = at[Fetcher] /\ fetch' = fetch
    BY <1>1, <1>3 DEF Places
  <2> QED
    BY <1>1, <1>3, <2>1 DEF FetchInv, DownloadTypeOK, Places, Received, JustDownloadedFound
<1> QED
  BY <1>2, <1>3

LEMMA OtherKeeps ==
  ASSUME DownloadInv, NEW t \in Thread \ {Fetcher, Server}, Other(t)
  PROVE  FetchInv'
<1> USE Names DEF DownloadInv
<1>1. /\ UNCHANGED <<kind, fetch, resp>>
      /\ on'[t] = Local => at'[t] \in {"idle", "stat", "read"}
  BY DEF Other
<1>2. /\ cacheDir'[Local] = cacheDir[Local] /\ tmpDir'[Local] = tmpDir[Local]
      /\ \A u \in Thread \ {t} : at'[u] = at[u] /\ on'[u] = on[u]
  BY OthersKeep DEF Other
<1> QED
  BY <1>1, <1>2 DEF FetchInv, DownloadTypeOK, Places, Received, JustDownloadedFound

LEMMA DownloadStep ==
  ASSUME "open" \notin Faults, DownloadInv, [Next]_vars
  PROVE  DownloadInv'
<1>1. CacheInv'
  BY CacheOfDownload
<1>2. FetchInv'
  <2>1. CASE FetcherStep
    BY <2>1, FetcherReads, FetcherAsks, FetcherReceives DEF FetcherStep
  <2>2. CASE ServerStep \/ Cut
    BY <2>2, ServerKeeps
  <2>3. CASE UNCHANGED vars
    BY <2>3 DEF vars, cacheVars, DownloadInv, FetchInv, DownloadTypeOK, Places, Received,
                JustDownloadedFound
  <2> QED
    BY <2>1, <2>2, <2>3, LostKeeps, OtherKeeps DEF Next
<1> QED
  BY <1>1, <1>2 DEF DownloadInv, FetchInv

-----------------------------------------------------------------------------
(* Both caches, the response and the fetch stay as DownloadInv says.       *)
THEOREM DownloadInvariant ==
  ASSUME "open" \notin Faults
  PROVE  Spec => []DownloadInv
<1> QED
  BY DownloadInit, DownloadStep, PTL DEF Spec

(* What Download leaves in the local cache is what the other cache had,    *)
(* whatever becomes of the connection, of the disks and of the processes.  *)
THEOREM WhatIsFetchedWasThere ==
  ASSUME "open" \notin Faults
  PROVE  Spec => []DownloadedWhole
<1>1. DownloadInv => DownloadedWhole
  BY DEF DownloadInv, Received, DownloadedWhole
<1> QED
  BY <1>1, DownloadInvariant, PTL

(* The error that worker.go:109 has no way to go on from is never met: the *)
(* artifact is there, and nobody holds its write lock.                     *)
THEOREM JustDownloadedIsFound ==
  ASSUME "open" \notin Faults
  PROVE  Spec => []JustDownloadedFound
<1>1. DownloadInv => JustDownloadedFound
  BY DEF DownloadInv
<1> QED
  BY <1>1, DownloadInvariant, PTL

(* In both caches readers and writers exclude each other, whatever becomes *)
(* of the connection and of the two processes ...                          *)
THEOREM FetchesExclude ==
  ASSUME "open" \notin Faults
  PROVE  Spec => [](CacheTypeOK /\ LocksExclude)
<1>1. DownloadInv => CacheTypeOK /\ LocksExclude
  BY InvExcludes DEF DownloadInv, CacheInv
<1> QED
  BY <1>1, DownloadInvariant, PTL

(* ... what is stored was written to the end, in a directory that was new. *)
THEOREM FetchesAreWhole ==
  ASSUME "open" \notin Faults
  PROVE  Spec => [](NeverHalfWritten /\ FreshDir)
<1>1. DownloadInv => NeverHalfWritten /\ FreshDir
  BY DEF DownloadInv, CacheInv, TmpOfWriter, FreshDir
<1> QED
  BY <1>1, DownloadInvariant, PTL

(* Until it unlocks, the server and every other reader keeps the artifact  *)
(* that its Get found.                                                     *)
THEOREM ServedIsKept ==
  ASSUME "open" \notin Faults
  PROVE  Spec => ReadersUndisturbed
<1> DEFINE Undisturbed ==
      \A t \in Thread : at[t] = "read" /\ at'[t] = "read" => cacheDir'[on[t]] = cacheDir[on[t]]
<1>1. DownloadInv /\ [Next]_vars => [Undisturbed]_cacheVars
  <2> SUFFICES ASSUME DownloadInv, [Next]_vars,
                      NEW t \in Thread, at[t] = "read", at'[t] = "read"
               PROVE  cacheDir'[on[t]] = cacheDir[on[t]]
    OBVIOUS
  <2>1. CASE \E content \in {"whole", "cut"} : Receives(content)
    BY <2>1 DEF Receives
  <2>2. CASE UNCHANGED cacheVars
    BY <2>2 DEF cacheVars
  <2> QED
    BY <2>1, <2>2, StepKinds, ReaderKeeps DEF DownloadInv
<1> QED
  BY <1>1, DownloadInvariant, PTL DEF Spec, ReadersUndisturbed
=============================================================================
