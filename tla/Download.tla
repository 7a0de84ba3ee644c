------------------------------ MODULE Download -----------------------------
(***************************************************************************)
(* A worker fetches an artifact from the cache of another one              *)
(* (distbuild/pkg/artifact/client.go and handler.go, tarstream/stream.go), *)
(* or a source file from the coordinator's (distbuild/pkg/filecache),      *)
(* between the two processes' caches and their other users.                *)
(*                                                                         *)
(* ID has the same artifact twice, once in each cache.  The fetching       *)
(* goroutine is worker.Run, which writes its cache alone; the cache that   *)
(* it fetches from has any users.  What a client does not read the server  *)
(* is taken to have written, and a response ends when its client closes it.*)
(*                                                                         *)
(* Faults says what may fail: "cut", the connection; "read", Send between  *)
(* two files or in a large one, or ReadFile; "open", Send in os.Open of a  *)
(* file shorter than the text of the error; "disk", the fetcher's disk;    *)
(* "restart", either process.                                              *)
(***************************************************************************)
EXTENDS ArtifactCache

CONSTANTS
  Local, Remote,     \* the artifact in the fetcher's cache, and in the server's
  Fetcher, Server,   \* worker.Run, and the goroutine that serves its request
  Faults

ASSUME DownloadAssumption ==
  /\ ID = {Local, Remote} /\ Local # Remote
  /\ {Fetcher, Server} \subseteq Thread /\ Fetcher # Server
  /\ Faults \subseteq {"cut", "read", "open", "disk", "restart"}

VARIABLES
  kind,    \* what is fetched: "artifact" or "file"
  fetch,   \* where the fetcher is
  resp     \* the response, as its client sees it

vars == <<cacheVars, kind, fetch, resp>>

(* No header yet; a 200 and a part of the body; an error status; the body  *)
(* of an artifact that is whole, or that a Remove has left cut; an error   *)
(* text in place of the rest; the connection is lost or closed.            *)
Response == {"none", "part", "500", "whole", "cut", "text", "broken"}

Init ==
  /\ NewCache
  /\ kind \in {"artifact", "file"}
  /\ fetch = "new"
  /\ resp = "broken"

Body == {"part", "whole", "cut", "text"}
Ends(r) == resp' = IF resp \in {"none", "part"} THEN r ELSE resp

-----------------------------------------------------------------------------
(* worker.go:100: an artifact that is there is not fetched; nobody asks    *)
(* for a file.  The lock of an artifact is kept until Run returns.         *)
GetLocal ==
  /\ fetch = "new" /\ kind = "artifact"
  /\ \/ /\ Get(Fetcher, Local) \/ GetFound(Fetcher)
        /\ fetch' = IF at[Fetcher] = "stat" THEN "found" ELSE "new"
     \/ GetNotFound(Fetcher) /\ fetch' = "ask"
  /\ UNCHANGED <<kind, resp>>

(* The request.  The server's goroutine is free again when it comes.       *)
Ask ==
  /\ fetch = "ask" \/ (fetch = "new" /\ kind = "file")
  /\ at[Server] = "idle"
  /\ fetch' = "wait"
  /\ resp' = "none"
  /\ UNCHANGED <<cacheVars, kind>>

-----------------------------------------------------------------------------
(* The handler: Get, with a 500 for its errors ...                         *)
ServeGet ==
  /\ resp = "none"
  /\ \/ Get(Server, Remote) /\ UNCHANGED resp
     \/ at[Server] = "idle" /\ ReadLockError(Remote) # "nil" /\ resp' = "500"
                            /\ UNCHANGED cacheVars
     \/ GetFound(Server) /\ UNCHANGED resp
     \/ GetNotFound(Server) /\ resp' = "500"
  /\ UNCHANGED <<kind, fetch>>

(* ... the body, artifacts piece by piece, files as a whole after ReadFile.*)
(* By the time that Send fails a 200 is out, and the text of the error is  *)
(* only more of the body.                                                  *)
ServeBody ==
  /\ at[Server] = "read" /\ resp \in {"none", "part"}
  /\ \/ kind = "artifact" /\ resp' = "part"
     \/ resp' = cacheDir[Remote]
     \/ Faults \cap {"read", "open"} # {}
        /\ resp' = IF kind = "artifact" THEN "text" ELSE "500"
  /\ UNCHANGED <<cacheVars, kind, fetch>>

(* Slip: the lock is given back after a body that is complete only.        *)
ServedUnlock ==
  /\ resp \in {"whole", "cut"}
  /\ Unlock(Server)
  /\ UNCHANGED <<kind, fetch, resp>>

ServeUnlock ==
  /\ resp \notin {"none", "part"}
  /\ Unlock(Server)
  /\ UNCHANGED <<kind, fetch, resp>>

-----------------------------------------------------------------------------
(* The fetcher has the header (a file's client has the body).  It fails    *)
(* for an error status or a lost connection, before it touches its cache,  *)
(* and for an error of Create, which closes the response.                  *)
Header ==
  /\ fetch = "wait" /\ at[Fetcher] = "idle"
  /\ \/ /\ resp \in IF kind = "artifact" THEN Body ELSE {"whole", "cut"}
        /\ \/ Create(Fetcher, Local) /\ fetch' = "receive" /\ UNCHANGED resp
           \/ /\ WriteLockError(Local, FALSE) # "nil"
              /\ fetch' = "failed"
              /\ Ends("broken")
              /\ UNCHANGED cacheVars
     \/ resp \in {"500", "broken"} /\ fetch' = "failed" /\ UNCHANGED <<cacheVars, resp>>
  /\ UNCHANGED kind

OpenDir ==
  /\ fetch = "receive"
  /\ \/ MakeDir(Fetcher) /\ UNCHANGED <<fetch, resp>>
     \/ "disk" \in Faults /\ MakeDirFails(Fetcher) /\ fetch' = "abort" /\ Ends("broken")
  /\ UNCHANGED kind

(* Receive reads to the end of the body, and fails where an archive does   *)
(* not end: where the connection is lost, or the error text starts.  But a *)
(* text that is longer than the rest of a file passes for that rest, and   *)
(* the end of the body, in the padding behind it, for that of the archive. *)
Receives(content) ==
  /\ at[Fetcher] = "write"
  /\ tmpDir' = [tmpDir EXCEPT ![Local] = content]
  /\ Goes(Fetcher, "written")
  /\ UNCHANGED <<cacheDir, writeLocked, readLocked, on, fetch, resp>>

(* Slip: a lost connection is not noticed.                                 *)
ReceiveOn ==
  /\ fetch = "receive"
  /\ \/ resp \in {"whole", "cut"} /\ Receives(resp)
     \/ resp = "text" /\ Abort(Fetcher) /\ fetch' = "abort" /\ UNCHANGED resp
  /\ UNCHANGED kind

(* Slip: the end of the connection is taken for the end of the body.       *)
ReceiveAll ==
  /\ fetch = "receive"
  /\ \/ resp \in {"whole", "cut"} /\ Receives(resp)
     \/ resp \in {"broken", "text"} /\ Receives("part")
  /\ UNCHANGED kind

ReceiveBody ==
  /\ fetch = "receive"
  /\ \/ resp \in {"whole", "cut"} /\ Receives(resp)
     \/ "open" \in Faults /\ resp = "text" /\ Receives("part")
     \/ /\ resp \in {"broken", "text"} \/ "disk" \in Faults
        /\ at[Fetcher] = "write" /\ Abort(Fetcher)
        /\ fetch' = "abort"
        /\ Ends("broken")
  /\ UNCHANGED kind

(* commit, and the unlock of commit and abort.  After an abort the client  *)
(* of a file commits as well (its deferred Close): there is nothing to     *)
(* rename, and the lock is given back twice, with no writer in between.    *)
CommitLocal ==
  /\ Commit(Fetcher)
  /\ fetch' = "commit"
  /\ UNCHANGED <<kind, resp>>

(* Slip: the error of an aborted download is lost.                         *)
UnlockNoError ==
  /\ WriteUnlock(Fetcher)
  /\ fetch' = IF kind = "artifact" THEN "again" ELSE "done"
  /\ UNCHANGED <<kind, resp>>

UnlockLocal ==
  /\ WriteUnlock(Fetcher)
  /\ fetch' = IF fetch = "abort" THEN "failed" ELSE IF kind = "artifact" THEN "again" ELSE "done"
  /\ UNCHANGED <<kind, resp>>

(* worker.go:107: the artifact is looked up again, which cannot fail.      *)
GetAgain ==
  /\ fetch = "again"
  /\ \/ Get(Fetcher, Local) /\ UNCHANGED fetch
     \/ /\ at[Fetcher] = "idle" /\ ReadLockError(Local) # "nil"
        /\ fetch' = "panic"
        /\ UNCHANGED cacheVars
     \/ GetFound(Fetcher) /\ fetch' = "done"
     \/ GetNotFound(Fetcher) /\ fetch' = "panic"
  /\ UNCHANGED <<kind, resp>>

-----------------------------------------------------------------------------
Cut ==
  /\ "cut" \in Faults
  /\ resp \in {"none", "part"}
  /\ resp' = "broken"
  /\ UNCHANGED <<cacheVars, kind, fetch>>

(* A process ends; NewCache opens its cache, and a new Run starts there.   *)
Lost(id) ==
  /\ "restart" \in Faults
  /\ Restart({id})
  /\ fetch' = IF id = Local THEN "new" ELSE fetch
  /\ Ends("broken")
  /\ UNCHANGED kind

(* The other users of the two caches.                                      *)
Other(t) ==
  /\ CacheStep(t)
  /\ on'[t] = Local => at'[t] \in {"idle", "stat", "read"}
  /\ UNCHANGED <<kind, fetch, resp>>

-----------------------------------------------------------------------------
FetcherStep ==
  GetLocal \/ Ask \/ Header \/ OpenDir \/ ReceiveBody \/ CommitLocal \/ UnlockLocal \/ GetAgain

ServerStep == ServeGet \/ ServeBody \/ ServeUnlock

Next ==
  \/ FetcherStep \/ ServerStep \/ Cut
  \/ \E id \in ID : Lost(id)
  \/ \E t \in Thread \ {Fetcher, Server} : Other(t)

Spec == Init /\ [][Next]_vars

(* The goroutines run, and a body comes to its end; neither side has a     *)
(* timeout, so a connection that only hangs would hold both for ever.      *)
FairSpec == Spec /\ WF_vars(FetcherStep) /\ WF_vars(ServerStep)
                 /\ WF_vars(ServeBody /\ resp' # "part")

-----------------------------------------------------------------------------
(* artifact/client.go:15: what Download leaves in the local cache is what  *)
(* the other cache had, though it is sent and stored piece by piece.       *)
DownloadedWhole ==
  fetch \in {"again", "done"} => cacheDir[Local] = resp

(* worker.go:109, "error in get of just downloaded artifact".              *)
JustDownloadedFound == fetch # "panic"

(* artifact/handler.go:36: whatever the client or the disk does, the lock  *)
(* of a served artifact is given back.                                     *)
ServerUnlocks == (at[Server] = "read") ~> (at[Server] = "idle")

(* worker.go:102-122: a fetch comes to its end, or its process does.       *)
FetchEnds == (fetch = "wait") ~> (fetch \in {"done", "failed", "new"})

-----------------------------------------------------------------------------
(* The inductive invariant, beside CacheInv.                               *)
DownloadTypeOK ==
  /\ kind \in {"artifact", "file"}
  /\ fetch \in {"new", "found", "ask", "wait", "receive", "abort", "commit", "again", "done",
                "failed", "panic"}
  /\ resp \in Response

(* Where the two goroutines are in the operations on their caches; nobody  *)
(* but the fetcher writes the cache of its process.                        *)
Places ==
  /\ at[Fetcher] # "idle" => on[Fetcher] = Local
  /\ fetch \in {"ask", "wait", "failed"} => at[Fetcher] = "idle"
  /\ fetch \in {"new", "again"} => at[Fetcher] \in {"idle", "stat"}
  /\ fetch = "new" /\ kind = "file" => at[Fetcher] = "idle"
  /\ fetch = "receive" => at[Fetcher] \in {"mkdir", "write", "written"}
  /\ fetch \in {"abort", "commit"} => at[Fetcher] = "unlock"
  /\ fetch \in {"found", "done"} => at[Fetcher] \in {"idle", "read"}
  /\ at[Server] \in {"idle", "stat", "read"}
  /\ \A t \in Thread \ {Fetcher} : on[t] = Local => at[t] \in {"idle", "stat", "read"}

(* What was received is what was sent, on its way into the cache and there. *)
Received ==
  /\ at[Fetcher] = "written" => resp \in {"whole", "cut"} /\ tmpDir[Local] = resp
  /\ fetch \in {"commit", "again", "done"} =>
       resp \in {"whole", "cut"} /\ cacheDir[Local] = resp

DownloadInv == CacheInv /\ DownloadTypeOK /\ Places /\ Received /\ JustDownloadedFound
=============================================================================
