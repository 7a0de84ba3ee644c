--------------------------- MODULE ArtifactCache ---------------------------
(***************************************************************************)
(* artifact.Cache (distbuild/pkg/artifact/cache.go), which also carries    *)
(* filecache.Cache: directories on disk and a table of locks in memory.    *)
(*                                                                         *)
(* Cache.mu guards the table only.  A caller's operation is therefore a    *)
(* sequence of steps: it takes a lock, touches the disk, gives the lock    *)
(* back; at[t] is the step its thread is at.  The process may restart      *)
(* between any two of them.                                                *)
(***************************************************************************)
EXTENDS Naturals, FiniteSets

CONSTANTS
  ID,      \* artifact IDs
  Thread   \* the goroutines that use the cache, one operation at a time

ASSUME CacheAssumption == IsFiniteSet(Thread)

VARIABLES
  cacheDir,     \* root/c/<id>: what is in there
  tmpDir,       \* root/tmp/<id>: what is in there
  writeLocked,  \* the IDs locked for write
  readLocked,   \* how many read locks an ID has
  at,           \* where the operation of a thread is
  on            \* the ID it is about

cacheVars == <<cacheDir, tmpDir, writeLocked, readLocked, at, on>>

(* Nothing; a part of what will be there; all of it; what Remove left.     *)
Content == {"none", "part", "whole", "cut"}

NewCache ==
  /\ cacheDir = [id \in ID |-> "none"]
  /\ tmpDir = [id \in ID |-> "none"]
  /\ writeLocked = {}
  /\ readLocked = [id \in ID |-> 0]
  /\ at = [t \in Thread |-> "idle"]
  /\ on \in [Thread -> ID]

Goes(t, step) == at' = [at EXCEPT ![t] = step]

Stored(id) == cacheDir[id] # "none"

-----------------------------------------------------------------------------
(* readLock and writeLock: what they return, and what they change.  They   *)
(* look at the disk and at both tables under Cache.mu.                     *)
ReadLockError(id) == IF id \in writeLocked THEN "ErrWriteLocked" ELSE "nil"

(* Slip: Remove does not mind readers.                                     *)
WriteLockErrorUnread(id, remove) ==
  IF Stored(id) /\ ~remove THEN "ErrExists"
  ELSE IF id \in writeLocked THEN "ErrWriteLocked" ELSE "nil"

WriteLockError(id, remove) ==
  IF Stored(id) /\ ~remove THEN "ErrExists"
  ELSE IF id \in writeLocked THEN "ErrWriteLocked"
  ELSE IF readLocked[id] > 0 THEN "ErrReadLocked" ELSE "nil"

ReadLock(t, id) ==
  /\ ReadLockError(id) = "nil"
  /\ readLocked' = [readLocked EXCEPT ![id] = @ + 1]
  /\ on' = [on EXCEPT ![t] = id]
  /\ UNCHANGED <<cacheDir, tmpDir, writeLocked>>

ReadUnlock(t) ==
  /\ readLocked' = [readLocked EXCEPT ![on[t]] = @ - 1]
  /\ UNCHANGED <<cacheDir, tmpDir, writeLocked, on>>

WriteLock(t, id, remove) ==
  /\ WriteLockError(id, remove) = "nil"
  /\ writeLocked' = writeLocked \cup {id}
  /\ on' = [on EXCEPT ![t] = id]
  /\ UNCHANGED <<cacheDir, tmpDir, readLocked>>

-----------------------------------------------------------------------------
(* Get: a lock, and then a look at the disk ...                            *)
Get(t, id) ==
  /\ at[t] = "idle"
  /\ ReadLock(t, id)
  /\ Goes(t, "stat")

(* Slip: the lock is given back as Get returns.                            *)
GetFoundUnlocked(t) ==
  /\ at[t] = "stat"
  /\ Stored(on[t])
  /\ ReadUnlock(t)
  /\ Goes(t, "read")

(* ... that finds the artifact, whose reader unlocks it some time later ...*)
GetFound(t) ==
  /\ at[t] = "stat"
  /\ Stored(on[t])
  /\ Goes(t, "read")
  /\ UNCHANGED <<cacheDir, tmpDir, writeLocked, readLocked, on>>

(* Slip: a Get that finds nothing keeps its lock.                          *)
GetNotFoundLocked(t) ==
  /\ at[t] = "stat"
  /\ ~Stored(on[t])
  /\ Goes(t, "idle")
  /\ UNCHANGED <<cacheDir, tmpDir, writeLocked, readLocked, on>>

(* ... or does not: ErrNotFound, and no lock.                              *)
GetNotFound(t) ==
  /\ at[t] = "stat"
  /\ ~Stored(on[t])
  /\ ReadUnlock(t)
  /\ Goes(t, "idle")

Unlock(t) ==
  /\ at[t] = "read"
  /\ ReadUnlock(t)
  /\ Goes(t, "idle")

-----------------------------------------------------------------------------
(* Create: a lock, then a directory for the writer to fill ...             *)
Create(t, id) ==
  /\ at[t] = "idle"
  /\ WriteLock(t, id, FALSE)
  /\ Goes(t, "mkdir")

(* Slip: the writer works in the cache itself.                             *)
MakeDirInPlace(t) ==
  /\ at[t] = "mkdir"
  /\ cacheDir' = [cacheDir EXCEPT ![on[t]] = "part"]
  /\ tmpDir' = [tmpDir EXCEPT ![on[t]] = "part"]
  /\ Goes(t, "write")
  /\ UNCHANGED <<writeLocked, readLocked, on>>

MakeDir(t) ==
  /\ at[t] = "mkdir"
  /\ tmpDir' = [tmpDir EXCEPT ![on[t]] = "part"]
  /\ Goes(t, "write")
  /\ UNCHANGED <<cacheDir, writeLocked, readLocked, on>>

(* ... which may fail to be made.                                          *)
MakeDirFails(t) ==
  /\ at[t] = "mkdir"
  /\ Goes(t, "unlock")
  /\ UNCHANGED <<cacheDir, tmpDir, writeLocked, readLocked, on>>

(* The caller has written everything it wanted to.                         *)
Fill(t) ==
  /\ at[t] = "write"
  /\ tmpDir' = [tmpDir EXCEPT ![on[t]] = "whole"]
  /\ Goes(t, "written")
  /\ UNCHANGED <<cacheDir, writeLocked, readLocked, on>>

(* commit and abort: the disk first, the lock last (it is deferred).       *)
Commit(t) ==
  /\ at[t] = "written"
  /\ cacheDir' = [cacheDir EXCEPT ![on[t]] = tmpDir[on[t]]]
  /\ tmpDir' = [tmpDir EXCEPT ![on[t]] = "none"]
  /\ Goes(t, "unlock")
  /\ UNCHANGED <<writeLocked, readLocked, on>>

Abort(t) ==
  /\ at[t] \in {"write", "written"}
  /\ tmpDir' = [tmpDir EXCEPT ![on[t]] = "none"]
  /\ Goes(t, "unlock")
  /\ UNCHANGED <<cacheDir, writeLocked, readLocked, on>>

WriteUnlock(t) ==
  /\ at[t] = "unlock"
  /\ writeLocked' = writeLocked \ {on[t]}
  /\ Goes(t, "idle")
  /\ UNCHANGED <<cacheDir, tmpDir, readLocked, on>>

-----------------------------------------------------------------------------
(* Remove: a lock, and the files of the artifact one after the other.      *)
Remove(t, id) ==
  /\ at[t] = "idle"
  /\ WriteLock(t, id, TRUE)
  /\ Goes(t, "remove")

RemoveSome(t) ==
  /\ at[t] = "remove"
  /\ Stored(on[t])
  /\ cacheDir' = [cacheDir EXCEPT ![on[t]] = "cut"]
  /\ UNCHANGED <<tmpDir, writeLocked, readLocked, at, on>>

RemoveRest(t) ==
  /\ at[t] = "remove"
  /\ cacheDir' = [cacheDir EXCEPT ![on[t]] = "none"]
  /\ Goes(t, "unlock")
  /\ UNCHANGED <<tmpDir, writeLocked, readLocked, on>>

LocksLost(lost) ==
  /\ writeLocked' = writeLocked \ lost
  /\ readLocked' = [id \in ID |-> IF id \in lost THEN 0 ELSE readLocked[id]]
  /\ at' = [t \in Thread |-> IF on[t] \in lost THEN "idle" ELSE at[t]]

(* Slip: root/tmp is kept across a restart.                                *)
RestartDirty(lost) == LocksLost(lost) /\ UNCHANGED <<cacheDir, tmpDir, on>>

(* A process ends, and NewCache opens its root again: it empties root/tmp, *)
(* and the locks were in memory only.  "lost" are the artifacts of its     *)
(* cache: all there are, or those of one of the caches that a module with  *)
(* several processes has in ID.                                            *)
Restart(lost) ==
  /\ LocksLost(lost)
  /\ tmpDir' = [id \in ID |-> IF id \in lost THEN "none" ELSE tmpDir[id]]
  /\ UNCHANGED <<cacheDir, on>>

-----------------------------------------------------------------------------
CacheStep(t) ==
  \/ \E id \in ID : Get(t, id) \/ Create(t, id) \/ Remove(t, id)
  \/ GetFound(t) \/ GetNotFound(t) \/ Unlock(t)
  \/ MakeDir(t) \/ MakeDirFails(t) \/ Fill(t) \/ Commit(t) \/ Abort(t) \/ WriteUnlock(t)
  \/ RemoveSome(t) \/ RemoveRest(t)

CacheNext == (\E t \in Thread : CacheStep(t)) \/ Restart(ID)

CacheSpec == NewCache /\ [][CacheNext]_cacheVars

-----------------------------------------------------------------------------
Reads == {"stat", "read"}
Writes == {"mkdir", "write", "written", "remove", "unlock"}

Readers(id) == {t \in Thread : at[t] \in Reads /\ on[t] = id}
Writers(id) == {t \in Thread : at[t] \in Writes /\ on[t] = id}

CacheTypeOK ==
  /\ cacheDir \in [ID -> Content]
  /\ tmpDir \in [ID -> Content]
  /\ writeLocked \subseteq ID
  /\ readLocked \in [ID -> Nat]
  /\ at \in [Thread -> {"idle", "stat", "read", "mkdir", "write", "written", "remove",
                        "unlock"}]
  /\ on \in [Thread -> ID]

(* artifact/README.md:10: nobody works with an artifact that another       *)
(* goroutine writes or removes: the table of locks says who works with it, *)
(* and no lock is lost or left behind.                                     *)
LocksExclude ==
  \A id \in ID :
    /\ readLocked[id] = Cardinality(Readers(id))
    /\ Cardinality(Writers(id)) = IF id \in writeLocked THEN 1 ELSE 0
    /\ Writers(id) # {} => Readers(id) = {}

(* cache.go:159-167: an artifact enters the cache whole (commit) or not at *)
(* all (abort), also when the process is lost while it is being written.   *)
NeverHalfWritten == \A id \in ID : cacheDir[id] # "part"

(* cache.go:153: the directory that Create gives its caller is a new one:  *)
(* neither an abort nor a lost process leaves anything in it.              *)
FreshDir == \A t \in Thread : at[t] = "mkdir" => tmpDir[on[t]] = "none"

(* cache.go:187: while a reader has not unlocked, the artifact it got is   *)
(* neither removed nor replaced.                                           *)
ReadersUndisturbed ==
  [][\A t \in Thread : at[t] = "read" /\ at'[t] = "read" =>
       cacheDir'[on[t]] = cacheDir[on[t]]]_cacheVars

-----------------------------------------------------------------------------
(* What makes the properties inductive: a write lock has one owner, which  *)
(* its thread is, a reader keeps writers out, and root/tmp holds what the  *)
(* owner of the lock has got to.                                           *)
OneWriter ==
  /\ \A id \in writeLocked : Writers(id) # {}
  /\ \A t \in Thread : at[t] \in Writes => on[t] \in writeLocked
  /\ \A t, u \in Thread :
       at[t] \in Writes /\ at[u] \in Writes /\ on[t] = on[u] => t = u

ReadersCounted ==
  /\ \A id \in ID : readLocked[id] = Cardinality(Readers(id))
  /\ \A t \in Thread : at[t] \in Reads => on[t] \notin writeLocked

TmpOfWriter ==
  /\ \A id \in ID \ writeLocked : tmpDir[id] = "none"
  /\ \A t \in Thread : /\ at[t] \in {"mkdir", "remove", "unlock"} => tmpDir[on[t]] = "none"
                       /\ at[t] = "written" => tmpDir[on[t]] \in {"whole", "cut"}

CacheInv == CacheTypeOK /\ OneWriter /\ ReadersCounted /\ TmpOfWriter /\ NeverHalfWritten
=============================================================================
