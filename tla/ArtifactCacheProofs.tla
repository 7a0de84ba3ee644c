------------------------ MODULE ArtifactCacheProofs ------------------------
(***************************************************************************)
(* The locks of the cache and the directories they guard, for every number *)
(* of threads and artifacts: CacheInv (module ArtifactCache) is inductive. *)
(***************************************************************************)
EXTENDS ArtifactCache, FiniteSetTheorems, TLAPS

(* There are only so many threads to read an artifact.                     *)
LEMMA ReadersFinite ==
  ASSUME NEW id \in ID
  PROVE  /\ IsFiniteSet(Readers(id)) /\ Cardinality(Readers(id)) \in Nat
         /\ Cardinality(Readers(id)) = 0 => Readers(id) = {}
<1>1. Readers(id) \subseteq Thread
  BY DEF Readers
<1>2. IsFiniteSet(Readers(id))
  BY <1>1, CacheAssumption, FS_Subset
<1> QED
  BY <1>2, FS_CardinalityType, FS_EmptySet

-----------------------------------------------------------------------------
(* A cache that was just opened on an empty directory.                     *)
LEMMA CacheInitInv == NewCache => CacheInv
<1> SUFFICES ASSUME NewCache PROVE CacheInv
  OBVIOUS
<1> USE DEF NewCache
<1>1. CacheTypeOK
  BY DEF CacheTypeOK, Content
<1>2. OneWriter /\ TmpOfWriter /\ NeverHalfWritten
  BY DEF OneWriter, TmpOfWriter, NeverHalfWritten, Writes
<1>3. ReadersCounted
  <2>1. \A id \in ID : Readers(id) = {}
    BY DEF Readers, Reads
  <2> QED
    BY <2>1, FS_EmptySet DEF ReadersCounted, Reads
<1> QED
  BY <1>1, <1>2, <1>3 DEF CacheInv

(* Get: one more reader, of an artifact that nobody writes.                *)
LEMMA GetInv ==
  ASSUME CacheInv, NEW t \in Thread, NEW i \in ID, Get(t, i)
  PROVE  CacheInv'
<1>1. /\ at[t] = "idle" /\ Goes(t, "stat")
      /\ i \notin writeLocked
      /\ readLocked' = [readLocked EXCEPT ![i] = readLocked[i] + 1]
      /\ on' = [on EXCEPT ![t] = i]
      /\ UNCHANGED <<cacheDir, tmpDir, writeLocked>>
      /\ CacheTypeOK
  BY DEF Get, ReadLock, ReadLockError, CacheInv, CacheTypeOK
<1>2. on'[t] = i /\ \A u \in Thread \ {t} : on'[u] = on[u]
  BY <1>1 DEF CacheTypeOK
<1>3. at'[t] = "stat" /\ \A u \in Thread \ {t} : at'[u] = at[u]
  BY <1>1 DEF CacheTypeOK, Goes
<1>4. CacheTypeOK'
  BY <1>1 DEF CacheTypeOK, Goes
<1>5. OneWriter'
  <2>1. \A id \in ID : Writers(id)' = Writers(id)
    BY <1>1, <1>2, <1>3 DEF Writers, Writes
  <2> QED
    BY <1>1, <1>2, <1>3, <2>1 DEF CacheInv, CacheTypeOK, OneWriter, Writes
<1>6. ReadersCounted'
  <2>1. ASSUME NEW id \in ID PROVE readLocked'[id] = Cardinality(Readers(id)')
    <3>1. readLocked[id] = Cardinality(Readers(id)) /\ IsFiniteSet(Readers(id))
      BY ReadersFinite DEF CacheInv, ReadersCounted
    <3>2. CASE id = i
      <4>1. Readers(id)' = Readers(id) \cup {t} /\ t \notin Readers(id)
        BY <1>1, <1>2, <1>3, <3>2 DEF Readers, Reads
      <4>2. readLocked'[id] = readLocked[id] + 1
        BY <1>1, <3>2 DEF CacheTypeOK
      <4> QED
        BY <3>1, <4>1, <4>2, FS_AddElement
    <3>3. CASE id # i
      <4>1. Readers(id)' = Readers(id)
        BY <1>1, <1>2, <1>3, <3>3 DEF Readers, Reads
      <4>2. readLocked'[id] = readLocked[id]
        BY <1>1, <3>3 DEF CacheTypeOK
      <4> QED
        BY <3>1, <4>1, <4>2
    <3> QED
      BY <3>2, <3>3
  <2>2. \A u \in Thread : at'[u] \in Reads => on'[u] \notin writeLocked
    BY <1>1, <1>2, <1>3 DEF CacheInv, ReadersCounted
  <2> QED
    BY <1>1, <2>1, <2>2 DEF ReadersCounted
<1>7. TmpOfWriter' /\ NeverHalfWritten'
  BY <1>1, <1>2, <1>3 DEF CacheInv, TmpOfWriter, NeverHalfWritten
<1> QED
  BY <1>4, <1>5, <1>6, <1>7 DEF CacheInv

(* A reader goes: GetNotFound and Unlock.                                  *)
LEMMA ReadEndsInv ==
  ASSUME CacheInv, NEW t \in Thread, GetNotFound(t) \/ Unlock(t)
  PROVE  CacheInv'
<1>1. /\ at[t] \in Reads /\ Goes(t, "idle")
      /\ readLocked' = [readLocked EXCEPT ![on[t]] = readLocked[on[t]] - 1]
      /\ UNCHANGED <<cacheDir, tmpDir, writeLocked, on>>
      /\ CacheTypeOK
  BY DEF GetNotFound, Unlock, ReadUnlock, Reads, CacheInv, CacheTypeOK
<1>2. at'[t] = "idle" /\ \A u \in Thread \ {t} : at'[u] = at[u]
  BY <1>1 DEF CacheTypeOK, Goes
<1>3. ASSUME NEW id \in ID
      PROVE  readLocked'[id] \in Nat /\ readLocked'[id] = Cardinality(Readers(id)')
  <2>1. readLocked[id] = Cardinality(Readers(id)) /\ IsFiniteSet(Readers(id))
    BY ReadersFinite DEF CacheInv, ReadersCounted
  <2>2. CASE id = on[t]
    <3>1. Readers(id)' = Readers(id) \ {t} /\ t \in Readers(id)
      BY <1>1, <1>2, <2>2 DEF Readers, Reads
    <3>2. readLocked'[id] = readLocked[id] - 1
      BY <1>1, <2>2 DEF CacheTypeOK
    <3>3. readLocked'[id] = Cardinality(Readers(id)')
      BY <2>1, <3>1, <3>2, FS_RemoveElement
    <3>4. IsFiniteSet(Readers(id)')
      BY <2>1, <3>1, FS_RemoveElement
    <3> QED
      BY <3>3, <3>4, FS_CardinalityType
  <2>3. CASE id # on[t]
    <3>1. Readers(id)' = Readers(id)
      BY <1>1, <1>2, <2>3 DEF Readers, Reads
    <3>2. readLocked'[id] = readLocked[id]
      BY <1>1, <2>3 DEF CacheTypeOK
    <3> QED
      BY <1>1, <2>1, <3>1, <3>2 DEF CacheTypeOK
  <2> QED
    BY <2>2, <2>3
<1>4. CacheTypeOK'
  <2>1. DOMAIN readLocked' = ID /\ readLocked' = [id \in ID |-> readLocked'[id]]
    BY <1>1 DEF CacheTypeOK
  <2> QED
    BY <1>1, <1>3, <2>1 DEF CacheTypeOK, Goes
<1>5. OneWriter'
  <2>1. \A id \in ID : Writers(id)' = Writers(id)
    BY <1>1, <1>2 DEF Writers, Writes, Reads
  <2> QED
    BY <1>1, <1>2, <2>1 DEF CacheInv, CacheTypeOK, OneWriter, Writes
<1>6. ReadersCounted'
  BY <1>1, <1>2, <1>3 DEF CacheInv, ReadersCounted, Reads
<1>7. TmpOfWriter' /\ NeverHalfWritten'
  BY <1>1, <1>2 DEF CacheInv, TmpOfWriter, NeverHalfWritten
<1> QED
  BY <1>4, <1>5, <1>6, <1>7 DEF CacheInv

(* Get returns with its lock.                                              *)
LEMMA GetFoundInv ==
  ASSUME CacheInv, NEW t \in Thread, GetFound(t)
  PROVE  CacheInv'
<1>1. /\ at[t] = "stat" /\ Goes(t, "read")
      /\ UNCHANGED <<cacheDir, tmpDir, writeLocked, readLocked, on>>
      /\ CacheTypeOK
  BY DEF GetFound, CacheInv
<1>2. at'[t] = "read" /\ \A u \in Thread \ {t} : at'[u] = at[u]
  BY <1>1 DEF CacheTypeOK, Goes
<1>3. CacheTypeOK'
  BY <1>1 DEF CacheTypeOK, Goes
<1>4. \A id \in ID : Writers(id)' = Writers(id) /\ Readers(id)' = Readers(id)
  BY <1>1, <1>2 DEF Writers, Writes, Readers, Reads
<1>5. OneWriter'
  BY <1>1, <1>2, <1>4 DEF CacheInv, CacheTypeOK, OneWriter, Writes
<1>6. ReadersCounted'
  BY <1>1, <1>2, <1>4 DEF CacheInv, ReadersCounted, Reads
<1>7. TmpOfWriter' /\ NeverHalfWritten'
  BY <1>1, <1>2 DEF CacheInv, TmpOfWriter, NeverHalfWritten
<1> QED
  BY <1>3, <1>5, <1>6, <1>7 DEF CacheInv

(* Create and Remove: a writer, of an artifact that nobody reads or writes.*)
LEMMA WriteStartsInv ==
  ASSUME CacheInv, NEW t \in Thread, NEW i \in ID, Create(t, i) \/ Remove(t, i)
  PROVE  CacheInv'
<1>1. /\ at[t] = "idle" /\ \E step \in {"mkdir", "remove"} : Goes(t, step)
      /\ i \notin writeLocked /\ ~(readLocked[i] > 0)
      /\ writeLocked' = writeLocked \cup {i}
      /\ on' = [on EXCEPT ![t] = i]
      /\ UNCHANGED <<cacheDir, tmpDir, readLocked>>
      /\ CacheTypeOK
  BY DEF Create, Remove, WriteLock, WriteLockError, CacheInv
<1>2. on'[t] = i /\ \A u \in Thread \ {t} : on'[u] = on[u]
  BY <1>1 DEF CacheTypeOK
<1>3. at'[t] \in {"mkdir", "remove"} /\ \A u \in Thread \ {t} : at'[u] = at[u]
  BY <1>1 DEF CacheTypeOK, Goes
<1>4. CacheTypeOK'
  BY <1>1 DEF CacheTypeOK, Goes
<1>5. \A u \in Thread : at[u] \in Reads \cup Writes => on[u] # i
  <2>1. Readers(i) = {}
    BY <1>1, ReadersFinite DEF CacheInv, CacheTypeOK, ReadersCounted
  <2> QED
    BY <1>1, <2>1 DEF CacheInv, OneWriter, Readers
<1>6. OneWriter'
  <2>1. t \in Writers(i)'
    BY <1>2, <1>3 DEF Writers, Writes
  <2>2. \A id \in ID : Writers(id) \subseteq Writers(id)'
    BY <1>1, <1>2, <1>3 DEF Writers, Writes
  <2>3. \A id \in writeLocked' : Writers(id)' # {}
    BY <1>1, <2>1, <2>2 DEF CacheInv, CacheTypeOK, OneWriter
  <2>4. \A u \in Thread : at'[u] \in Writes => on'[u] \in writeLocked'
    BY <1>1, <1>2, <1>3 DEF CacheInv, OneWriter
  <2>5. \A u, v \in Thread : at'[u] \in Writes /\ at'[v] \in Writes /\ on'[u] = on'[v] => u = v
    BY <1>2, <1>3, <1>5 DEF CacheInv, OneWriter
  <2> QED
    BY <2>3, <2>4, <2>5 DEF OneWriter
<1>7. ReadersCounted'
  <2>1. \A id \in ID : Readers(id)' = Readers(id)
    BY <1>1, <1>2, <1>3 DEF Readers, Reads
  <2>2. \A u \in Thread : at'[u] \in Reads => on'[u] \notin writeLocked'
    BY <1>1, <1>2, <1>3, <1>5 DEF CacheInv, ReadersCounted, Reads
  <2> QED
    BY <1>1, <2>1, <2>2 DEF CacheInv, ReadersCounted
<1>8. TmpOfWriter' /\ NeverHalfWritten'
  BY <1>1, <1>2, <1>3 DEF CacheInv, TmpOfWriter, NeverHalfWritten
<1> QED
  BY <1>4, <1>6, <1>7, <1>8 DEF CacheInv

(* The owner of the lock works on the directories of its artifact.         *)
LEMMA WriterWorksInv ==
  ASSUME CacheInv, NEW t \in Thread,
         \/ MakeDir(t) \/ MakeDirFails(t) \/ Fill(t) \/ Commit(t) \/ Abort(t)
         \/ RemoveSome(t) \/ RemoveRest(t)
  PROVE  CacheInv'
<1> DEFINE i == on[t]
<1>1. /\ at[t] \in Writes /\ at'[t] \in Writes
      /\ \A u \in Thread \ {t} : at'[u] = at[u]
      /\ at' \in [Thread -> {"idle", "stat", "read", "mkdir", "write", "written", "remove",
                             "unlock"}]
      /\ UNCHANGED <<writeLocked, readLocked, on>>
      /\ CacheTypeOK /\ i \in ID
  BY DEF MakeDir, MakeDirFails, Fill, Commit, Abort, RemoveSome, RemoveRest, Goes, Writes,
         CacheInv, CacheTypeOK
<1>2. /\ tmpDir[i] \in Content
      /\ at[t] \in {"mkdir", "remove", "unlock"} => tmpDir[i] = "none"
      /\ at[t] = "written" => tmpDir[i] \in {"whole", "cut"}
  BY <1>1 DEF CacheInv, TmpOfWriter, CacheTypeOK
<1>3. /\ \A id \in ID \ {i} : tmpDir'[id] = tmpDir[id]
      /\ at'[t] \in {"mkdir", "remove", "unlock"} => tmpDir'[i] = "none"
      /\ at'[t] = "written" => tmpDir'[i] = "whole"
      /\ tmpDir' \in [ID -> Content]
  BY <1>1, <1>2
     DEF MakeDir, MakeDirFails, Fill, Commit, Abort, RemoveSome, RemoveRest, Goes, Content,
         CacheTypeOK
<1>4. /\ \A id \in ID \ {i} : cacheDir'[id] = cacheDir[id]
      /\ cacheDir'[i] \in {cacheDir[i], "whole", "cut", "none"}
      /\ cacheDir' \in [ID -> Content]
  BY <1>1, <1>2
     DEF MakeDir, MakeDirFails, Fill, Commit, Abort, RemoveSome, RemoveRest, Content,
         CacheTypeOK
<1>5. CacheTypeOK'
  BY <1>1, <1>3, <1>4 DEF CacheTypeOK
<1>6. \A id \in ID : Writers(id)' = Writers(id) /\ Readers(id)' = Readers(id)
  BY <1>1 DEF Writers, Writes, Readers, Reads
<1>7. OneWriter'
  BY <1>1, <1>6 DEF CacheInv, CacheTypeOK, OneWriter
<1>8. ReadersCounted'
  BY <1>1, <1>6 DEF CacheInv, ReadersCounted, Reads, Writes
<1>9. TmpOfWriter'
  <2>1. i \in writeLocked /\ \A u \in Thread \ {t} : at[u] \in Writes => on[u] # i
    BY <1>1 DEF CacheInv, OneWriter
  <2>2. \A id \in ID \ writeLocked : tmpDir'[id] = "none"
    BY <1>3, <2>1 DEF CacheInv, TmpOfWriter
  <2>3. ASSUME NEW u \in Thread
        PROVE  /\ at'[u] \in {"mkdir", "remove", "unlock"} => tmpDir'[on[u]] = "none"
               /\ at'[u] = "written" => tmpDir'[on[u]] \in {"whole", "cut"}
    <3>1. CASE u = t
      BY <1>3, <3>1
    <3>2. CASE u # t
      BY <1>1, <1>3, <2>1, <3>2 DEF CacheInv, CacheTypeOK, TmpOfWriter, Writes
    <3> QED
      BY <3>1, <3>2
  <2> QED
    BY <1>1, <2>2, <2>3 DEF TmpOfWriter
<1>10. NeverHalfWritten'
  BY <1>4 DEF CacheInv, NeverHalfWritten
<1> QED
  BY <1>5, <1>7, <1>8, <1>9, <1>10 DEF CacheInv

(* The owner of the write lock gives it back.                              *)
LEMMA WriteUnlockInv ==
  ASSUME CacheInv, NEW t \in Thread, WriteUnlock(t)
  PROVE  CacheInv'
<1>1. /\ at[t] = "unlock" /\ Goes(t, "idle")
      /\ writeLocked' = writeLocked \ {on[t]}
      /\ UNCHANGED <<cacheDir, tmpDir, readLocked, on>>
      /\ CacheTypeOK
  BY DEF WriteUnlock, CacheInv
<1>2. at'[t] = "idle" /\ \A u \in Thread \ {t} : at'[u] = at[u]
  BY <1>1 DEF CacheTypeOK, Goes
<1>3. CacheTypeOK'
  BY <1>1 DEF CacheTypeOK, Goes
<1>4. \A u \in Thread \ {t} : at[u] \in Writes => on[u] # on[t]
  BY <1>1 DEF CacheInv, OneWriter, Writes
<1>5. OneWriter'
  <2>1. \A id \in ID \ {on[t]} : Writers(id)' = Writers(id)
    BY <1>1, <1>2 DEF Writers
  <2>2. \A id \in writeLocked' : Writers(id)' # {}
    BY <1>1, <2>1 DEF CacheInv, CacheTypeOK, OneWriter
  <2>3. \A u \in Thread : at'[u] \in Writes => on'[u] \in writeLocked'
    BY <1>1, <1>2, <1>4 DEF CacheInv, OneWriter, Writes
  <2>4. \A u, v \in Thread : at'[u] \in Writes /\ at'[v] \in Writes /\ on'[u] = on'[v] => u = v
    BY <1>1, <1>2 DEF CacheInv, OneWriter, Writes
  <2> QED
    BY <2>2, <2>3, <2>4 DEF OneWriter
<1>6. ReadersCounted'
  <2>1. \A id \in ID : Readers(id)' = Readers(id)
    BY <1>1, <1>2 DEF Readers, Reads
  <2> QED
    BY <1>1, <1>2, <2>1 DEF CacheInv, ReadersCounted, Reads
<1>7. TmpOfWriter' /\ NeverHalfWritten'
  BY <1>1, <1>2 DEF CacheInv, TmpOfWriter, NeverHalfWritten
<1> QED
  BY <1>3, <1>5, <1>6, <1>7 DEF CacheInv

(* A restart forgets the locks of its cache and empties its root/tmp.      *)
LEMMA RestartInv ==
  ASSUME CacheInv, NEW lost \in SUBSET ID, Restart(lost)
  PROVE  CacheInv'
<1>1. CacheTypeOK
  BY DEF CacheInv
<1>2. CacheTypeOK'
  BY <1>1 DEF CacheTypeOK, Restart, LocksLost, Content
<1>3. \A u \in Thread : /\ on'[u] = on[u]
                        /\ at'[u] = IF on[u] \in lost THEN "idle" ELSE at[u]
  BY DEF Restart, LocksLost
<1>4. writeLocked' = writeLocked \ lost
  BY DEF Restart, LocksLost
<1>5. \A id \in ID : /\ cacheDir'[id] = cacheDir[id]
                     /\ tmpDir'[id] = IF id \in lost THEN "none" ELSE tmpDir[id]
                     /\ readLocked'[id] = IF id \in lost THEN 0 ELSE readLocked[id]
  BY DEF Restart, LocksLost
<1>6. \A id \in ID :
        /\ Readers(id)' = IF id \in lost THEN {} ELSE Readers(id)
        /\ Writers(id)' = IF id \in lost THEN {} ELSE Writers(id)
  BY <1>3 DEF Readers, Reads, Writers, Writes
<1>7. OneWriter'
  <2>1. \A id \in writeLocked' : Writers(id)' # {}
    BY <1>1, <1>4, <1>6 DEF CacheInv, OneWriter, CacheTypeOK
  <2>2. \A t \in Thread : at'[t] \in Writes => on'[t] \in writeLocked'
    BY <1>3, <1>4 DEF CacheInv, OneWriter, Writes
  <2>3. \A t, u \in Thread :
          at'[t] \in Writes /\ at'[u] \in Writes /\ on'[t] = on'[u] => t = u
    BY <1>3 DEF CacheInv, OneWriter, Writes
  <2> QED
    BY <2>1, <2>2, <2>3 DEF OneWriter, Writes
<1>8. ReadersCounted'
  <2>1. \A id \in ID : readLocked'[id] = Cardinality(Readers(id)')
    BY <1>5, <1>6, FS_EmptySet DEF CacheInv, ReadersCounted
  <2>2. \A t \in Thread : at'[t] \in Reads => on'[t] \notin writeLocked'
    BY <1>3, <1>4 DEF CacheInv, ReadersCounted, Reads
  <2> QED
    BY <2>1, <2>2 DEF ReadersCounted, Reads
<1>9. TmpOfWriter'
  <2>1. \A id \in ID \ writeLocked' : tmpDir'[id] = "none"
    BY <1>4, <1>5 DEF CacheInv, TmpOfWriter
  <2>2. \A t \in Thread :
          /\ at'[t] \in {"mkdir", "remove", "unlock"} => tmpDir'[on'[t]] = "none"
          /\ at'[t] = "written" => tmpDir'[on'[t]] \in {"whole", "cut"}
    BY <1>1, <1>3, <1>5 DEF CacheInv, TmpOfWriter, CacheTypeOK
  <2> QED
    BY <2>1, <2>2 DEF TmpOfWriter
<1>10. NeverHalfWritten'
  BY <1>5 DEF CacheInv, NeverHalfWritten
<1> QED
  BY <1>2, <1>7, <1>8, <1>9, <1>10 DEF CacheInv

(* Every step of a thread, and a restart.                                  *)
LEMMA CacheStepInv == CacheInv /\ [CacheNext]_cacheVars => CacheInv'
<1> SUFFICES ASSUME CacheInv, [CacheNext]_cacheVars PROVE CacheInv'
  OBVIOUS
<1>1. ASSUME NEW t \in Thread, CacheStep(t) PROVE CacheInv'
  BY <1>1, GetInv, GetFoundInv, ReadEndsInv, WriteStartsInv, WriterWorksInv, WriteUnlockInv
     DEF CacheStep
<1>2. CASE Restart(ID)
  BY <1>2, RestartInv
<1>3. CASE UNCHANGED cacheVars
  <2>1. \A id \in ID : Writers(id)' = Writers(id) /\ Readers(id)' = Readers(id)
    BY <1>3 DEF Writers, Readers, cacheVars
  <2>2. CacheTypeOK' /\ TmpOfWriter' /\ NeverHalfWritten'
    BY <1>3 DEF CacheInv, CacheTypeOK, TmpOfWriter, NeverHalfWritten, cacheVars
  <2>3. OneWriter' /\ ReadersCounted'
    BY <1>3, <2>1 DEF CacheInv, CacheTypeOK, OneWriter, ReadersCounted, cacheVars
  <2> QED
    BY <2>2, <2>3 DEF CacheInv
<1> QED
  BY <1>1, <1>2, <1>3 DEF CacheNext

(* What the invariant says of readers and writers.                         *)
LEMMA InvExcludes == CacheInv => LocksExclude
<1> SUFFICES ASSUME CacheInv, NEW id \in ID
             PROVE  /\ readLocked[id] = Cardinality(Readers(id))
                    /\ Cardinality(Writers(id)) = IF id \in writeLocked THEN 1 ELSE 0
                    /\ Writers(id) # {} => Readers(id) = {}
  BY DEF LocksExclude
<1>1. readLocked[id] = Cardinality(Readers(id))
  BY DEF CacheInv, ReadersCounted
<1>2. Writers(id) # {} => id \in writeLocked
  BY DEF CacheInv, OneWriter, Writers
<1>3. ASSUME id \in writeLocked PROVE Cardinality(Writers(id)) = 1
  <2>1. PICK t : t \in Writers(id)
    BY <1>3 DEF CacheInv, OneWriter
  <2>2. Writers(id) = {t}
    BY <2>1 DEF CacheInv, OneWriter, Writers
  <2> QED
    BY <2>2, FS_Singleton
<1>4. Writers(id) # {} => Readers(id) = {}
  BY <1>2 DEF CacheInv, ReadersCounted, Readers
<1> QED
  BY <1>1, <1>2, <1>3, <1>4, FS_EmptySet

-----------------------------------------------------------------------------
(* The table of locks and the directories stay as CacheInv says.           *)
THEOREM CacheInvariant == CacheSpec => []CacheInv
<1> QED
  BY CacheInitInv, CacheStepInv, PTL DEF CacheSpec

(* The tables and the directories keep their types.                        *)
THEOREM CacheTypeCorrect == CacheSpec => []CacheTypeOK
<1>1. CacheInv => CacheTypeOK
  BY DEF CacheInv
<1> QED
  BY <1>1, CacheInvariant, PTL

(* Nobody works with an artifact that another goroutine writes or removes, *)
(* and no lock is lost or left behind.                                     *)
THEOREM WritersAreAlone == CacheSpec => []LocksExclude
<1> QED
  BY InvExcludes, CacheInvariant, PTL

(* An artifact in the cache was written to the end: a process that is lost *)
(* while it writes, or an abort, leaves nothing that a Get would find.     *)
THEOREM ArtifactsAreWhole == CacheSpec => []NeverHalfWritten
<1>1. CacheInv => NeverHalfWritten
  BY DEF CacheInv
<1> QED
  BY <1>1, CacheInvariant, PTL

(* A writer starts from an empty directory.                                *)
THEOREM WritersStartAfresh == CacheSpec => []FreshDir
<1>1. CacheInv => FreshDir
  BY DEF CacheInv, TmpOfWriter, FreshDir
<1> QED
  BY <1>1, CacheInvariant, PTL

(* A thread, or a restart, leaves the artifact of a reader alone.          *)
LEMMA ReaderKeeps ==
  ASSUME CacheInv, NEW t \in Thread, at[t] = "read", at'[t] = "read",
         (\E u \in Thread : CacheStep(u)) \/ (\E lost \in SUBSET ID : Restart(lost))
  PROVE  cacheDir'[on[t]] = cacheDir[on[t]]
<1>1. ASSUME NEW u \in Thread, Commit(u) \/ RemoveSome(u) \/ RemoveRest(u)
      PROVE  cacheDir'[on[t]] = cacheDir[on[t]]
  <2>1. on[u] # on[t] /\ \A id \in ID \ {on[u]} : cacheDir'[id] = cacheDir[id]
    BY <1>1 DEF CacheInv, CacheTypeOK, OneWriter, ReadersCounted, Writes, Reads, Commit,
                RemoveSome, RemoveRest
  <2> QED
    BY <2>1 DEF CacheInv, CacheTypeOK
<1>2. ASSUME NEW u \in Thread, CacheStep(u)
      PROVE  \/ Commit(u) \/ RemoveSome(u) \/ RemoveRest(u)
             \/ UNCHANGED cacheDir
  BY <1>2 DEF CacheStep, Get, ReadLock, GetFound, GetNotFound, Unlock, ReadUnlock, Create,
              Remove, WriteLock, MakeDir, MakeDirFails, Fill, Abort, WriteUnlock
<1>3. ASSUME NEW lost \in SUBSET ID, Restart(lost)
      PROVE  UNCHANGED cacheDir
  BY <1>3 DEF Restart
<1> QED
  BY <1>1, <1>2, <1>3

(* Until it unlocks, a reader keeps the artifact that Get found.           *)
THEOREM ReadersKeepTheirs == CacheSpec => ReadersUndisturbed
<1> DEFINE Undisturbed ==
      \A t \in Thread : at[t] = "read" /\ at'[t] = "read" => cacheDir'[on[t]] = cacheDir[on[t]]
<1>1. CacheInv /\ [CacheNext]_cacheVars => [Undisturbed]_cacheVars
  <2> SUFFICES ASSUME CacheInv, CacheNext, NEW t \in Thread, at[t] = "read", at'[t] = "read"
               PROVE  cacheDir'[on[t]] = cacheDir[on[t]]
    BY DEF cacheVars
  <2> QED
    BY ReaderKeeps DEF CacheNext
<1> QED
  BY <1>1, CacheInvariant, PTL DEF CacheSpec, ReadersUndisturbed
=============================================================================
