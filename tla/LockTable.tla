------------------------------ MODULE LockTable ------------------------------
(***************************************************************************)
(* The locks and open files of a volume: what the actions of cDosHandler   *)
(* (source/shared/dos_handler.cpp) do to _locks and _opens of the objects, *)
(* to _fileList and to _lockCount.  The worker runs one action at a time,  *)
(* so an action is one step.                                               *)
(*                                                                         *)
(* Names and folders are left out: where an action looks up a name, any    *)
(* object may be what it finds.  An action that only reports an error is a *)
(* stuttering step and does not appear.                                    *)
(***************************************************************************)
EXTENDS Naturals, Sequences, FiniteSets

CONSTANTS
  Object,  \* addresses of cDosFile objects
  Root,    \* the address of _root, which is not in _fileList
  Lock,    \* addresses malloc() can return for a FileLock; bounds the locks
  Handle,  \* addresses of cFileOpen objects; bounds the open files
  Remote   \* the objects the cloud's listing gives, with their kinds

ASSUME RootAssumption == Root \in Object
ASSUME RemoteAssumption ==
  Remote \in [DOMAIN Remote -> {"folder", "exact", "document", "empty"}]
    /\ DOMAIN Remote \subseteq Object \ {Root}
ASSUME FiniteAssumption == IsFiniteSet(Lock)

(* An exact file has a size; a document has none but can be exported; an   *)
(* empty file has neither, as has one whose upload has not been committed. *)
(* Bound: the address of an object deleted with locks on it is not used    *)
(* for another, which bounds `lost'.                                       *)
Kind == {"folder", "exact", "document", "empty", "unused", "freed"}

VARIABLES
  kind,      \* _folder, _fileSize and _exportURLs of the objects
  locks,     \* cDosFile::_locks: lock and fl_Access, oldest first
  opens,     \* cDosFile::_opens: handle, _openMode and _lock, oldest first
  lockCount, \* _lockCount
  lent,      \* locks in the hands of clients
  stale,     \* addresses of locks freed with their object, clients holding on
  leaked,    \* locks the handler made and gave to nobody
  lost,      \* number of locks that were freed with their object
  crashed    \* the worker followed a null pointer

vars == <<kind, locks, opens, lockCount, lent, stale, leaked, lost, crashed>>

LockRecord == [lock : Lock, mode : {"read", "write"}]
OpenRecord == [handle : Handle, mode : {"download", "export", "upload"}, lock : Lock]

Elements(seq) == {seq[i] : i \in DOMAIN seq}
LocksOf(o) == {r.lock : r \in Elements(locks[o])}
LiveLocks == UNION {LocksOf(o) : o \in Object}
OpenFiles == UNION {Elements(opens[o]) : o \in Object}
OpenHandles == {r.handle : r \in OpenFiles}
Existing == {o \in Object : kind[o] \notin {"unused", "freed"}}

TypeOK ==
  /\ kind \in [Object -> Kind]
  /\ locks \in [Object -> Seq(LockRecord)]
  /\ opens \in [Object -> Seq(OpenRecord)]
  /\ lockCount \in Nat /\ lost \in Nat
  /\ lent \subseteq Lock /\ stale \subseteq Lock /\ leaked \subseteq Lock
  /\ crashed \in BOOLEAN

Init ==
  /\ kind = [o \in Object |-> IF o = Root THEN "folder"
                              ELSE IF o \in DOMAIN Remote THEN Remote[o] ELSE "unused"]
  /\ locks = [o \in Object |-> <<>>]
  /\ opens = [o \in Object |-> <<>>]
  /\ lockCount = 0 /\ lost = 0
  /\ lent = {} /\ stale = {} /\ leaked = {}
  /\ crashed = FALSE

-----------------------------------------------------------------------------
(***************************************************************************)
(* __lockObject: only a write lock is ever refused, and only when the last *)
(* lock is a write lock.  malloc() hands out any address that is free, one *)
(* that a client still takes for its lock included.                        *)
(***************************************************************************)
FreeLocks == Lock \ LiveLocks

Grants(o, mode) ==
  ~(mode = "write" /\ locks[o] # <<>> /\ locks[o][Len(locks[o])].mode = "write")

CountReads(o, l, mode) ==                                    \* mutant of AddLock
  /\ locks' = [locks EXCEPT ![o] = Append(@, [lock |-> l, mode |-> mode])]
  /\ lockCount' = IF mode = "read" THEN lockCount + 1 ELSE lockCount
AddLock(o, l, mode) ==
  /\ locks' = [locks EXCEPT ![o] = Append(@, [lock |-> l, mode |-> mode])]
  /\ lockCount' = lockCount + 1

EraseAt(seq, i) == SubSeq(seq, 1, i - 1) \o SubSeq(seq, i + 1, Len(seq))
IndexOf(o, l) == CHOOSE i \in DOMAIN locks[o] : locks[o][i].lock = l

(* cDosFile::unlock with __decLockCount, as __unlock joins them.           *)
KeepCount(o, l) ==                                           \* mutant of Unlock
  /\ locks' = [locks EXCEPT ![o] = EraseAt(@, IndexOf(o, l))]
  /\ UNCHANGED lockCount
UnlockOldest(o, l) ==                                        \* mutant of Unlock
  /\ locks' = [locks EXCEPT ![o] = Tail(@)]
  /\ lockCount' = lockCount - 1
CountTwice(o, l) ==                                          \* mutant of Unlock
  /\ locks' = [locks EXCEPT ![o] = EraseAt(@, IndexOf(o, l))]
  /\ lockCount' = lockCount - 2
Unlock(o, l) ==
  IF l \in LocksOf(o)
    THEN /\ locks' = [locks EXCEPT ![o] = EraseAt(@, IndexOf(o, l))]
         /\ lockCount' = lockCount - 1
    ELSE UNCHANGED <<locks, lockCount>>

AddOpen(o, mode, l) ==
  \E h \in Handle \ OpenHandles :
    opens' = [opens EXCEPT ![o] = Append(@, [handle |-> h, mode |-> mode, lock |-> l])]

-----------------------------------------------------------------------------
(***************************************************************************)
(* Actions on locks.  A client names a lock it was given, or what has      *)
(* since been made at the address of one that was freed under it: fl_Key   *)
(* there leads to the object of the new lock.  An address with no lock at  *)
(* it is read as freed memory, which is undefined and not followed.        *)
(***************************************************************************)
Named(o) == (lent \cup stale) \cap LocksOf(o)

LendNewLock(o, mode) ==
  /\ Grants(o, mode)
  /\ \E l \in FreeLocks : AddLock(o, l, mode) /\ lent' = lent \cup {l}
  /\ UNCHANGED <<kind, opens, stale, leaked, lost, crashed>>

(* __lock                                                                  *)
Locate(o, mode) == o \in Existing /\ LendNewLock(o, mode)

(* __unlock                                                                *)
FreeLock(o, l) ==
  /\ l \in Named(o)
  /\ Unlock(o, l)
  /\ lent' = lent \ {l} /\ leaked' = leaked \ {l}
  /\ UNCHANGED <<kind, opens, stale, lost, crashed>>

(* __duplock                                                               *)
DupLock(o, l) ==
  l \in Named(o) /\ LendNewLock(o, "read")

(* __parent: a lock on some folder, none for the root.                     *)
Parent(o, l, p) ==
  /\ l \in Named(o) /\ o # Root
  /\ kind[p] = "folder"
  /\ LendNewLock(p, "read")

(* __createdir: __createObject locks the new object for writing.  If the   *)
(* cloud refuses, object and lock stay behind.                             *)
CreateDir(o, success) ==
  /\ kind[o] = "unused"
  /\ \E l \in FreeLocks :
       /\ AddLock(o, l, "write")
       /\ IF success THEN lent' = lent \cup {l} /\ UNCHANGED leaked
                     ELSE leaked' = leaked \cup {l} /\ UNCHANGED lent
  /\ kind' = [kind EXCEPT ![o] = "folder"]
  /\ UNCHANGED <<opens, stale, lost, crashed>>

(* __deleteObject, after updateFile trashed the object: the destructor     *)
(* frees its locks and handles without counting them.  A folder must be    *)
(* empty, which any folder may be here.                                    *)
Delete(o) ==
  /\ o \in Existing \ {Root}
  /\ kind' = [kind EXCEPT ![o] = IF locks[o] = <<>> THEN "unused" ELSE "freed"]
  /\ locks' = [locks EXCEPT ![o] = <<>>]
  /\ opens' = [opens EXCEPT ![o] = <<>>]
  /\ lost' = lost + Len(locks[o])
  /\ stale' = stale \cup (lent \cap LocksOf(o))
  /\ lent' = lent \ LocksOf(o) /\ leaked' = leaked \ LocksOf(o)
  /\ UNCHANGED <<lockCount, crashed>>

-----------------------------------------------------------------------------
(***************************************************************************)
(* Actions on open files.  A handle finds its file by fl_Key of its lock,  *)
(* which is another object's once a client has freed the lock by a stale   *)
(* address and the next lock was made there; between the two it is freed   *)
(* memory, and not followed.                                               *)
(***************************************************************************)
LedTo(o) == \E r \in OpenFiles : r.lock \in LocksOf(o)

(* One export or upload at a time.                                         *)
OpenAnyTime(o) == kind[o] \in {"exact", "document", "empty"}  \* mutant of MayOpen
MayOpen(o) ==
  /\ kind[o] \in {"exact", "document"}
  /\ opens[o] # <<>> => opens[o][1].mode = "download"

(* __open with MODE_OLDFILE                                                *)
OpenOld(o) ==
  /\ MayOpen(o)
  /\ \E l \in FreeLocks :
       /\ AddLock(o, l, "read")
       /\ AddOpen(o, IF kind[o] = "exact" THEN "download" ELSE "export", l)
  /\ UNCHANGED <<kind, lent, stale, leaked, lost, crashed>>

(* __open with MODE_NEWFILE: the handle takes the write lock of            *)
(* __createObject ...                                                      *)
OpenNew(o) ==
  /\ kind[o] = "unused"
  /\ \E l \in FreeLocks : AddLock(o, l, "write") /\ AddOpen(o, "upload", l)
  /\ kind' = [kind EXCEPT ![o] = "empty"]
  /\ UNCHANGED <<lent, stale, leaked, lost, crashed>>

(* ... which is NULL when the folder cannot be listed, and is followed.    *)
OpenNewFails ==
  /\ crashed' = TRUE
  /\ UNCHANGED <<kind, locks, opens, lockCount, lent, stale, leaked, lost>>

(* __openFromLock: the handle takes over the client's lock.                *)
LockStaysLent(l) == lent                                     \* mutant of LockMoves
LockMoves(l) == lent \ {l}
OpenFromLock(o, l) ==
  /\ l \in Named(o)
  /\ MayOpen(o)
  /\ AddOpen(o, "download", l)
  /\ lent' = LockMoves(l)
  /\ UNCHANGED <<kind, locks, lockCount, stale, leaked, lost, crashed>>

(* __close: the final part of an upload gives the file its size, or leaves *)
(* it empty; its failure is not reported.  A file that the lock no longer  *)
(* leads to keeps the handle.                                              *)
Committed(p) ==
  IF kind[p] = "folder" THEN {"folder"}
  ELSE {"exact", IF kind[p] = "document" THEN "document" ELSE "empty"}
Close(o, i, p) ==
  LET r == opens[o][i]
  IN /\ r.lock \in LocksOf(p)
     /\ IF r.mode = "upload"
          THEN \E k \in Committed(p) : kind' = [kind EXCEPT ![p] = k]
          ELSE UNCHANGED kind
     /\ Unlock(p, r.lock)
     /\ lent' = lent \ {r.lock} /\ leaked' = leaked \ {r.lock}
     /\ opens' = IF p = o THEN [opens EXCEPT ![o] = EraseAt(@, i)] ELSE opens
     /\ UNCHANGED <<stale, lost, crashed>>

(* __duplockFromFH                                                         *)
DupLockFromFH(o) == LedTo(o) /\ LendNewLock(o, "read")

(* __parentFH: the folder, or the file itself when no object has the id of *)
(* its parent, as for a file of the root.  A file that is not yet in the   *)
(* cloud has no id and passes for that root.                               *)
ParentFH(o, p) ==
  /\ LedTo(o)
  /\ (o # Root /\ p # Root /\ kind[p] \in {"folder", "empty"}) \/ p = o
  /\ LendNewLock(p, "read")

-----------------------------------------------------------------------------
LockActions ==
  \E o \in Object :
    \/ \E mode \in {"read", "write"} : Locate(o, mode)
    \/ \E l \in Lock : FreeLock(o, l) \/ DupLock(o, l)
    \/ \E l \in Lock, p \in Object : Parent(o, l, p)
    \/ \E success \in BOOLEAN : CreateDir(o, success)
    \/ Delete(o)

OpenActions ==
  \E o \in Object :
    \/ OpenOld(o) \/ OpenNew(o)
    \/ \E l \in Lock : OpenFromLock(o, l)
    \/ \E i \in DOMAIN opens[o], p \in Object : Close(o, i, p)
    \/ DupLockFromFH(o)
    \/ \E p \in Object : ParentFH(o, p)

Next ==
  /\ ~crashed
  /\ LockActions \/ OpenActions \/ OpenNewFails

Spec == Init /\ [][Next]_vars

-----------------------------------------------------------------------------
(***************************************************************************)
(* Properties.                                                             *)
(***************************************************************************)

(* The volume's lock count is the number of locks that exist, plus those   *)
(* that went with a deleted object and can never be counted down again     *)
(* (__incLockCount, __decLockCount, __deleteObject).                       *)
LocksAccounted == lockCount = Cardinality(LiveLocks) + lost

(* Every lock has one holder: a client, one open file, or nobody when a    *)
(* folder could not be made in the cloud.  Freeing it is the holder's to   *)
(* do, so none is freed twice (__openFromLock, __close, __createdir).  The *)
(* exception are addresses of locks freed with their object under a client *)
(* (__deleteObject): nobody else's locks are touched by what those do.     *)
HandleLocks == {r.lock : r \in OpenFiles}
OneHolder ==
  /\ LiveLocks \subseteq lent \cup HandleLocks \cup leaked \cup stale
  /\ lent \cap HandleLocks \subseteq stale
  /\ (lent \cup HandleLocks) \cap leaked \subseteq stale
  /\ \A o, p \in Object : o # p => LocksOf(o) \cap LocksOf(p) = {}
  /\ \A r, q \in OpenFiles : r.lock = q.lock => r = q \/ r.lock \in stale

(* The lock an open file reads fl_Key from is a lock on that very file, as *)
(* long as no client goes on with a lock that was freed at that address    *)
(* (cFileOpen::_lock, used by every action on a handle).                   *)
HandleKeepsLock ==
  \A o \in Object : \A r \in Elements(opens[o]) : r.lock \in LocksOf(o) \cup stale

(* With a lock count of zero the handler shuts down and frees all objects: *)
(* then no client has a lock to come back with, not even a freed one, and  *)
(* no file is open (__isShutdownPossible, ttDie).                          *)
ShutdownIsSafe ==
  lockCount = 0 => lent \cup stale = {} /\ \A o \in Object : opens[o] = <<>>

(* A file being uploaded has no other open file, so nothing reads the      *)
(* chunks or the size that the upload changes (__open, __openFromLock).    *)
UploadAlone ==
  \A o \in Object :
    (\E r \in Elements(opens[o]) : r.mode = "upload") => Len(opens[o]) = 1

(* The comment at __lockObject's declaration: "returns NULL if the file is *)
(* exclusively locked".                                                    *)
ExclusiveLockRefuses ==
  [][\A o \in Object :
       (\E r \in Elements(locks[o]) : r.mode = "write")
         => Len(locks'[o]) <= Len(locks[o])]_vars
=============================================================================
