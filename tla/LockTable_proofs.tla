-------------------------- MODULE LockTable_proofs --------------------------
(***************************************************************************)
(* Proofs about LockTable, for any objects, locks and handles.             *)
(***************************************************************************)
EXTENDS LockTable, SequenceTheorems, FunctionTheorems, FiniteSetTheorems, TLAPS

Once(seq) == \A i, j \in DOMAIN seq : seq[i].lock = seq[j].lock => i = j

(* A lock stands in one place, and is counted there.                       *)
LocksInv ==
  /\ \A o \in Object : Once(locks[o])
  /\ \A o, p \in Object : o # p => LocksOf(o) \cap LocksOf(p) = {}
  /\ LocksAccounted

OnceOpen(seq) == \A i, j \in DOMAIN seq : seq[i].handle = seq[j].handle => i = j

(* An open file stands in one place, with a lock on that file, which it    *)
(* shares with no other unless the lock was freed under somebody.          *)
OpensInv ==
  /\ HandleKeepsLock
  /\ \A o \in Object : OnceOpen(opens[o])
  /\ \A o, p \in Object : \A r \in Elements(opens[o]), q \in Elements(opens[p]) :
       r.handle = q.handle => o = p /\ r = q
  /\ \A r, q \in OpenFiles : r.lock = q.lock => r = q \/ r.lock \in stale

(* A lock has one holder; an address freed under a client counts as lost.  *)
HoldersInv ==
  /\ LiveLocks \subseteq lent \cup HandleLocks \cup leaked \cup stale
  /\ lent \cap HandleLocks \subseteq stale /\ (lent \cup HandleLocks) \cap leaked \subseteq stale
  /\ lent \subseteq LiveLocks /\ leaked \subseteq LiveLocks
  /\ stale # {} => lost # 0

(* An upload begins on an object that nobody has open.                     *)
UploadsInv ==
  /\ \A o \in Object : kind[o] = "unused" => opens[o] = <<>>
  /\ UploadAlone

IInv == TypeOK /\ LocksInv /\ OpensInv /\ HoldersInv /\ UploadsInv

-----------------------------------------------------------------------------
(***************************************************************************)
(* Sequences.                                                              *)
(***************************************************************************)
LEMMA AppendElements ==
  ASSUME NEW S, NEW s \in Seq(S), NEW e \in S
  PROVE  /\ Append(s, e) \in Seq(S)
         /\ Len(Append(s, e)) = Len(s) + 1
         /\ \A i \in 1..Len(s) : Append(s, e)[i] = s[i]
         /\ Append(s, e)[Len(s) + 1] = e
         /\ Elements(Append(s, e)) = Elements(s) \cup {e}
<1>1. /\ Append(s, e) \in Seq(S)
      /\ Len(Append(s, e)) = Len(s) + 1
      /\ \A i \in 1..Len(s) : Append(s, e)[i] = s[i]
      /\ Append(s, e)[Len(s) + 1] = e
  BY AppendProperties
<1>2. Len(s) \in Nat /\ DOMAIN s = 1..Len(s) /\ DOMAIN Append(s, e) = 1..(Len(s) + 1)
  BY <1>1, LenProperties
<1>3. Elements(Append(s, e)) = Elements(s) \cup {e}
  <2> HIDE DEF Elements
  <2>1. ASSUME NEW x \in Elements(Append(s, e)) PROVE x \in Elements(s) \cup {e}
    <3>1. PICK i \in 1..(Len(s) + 1) : x = Append(s, e)[i]
      BY <1>2, <2>1 DEF Elements
    <3>2. i \in 1..Len(s) \/ i = Len(s) + 1
      BY <1>2
    <3> QED
      BY <1>1, <1>2, <3>1, <3>2 DEF Elements
  <2>2. ASSUME NEW x \in Elements(s) PROVE x \in Elements(Append(s, e))
    <3>1. PICK i \in 1..Len(s) : x = s[i]
      BY <1>2, <2>2 DEF Elements
    <3>2. i \in 1..(Len(s) + 1)
      BY <1>2
    <3> QED
      BY <1>1, <1>2, <3>1, <3>2 DEF Elements
  <2>3. e \in Elements(Append(s, e))
    <3>1. Len(s) + 1 \in 1..(Len(s) + 1)
      BY <1>2
    <3> QED
      BY <1>1, <1>2, <3>1 DEF Elements
  <2> QED
    BY <2>1, <2>2, <2>3
<1> QED
  BY <1>1, <1>3

LEMMA EraseElements ==
  ASSUME NEW S, NEW s \in Seq(S), NEW i \in DOMAIN s
  PROVE  /\ EraseAt(s, i) \in Seq(S)
         /\ Len(EraseAt(s, i)) = Len(s) - 1
         /\ \A j \in 1..(Len(s) - 1) : EraseAt(s, i)[j] = IF j < i THEN s[j] ELSE s[j + 1]
         /\ Elements(EraseAt(s, i)) = {s[j] : j \in (DOMAIN s) \ {i}}
<1> DEFINE a == SubSeq(s, 1, i - 1)
           b == SubSeq(s, i + 1, Len(s))
<1>1. Len(s) \in Nat /\ DOMAIN s = 1..Len(s) /\ i \in 1..Len(s) /\ s \in [1..Len(s) -> S]
  BY LenProperties
<1>2. a \in Seq(S) /\ Len(a) = i - 1 /\ \A j \in 1..(i - 1) : a[j] = s[j]
  <2>1. \A j \in 1..(i - 1) : s[j] \in S
    BY <1>1
  <2> QED
    BY <1>1, <2>1, SubSeqProperties
<1>3. b \in Seq(S) /\ Len(b) = Len(s) - i /\ \A j \in 1..(Len(s) - i) : b[j] = s[i + j]
  <2>1. \A j \in (i + 1)..Len(s) : s[j] \in S
    BY <1>1
  <2>2. /\ b \in Seq(S)
        /\ Len(b) = IF i + 1 <= Len(s) THEN Len(s) - (i + 1) + 1 ELSE 0
        /\ \A j \in 1..(Len(s) - (i + 1) + 1) : b[j] = s[(i + 1) + j - 1]
    BY <1>1, <2>1, SubSeqProperties
  <2> QED
    BY <1>1, <2>2
<1> HIDE DEF a, b
<1>4. /\ a \o b \in Seq(S)
      /\ Len(a \o b) = Len(s) - 1
      /\ \A j \in 1..(Len(s) - 1) : (a \o b)[j] = IF j < i THEN s[j] ELSE s[j + 1]
  <2>1. /\ a \o b \in Seq(S)
        /\ Len(a \o b) = Len(a) + Len(b)
        /\ \A j \in 1..(Len(a) + Len(b)) : (a \o b)[j] = IF j <= Len(a) THEN a[j] ELSE b[j - Len(a)]
    BY <1>2, <1>3, ConcatProperties
  <2>2. Len(a) + Len(b) = Len(s) - 1
    BY <1>1, <1>2, <1>3
  <2>3. ASSUME NEW j \in 1..(Len(s) - 1) PROVE (a \o b)[j] = IF j < i THEN s[j] ELSE s[j + 1]
    <3>1. CASE j < i
      <4>1. j \in 1..(i - 1) /\ j <= Len(a)
        BY <1>1, <1>2, <3>1
      <4> QED
        BY <1>2, <2>1, <2>2, <3>1, <4>1
    <3>2. CASE ~(j < i)
      <4>1. j - (i - 1) \in 1..(Len(s) - i) /\ ~(j <= i - 1) /\ i + (j - (i - 1)) = j + 1
        BY <1>1, <3>2
      <4>2. (a \o b)[j] = b[j - (i - 1)]
        BY <1>2, <2>1, <2>2, <4>1
      <4>3. b[j - (i - 1)] = s[i + (j - (i - 1))]
        BY <1>3, <4>1
      <4> QED
        BY <3>2, <4>1, <4>2, <4>3
    <3> QED
      BY <3>1, <3>2
  <2> QED
    BY <2>1, <2>2, <2>3
<1>5. EraseAt(s, i) = a \o b
  BY DEF EraseAt, a, b
<1>6. DOMAIN EraseAt(s, i) = 1..(Len(s) - 1)
  BY <1>4, <1>5, LenProperties
<1>7. Elements(EraseAt(s, i)) = {s[j] : j \in (DOMAIN s) \ {i}}
  <2>1. ASSUME NEW x \in Elements(EraseAt(s, i)) PROVE \E j \in (DOMAIN s) \ {i} : x = s[j]
    <3>1. PICK k \in 1..(Len(s) - 1) : x = EraseAt(s, i)[k]
      BY <1>6, <2>1 DEF Elements
    <3>2. CASE k < i
      <4>1. k \in (DOMAIN s) \ {i} /\ x = s[k]
        BY <1>1, <1>4, <1>5, <3>1, <3>2
      <4> QED
        BY <4>1
    <3>3. CASE ~(k < i)
      <4>1. k + 1 \in (DOMAIN s) \ {i} /\ x = s[k + 1]
        BY <1>1, <1>4, <1>5, <3>1, <3>3
      <4> QED
        BY <4>1
    <3> QED
      BY <3>2, <3>3
  <2>2. ASSUME NEW j \in (DOMAIN s) \ {i} PROVE s[j] \in Elements(EraseAt(s, i))
    <3>1. CASE j < i
      <4>1. j \in 1..(Len(s) - 1)
        BY <1>1, <3>1
      <4>2. EraseAt(s, i)[j] = s[j]
        BY <1>4, <1>5, <3>1, <4>1
      <4> QED
        BY <1>6, <4>1, <4>2 DEF Elements
    <3>2. CASE j > i
      <4>1. j - 1 \in 1..(Len(s) - 1) /\ EraseAt(s, i)[j - 1] = s[j]
        BY <1>1, <1>4, <1>5, <3>2
      <4> QED
        BY <1>6, <4>1 DEF Elements
    <3> QED
      BY <1>1, <3>1, <3>2
  <2> QED
    BY <2>1, <2>2
<1> QED
  BY <1>4, <1>5, <1>7

LEMMA OnceAppended ==
  ASSUME NEW S, NEW s \in Seq(S), NEW e \in S, Once(s),
         \A r \in Elements(s) : r.lock # e.lock
  PROVE  Once(Append(s, e))
<1>1. Len(s) \in Nat /\ DOMAIN s = 1..Len(s) /\ DOMAIN Append(s, e) = 1..(Len(s) + 1)
        /\ Len(s) + 1 \notin 1..Len(s)
  BY AppendElements, LenProperties
<1>2. \A i \in 1..(Len(s) + 1) : i \in 1..Len(s) \/ i = Len(s) + 1
  BY <1>1
<1>3. \A i \in 1..Len(s) : Append(s, e)[i] = s[i] /\ s[i].lock # e.lock
  BY <1>1, AppendElements DEF Elements
<1>4. Append(s, e)[Len(s) + 1] = e
  BY AppendElements
<1> QED
  BY <1>1, <1>2, <1>3, <1>4 DEF Once

LEMMA OnceErased ==
  ASSUME NEW S, NEW s \in Seq(S), NEW i \in DOMAIN s, Once(s)
  PROVE  /\ Once(EraseAt(s, i))
         /\ \A r \in Elements(EraseAt(s, i)) : r \in Elements(s) /\ r.lock # s[i].lock
         /\ \A r \in Elements(s) : r \in Elements(EraseAt(s, i)) \/ r = s[i]
<1>1. Len(s) \in Nat /\ DOMAIN s = 1..Len(s) /\ DOMAIN EraseAt(s, i) = 1..(Len(s) - 1)
  BY EraseElements, LenProperties
<1>2. \A j \in 1..(Len(s) - 1) : EraseAt(s, i)[j] = IF j < i THEN s[j] ELSE s[j + 1]
  BY EraseElements
<1>3. Once(EraseAt(s, i))
  <2> SUFFICES ASSUME NEW j \in 1..(Len(s) - 1), NEW k \in 1..(Len(s) - 1),
                      EraseAt(s, i)[j].lock = EraseAt(s, i)[k].lock
               PROVE  j = k
    BY <1>1 DEF Once
  <2>1. j \in DOMAIN s /\ j + 1 \in DOMAIN s /\ k \in DOMAIN s /\ k + 1 \in DOMAIN s
    BY <1>1
  <2>2. s[IF j < i THEN j ELSE j + 1].lock = s[IF k < i THEN k ELSE k + 1].lock
    BY <1>2
  <2>3. (IF j < i THEN j ELSE j + 1) = (IF k < i THEN k ELSE k + 1)
    BY <2>1, <2>2 DEF Once
  <2> QED
    BY <1>1, <2>3
<1>4. Elements(EraseAt(s, i)) = {s[j] : j \in (DOMAIN s) \ {i}}
  BY EraseElements
<1> QED
  BY <1>3, <1>4 DEF Once, Elements

(* The same of handles.                                                    *)
LEMMA OpenAppendedOnce ==
  ASSUME NEW S, NEW s \in Seq(S), NEW e \in S, OnceOpen(s),
         \A r \in Elements(s) : r.handle # e.handle
  PROVE  OnceOpen(Append(s, e))
<1>1. Len(s) \in Nat /\ DOMAIN s = 1..Len(s) /\ DOMAIN Append(s, e) = 1..(Len(s) + 1)
        /\ Len(s) + 1 \notin 1..Len(s)
  BY AppendElements, LenProperties
<1>2. \A i \in 1..(Len(s) + 1) : i \in 1..Len(s) \/ i = Len(s) + 1
  BY <1>1
<1>3. \A i \in 1..Len(s) : Append(s, e)[i] = s[i] /\ s[i].handle # e.handle
  BY <1>1, AppendElements DEF Elements
<1>4. Append(s, e)[Len(s) + 1] = e
  BY AppendElements
<1> QED
  BY <1>1, <1>2, <1>3, <1>4 DEF OnceOpen

LEMMA OpenErasedOnce ==
  ASSUME NEW S, NEW s \in Seq(S), NEW i \in DOMAIN s, OnceOpen(s)
  PROVE  /\ OnceOpen(EraseAt(s, i))
         /\ \A r \in Elements(EraseAt(s, i)) : r \in Elements(s) /\ r.handle # s[i].handle
         /\ \A r \in Elements(s) : r \in Elements(EraseAt(s, i)) \/ r = s[i]
<1>1. Len(s) \in Nat /\ DOMAIN s = 1..Len(s) /\ DOMAIN EraseAt(s, i) = 1..(Len(s) - 1)
  BY EraseElements, LenProperties
<1>2. \A j \in 1..(Len(s) - 1) : EraseAt(s, i)[j] = IF j < i THEN s[j] ELSE s[j + 1]
  BY EraseElements
<1>3. OnceOpen(EraseAt(s, i))
  <2> SUFFICES ASSUME NEW j \in 1..(Len(s) - 1), NEW k \in 1..(Len(s) - 1),
                      EraseAt(s, i)[j].handle = EraseAt(s, i)[k].handle
               PROVE  j = k
    BY <1>1 DEF OnceOpen
  <2>1. j \in DOMAIN s /\ j + 1 \in DOMAIN s /\ k \in DOMAIN s /\ k + 1 \in DOMAIN s
    BY <1>1
  <2>2. s[IF j < i THEN j ELSE j + 1].handle = s[IF k < i THEN k ELSE k + 1].handle
    BY <1>2
  <2>3. (IF j < i THEN j ELSE j + 1) = (IF k < i THEN k ELSE k + 1)
    BY <2>1, <2>2 DEF OnceOpen
  <2> QED
    BY <1>1, <2>3
<1>4. Elements(EraseAt(s, i)) = {s[j] : j \in (DOMAIN s) \ {i}}
  BY EraseElements
<1> QED
  BY <1>3, <1>4 DEF OnceOpen, Elements
-----------------------------------------------------------------------------
(***************************************************************************)
(* What the parts of an action do to the sets of locks.                    *)
(***************************************************************************)
LEMMA Finite == TypeOK => /\ LiveLocks \subseteq Lock /\ IsFiniteSet(LiveLocks)
                          /\ Cardinality(LiveLocks) \in Nat
                          /\ \A o \in Object : LocksOf(o) \subseteq LiveLocks
<1> SUFFICES ASSUME TypeOK PROVE /\ LiveLocks \subseteq Lock /\ IsFiniteSet(LiveLocks)
                                 /\ Cardinality(LiveLocks) \in Nat
                                 /\ \A o \in Object : LocksOf(o) \subseteq LiveLocks
  OBVIOUS
<1>1. ASSUME NEW o \in Object PROVE LocksOf(o) \subseteq Lock
  <2>1. locks[o] \in Seq(LockRecord)
    BY DEF TypeOK
  <2>2. \A i \in DOMAIN locks[o] : locks[o][i] \in LockRecord
    BY <2>1, LenProperties
  <2> QED
    BY <2>2 DEF LocksOf, Elements, LockRecord
<1>2. LiveLocks \subseteq Lock
  BY <1>1 DEF LiveLocks
<1> QED
  BY <1>2, FiniteAssumption, FS_Subset, FS_CardinalityType DEF LiveLocks

LEMMA LockAdded ==
  ASSUME TypeOK, LocksInv, lost' = lost,
         NEW o \in Object, NEW l \in FreeLocks, NEW mode \in {"read", "write"}, AddLock(o, l, mode)
  PROVE  /\ locks' \in [Object -> Seq(LockRecord)] /\ lockCount' \in Nat
         /\ LocksInv'
         /\ l \notin LiveLocks /\ l \in Lock /\ LiveLocks' = LiveLocks \cup {l}
         /\ \A p \in Object : LocksOf(p)' = IF p = o THEN LocksOf(o) \cup {l} ELSE LocksOf(p)
<1> DEFINE r == [lock |-> l, mode |-> mode]
<1>1. r \in LockRecord /\ r.lock = l /\ l \notin LiveLocks /\ l \in Lock
  BY DEF LockRecord, FreeLocks
<1>2. /\ locks \in [Object -> Seq(LockRecord)]
      /\ locks' = [locks EXCEPT ![o] = Append(@, r)] /\ lockCount' = lockCount + 1
      /\ lockCount \in Nat /\ lost \in Nat
  BY DEF TypeOK, AddLock
<1> HIDE DEF r
<1>3. Append(locks[o], r) \in Seq(LockRecord)
        /\ Elements(Append(locks[o], r)) = Elements(locks[o]) \cup {r}
  BY <1>1, <1>2, AppendElements
<1>4. locks' \in [Object -> Seq(LockRecord)] /\ lockCount' \in Nat
  BY <1>2, <1>3
<1>5. ASSUME NEW p \in Object
      PROVE  LocksOf(p)' = IF p = o THEN LocksOf(o) \cup {l} ELSE LocksOf(p)
  <2>1. CASE p = o
    <3>1. locks'[p] = Append(locks[o], r)
      BY <1>2, <2>1
    <3> QED
      BY <1>1, <1>3, <2>1, <3>1 DEF LocksOf
  <2>2. CASE p # o
    BY <1>2, <2>2 DEF LocksOf
  <2> QED
    BY <2>1, <2>2
<1>6. LiveLocks' = LiveLocks \cup {l}
  BY <1>5 DEF LiveLocks
<1>7. \A p \in Object : l \notin LocksOf(p)
  BY <1>1, Finite
<1>8. \A p \in Object : Once(locks'[p])
  <2>1. \A q \in Elements(locks[o]) : q.lock # r.lock
    BY <1>1, <1>7 DEF LocksOf
  <2>2. Once(Append(locks[o], r))
    BY <1>1, <1>2, <2>1, OnceAppended DEF LocksInv
  <2> QED
    BY <1>2, <2>2 DEF LocksInv
<1>9. \A p, q \in Object : p # q => LocksOf(p)' \cap LocksOf(q)' = {}
  BY <1>5, <1>7 DEF LocksInv
<1>10. LocksAccounted'
  <2>1. Cardinality(LiveLocks \cup {l}) = Cardinality(LiveLocks) + 1 /\ Cardinality(LiveLocks) \in Nat
    BY <1>1, Finite, FS_AddElement
  <2> QED
    BY <1>2, <1>6, <2>1 DEF LocksInv, LocksAccounted
<1> QED
  BY <1>1, <1>4, <1>5, <1>6, <1>8, <1>9, <1>10 DEF LocksInv

LEMMA LockDropped ==
  ASSUME TypeOK, LocksInv, lost' = lost,
         NEW o \in Object, NEW l \in LocksOf(o), Unlock(o, l)
  PROVE  /\ locks' \in [Object -> Seq(LockRecord)] /\ lockCount' \in Nat
         /\ LocksInv'
         /\ LiveLocks' = LiveLocks \ {l}
         /\ \A p \in Object : LocksOf(p)' = LocksOf(p) \ {l}
<1> DEFINE i == IndexOf(o, l)
<1>1. /\ locks \in [Object -> Seq(LockRecord)]
      /\ locks' = [locks EXCEPT ![o] = EraseAt(@, i)] /\ lockCount' = lockCount - 1
      /\ lockCount \in Nat /\ lost \in Nat
  BY DEF TypeOK, Unlock
<1>2. i \in DOMAIN locks[o] /\ locks[o][i].lock = l
  <2>1. \E k \in DOMAIN locks[o] : locks[o][k].lock = l
    BY DEF LocksOf, Elements
  <2> QED
    BY <2>1 DEF IndexOf
<1> HIDE DEF i
<1>3. /\ EraseAt(locks[o], i) \in Seq(LockRecord)
      /\ Once(EraseAt(locks[o], i))
      /\ \A r \in Elements(EraseAt(locks[o], i)) : r \in Elements(locks[o]) /\ r.lock # l
      /\ \A r \in Elements(locks[o]) : r \in Elements(EraseAt(locks[o], i)) \/ r = locks[o][i]
  BY <1>1, <1>2, EraseElements, OnceErased DEF LocksInv
<1>4. locks' \in [Object -> Seq(LockRecord)]
  BY <1>1, <1>3
<1>5. ASSUME NEW p \in Object PROVE LocksOf(p)' = LocksOf(p) \ {l}
  <2>1. CASE p = o
    <3>1. locks'[p] = EraseAt(locks[o], i)
      BY <1>1, <2>1
    <3> QED
      BY <1>2, <1>3, <2>1, <3>1 DEF LocksOf
  <2>2. CASE p # o
    <3>1. l \notin LocksOf(p)
      BY <2>2 DEF LocksInv
    <3> QED
      BY <1>1, <2>2, <3>1 DEF LocksOf
  <2> QED
    BY <2>1, <2>2
<1>6. LiveLocks' = LiveLocks \ {l}
  BY <1>5 DEF LiveLocks
<1>7. \A p \in Object : Once(locks'[p])
  BY <1>1, <1>3 DEF LocksInv
<1>8. LocksAccounted' /\ lockCount' \in Nat
  <2>1. l \in LiveLocks
    BY Finite
  <2>2. /\ Cardinality(LiveLocks \ {l}) = Cardinality(LiveLocks) - 1
        /\ Cardinality(LiveLocks \ {l}) \in Nat /\ Cardinality(LiveLocks) \in Nat
    BY <2>1, Finite, FS_RemoveElement, FS_CardinalityType
  <2> QED
    BY <1>1, <1>6, <2>2 DEF LocksInv, LocksAccounted
<1>9. \A p, q \in Object : p # q => LocksOf(p)' \cap LocksOf(q)' = {}
  BY <1>5 DEF LocksInv
<1> QED
  BY <1>4, <1>5, <1>6, <1>7, <1>8, <1>9 DEF LocksInv

LEMMA OpenAdded ==
  ASSUME TypeOK, OpensInv, stale' = stale,
         NEW o \in Object, NEW mode \in {"download", "export", "upload"}, NEW l \in Lock,
         l \in HandleLocks => l \in stale, AddOpen(o, mode, l), l \in LocksOf(o)',
         \A p \in Object : LocksOf(p) \subseteq LocksOf(p)'
  PROVE  /\ opens' \in [Object -> Seq(OpenRecord)]
         /\ OpensInv'
         /\ HandleLocks' = HandleLocks \cup {l}
<1>1. PICK h \in Handle \ OpenHandles :
        opens' = [opens EXCEPT ![o] = Append(@, [handle |-> h, mode |-> mode, lock |-> l])]
  BY DEF AddOpen
<1> DEFINE r == [handle |-> h, mode |-> mode, lock |-> l]
<1>2. r \in OpenRecord /\ r.lock = l /\ r.handle = h
  BY DEF OpenRecord
<1>3. opens \in [Object -> Seq(OpenRecord)] /\ opens' = [opens EXCEPT ![o] = Append(@, r)]
  BY <1>1 DEF TypeOK
<1> HIDE DEF r
<1>4. /\ Append(opens[o], r) \in Seq(OpenRecord)
      /\ Elements(Append(opens[o], r)) = Elements(opens[o]) \cup {r}
  BY <1>2, <1>3, AppendElements
<1>5. opens' \in [Object -> Seq(OpenRecord)]
  BY <1>3, <1>4
<1>6. \A p \in Object : Elements(opens'[p]) = IF p = o THEN Elements(opens[o]) \cup {r} ELSE Elements(opens[p])
  BY <1>3, <1>4
<1>7. OpenFiles' = OpenFiles \cup {r}
  BY <1>6 DEF OpenFiles
<1>8. HandleLocks' = HandleLocks \cup {l}
  BY <1>2, <1>7 DEF HandleLocks
<1>9. HandleKeepsLock'
  BY <1>2, <1>6 DEF OpensInv, HandleKeepsLock
<1>a. \A q \in OpenFiles : q.handle # r.handle
  BY <1>2 DEF OpenHandles
<1>10. \A p \in Object : OnceOpen(opens'[p])
  <2>1. \A q \in Elements(opens[o]) : q.handle # r.handle
    BY <1>a DEF OpenFiles
  <2>2. OnceOpen(Append(opens[o], r))
    BY <1>2, <1>3, <2>1, OpenAppendedOnce DEF OpensInv
  <2> QED
    BY <1>3, <2>2 DEF OpensInv
<1>11. \A p, t \in Object : \A q \in Elements(opens'[p]), s \in Elements(opens'[t]) :
         q.handle = s.handle => p = t /\ q = s
  BY <1>6, <1>a DEF OpensInv, OpenFiles
<1>12. \A q, s \in OpenFiles' : q.lock = s.lock => q = s \/ q.lock \in stale'
  <2>1. \A q \in OpenFiles : q.lock \in HandleLocks
    BY DEF HandleLocks
  <2> QED
    BY <1>2, <1>7, <2>1 DEF OpensInv
<1> QED
  BY <1>5, <1>8, <1>9, <1>10, <1>11, <1>12 DEF OpensInv

(* Closing a file drops its lock, which only files with a stale one share. *)
LEMMA OpenErased ==
  ASSUME TypeOK, LocksInv, OpensInv, stale' = stale,
         NEW o \in Object, NEW i \in DOMAIN opens[o],
         NEW p \in Object, opens[o][i].lock \in LocksOf(p),
         opens' = IF p = o THEN [opens EXCEPT ![o] = EraseAt(@, i)] ELSE opens,
         \A q \in Object : LocksOf(q)' = LocksOf(q) \ {opens[o][i].lock}
  PROVE  /\ opens' \in [Object -> Seq(OpenRecord)]
         /\ OpensInv'
         /\ HandleLocks' \subseteq HandleLocks
         /\ HandleLocks \subseteq HandleLocks' \cup {opens[o][i].lock}
         /\ opens[o][i].lock \in HandleLocks' => opens[o][i].lock \in stale
<1> DEFINE e == opens[o][i]
           l == e.lock
<1>1. /\ opens \in [Object -> Seq(OpenRecord)] /\ e \in Elements(opens[o]) /\ e \in OpenFiles
      /\ l = e.lock
  BY DEF TypeOK, Elements, OpenFiles
<1>2. /\ EraseAt(opens[o], i) \in Seq(OpenRecord)
      /\ OnceOpen(EraseAt(opens[o], i))
      /\ \A r \in Elements(EraseAt(opens[o], i)) : r \in Elements(opens[o]) /\ r.handle # e.handle
      /\ \A r \in Elements(opens[o]) : r \in Elements(EraseAt(opens[o], i)) \/ r = e
  BY <1>1, EraseElements, OpenErasedOnce DEF OpensInv
<1> HIDE DEF e, l
<1>0. l = opens[o][i].lock
  BY DEF e, l
<1>3. /\ opens' \in [Object -> Seq(OpenRecord)] /\ \A q \in Object : OnceOpen(opens'[q])
      /\ \A q \in Object : q # o => opens'[q] = opens[q]
      /\ opens'[o] = IF p = o THEN EraseAt(opens[o], i) ELSE opens[o]
  BY <1>1, <1>2 DEF OpensInv
<1>4. ASSUME NEW q \in Object, NEW r \in Elements(opens'[q])
      PROVE  r \in Elements(opens[q]) /\ (p = o => r.handle # e.handle)
  <2>1. CASE q = o
    BY <1>2, <1>3, <1>4, <2>1 DEF OpensInv
  <2>2. CASE q # o
    <3>1. r \in Elements(opens[q])
      BY <1>3, <1>4, <2>2
    <3> QED
      BY <1>1, <2>2, <3>1 DEF OpensInv
  <2> QED
    BY <2>1, <2>2
<1>5. ASSUME NEW q \in Object, NEW r \in Elements(opens[q]), r.lock # l
      PROVE  r \in Elements(opens'[q])
  BY <1>1, <1>2, <1>3, <1>5
<1>6. \A r \in OpenFiles' : r \in OpenFiles /\ (p = o => r # e)
  BY <1>4 DEF OpenFiles
<1>7. \A r \in OpenFiles : r.lock # l => r \in OpenFiles'
  BY <1>5 DEF OpenFiles
<1>8. ASSUME NEW r \in OpenFiles', r.lock = l PROVE l \in stale
  <2>1. p # o => l \in stale
    BY <1>0, <1>1 DEF OpensInv, HandleKeepsLock, LocksInv
  <2>2. p = o => l \in stale
    BY <1>1, <1>6, <1>8 DEF OpensInv
  <2> QED
    BY <2>1, <2>2
<1>9. /\ HandleLocks' \subseteq HandleLocks /\ HandleLocks \subseteq HandleLocks' \cup {l}
      /\ l \in HandleLocks' => l \in stale
  BY <1>6, <1>7, <1>8 DEF HandleLocks
<1>10. HandleKeepsLock'
  <2> SUFFICES ASSUME NEW q \in Object, NEW r \in Elements(opens'[q])
               PROVE  r.lock \in LocksOf(q)' \cup stale
    BY DEF HandleKeepsLock
  <2>1. r \in OpenFiles' /\ r.lock \in LocksOf(q) \cup stale
    BY <1>4 DEF OpensInv, HandleKeepsLock, OpenFiles
  <2> QED
    BY <1>0, <1>8, <2>1
<1>11. \A q, t \in Object : \A r \in Elements(opens'[q]), s \in Elements(opens'[t]) :
         r.handle = s.handle => q = t /\ r = s
  BY <1>4 DEF OpensInv
<1>12. \A r, s \in OpenFiles' : r.lock = s.lock => r = s \/ r.lock \in stale'
  BY <1>6 DEF OpensInv
<1> QED
  BY <1>0, <1>3, <1>9, <1>10, <1>11, <1>12 DEF OpensInv

LEMMA OnceCounted ==
  ASSUME NEW S, NEW s \in Seq(S), Once(s)
  PROVE  LET L == {r.lock : r \in Elements(s)}
         IN  IsFiniteSet(L) /\ Cardinality(L) = Len(s)
<1> DEFINE L == {r.lock : r \in Elements(s)}
           F == [i \in 1..Len(s) |-> s[i].lock]
<1>1. Len(s) \in Nat /\ DOMAIN s = 1..Len(s)
  BY LenProperties
<1>2. F \in [1..Len(s) -> L]
  BY <1>1 DEF Elements
<1>3. \A i, j \in 1..Len(s) : F[i] = F[j] => i = j
  BY <1>1 DEF Once
<1>4. \A l \in L : \E i \in 1..Len(s) : F[i] = l
  BY <1>1 DEF Elements
<1> HIDE DEF L, F
<1>5. F \in Bijection(1..Len(s), L)
  BY <1>2, <1>3, <1>4, Fun_IsBij
<1>6. ExistsBijection(1..Len(s), L)
  BY <1>5, Fun_ExistsBij
<1>7. IsFiniteSet(1..Len(s)) /\ Cardinality(1..Len(s)) = Len(s)
  BY <1>1, FS_Interval
<1> QED
  BY <1>6, <1>7, FS_Bijection DEF L

LEMMA ObjectDeleted ==
  ASSUME TypeOK, LocksInv, OpensInv, NEW o \in Object,
         locks' = [locks EXCEPT ![o] = <<>>], opens' = [opens EXCEPT ![o] = <<>>],
         lost' = lost + Len(locks[o]), lockCount' = lockCount,
         stale' = stale \cup (lent \cap LocksOf(o))
  PROVE  /\ locks' \in [Object -> Seq(LockRecord)] /\ opens' \in [Object -> Seq(OpenRecord)]
         /\ lockCount' \in Nat /\ lost' \in Nat
         /\ LocksInv' /\ OpensInv'
         /\ LiveLocks' = LiveLocks \ LocksOf(o)
         /\ HandleLocks' \subseteq HandleLocks
         /\ \A l \in HandleLocks \ LocksOf(o) : l \in HandleLocks' \/ l \in stale
         /\ \A l \in HandleLocks' \cap LocksOf(o) : l \in stale
         /\ stale' # stale => lost' # 0
<1>1. /\ locks \in [Object -> Seq(LockRecord)] /\ opens \in [Object -> Seq(OpenRecord)]
      /\ lockCount \in Nat /\ lost \in Nat
  BY DEF TypeOK
<1>2. Len(locks[o]) \in Nat
  BY <1>1, LenProperties
<1>3. locks' \in [Object -> Seq(LockRecord)] /\ opens' \in [Object -> Seq(OpenRecord)]
  <2>1. <<>> \in Seq(LockRecord) /\ <<>> \in Seq(OpenRecord)
    BY EmptySeq
  <2> QED
    BY <1>1, <2>1
<1>4. Elements(<<>>) = {} /\ Once(<<>>)
  BY DEF Elements, Once
<1>5. \A p \in Object : LocksOf(p)' = IF p = o THEN {} ELSE LocksOf(p)
  BY <1>1, <1>4 DEF LocksOf
<1>6. LiveLocks' = LiveLocks \ LocksOf(o)
  BY <1>5 DEF LiveLocks, LocksInv
<1>7. LocksAccounted'
  <2>1. IsFiniteSet(LiveLocks) /\ LocksOf(o) \subseteq LiveLocks /\ Cardinality(LiveLocks) \in Nat
    BY Finite
  <2>2. Cardinality(LocksOf(o)) = Len(locks[o])
    BY <1>1, OnceCounted DEF LocksInv, LocksOf
  <2>3. LiveLocks \cap LocksOf(o) = LocksOf(o)
    BY <2>1
  <2>4. Cardinality(LiveLocks \ LocksOf(o)) = Cardinality(LiveLocks) - Len(locks[o])
    <3>1. ASSUME NEW S, NEW T, IsFiniteSet(S), S \cap T = T
          PROVE  Cardinality(S \ T) = Cardinality(S) - Cardinality(T)
      <4>1. Cardinality(S \ T) = Cardinality(S) - Cardinality(S \cap T)
        BY <3>1, FS_Difference, Zenon
      <4> QED
        BY <3>1, <4>1, Zenon
    <3>2. Cardinality(LiveLocks \ LocksOf(o)) = Cardinality(LiveLocks) - Cardinality(LocksOf(o))
      BY <2>1, <2>3, <3>1, Zenon
    <3> QED
      BY <2>2, <3>2, Zenon
  <2>5. lockCount = Cardinality(LiveLocks) + lost
    BY DEF LocksInv, LocksAccounted
  <2>6. lockCount' = Cardinality(LiveLocks') + lost'
    BY <1>1, <1>2, <1>6, <2>1, <2>4, <2>5
  <2> QED
    BY <2>6 DEF LocksAccounted
<1>8. LocksInv'
  <2>1. \A p \in Object : Once(locks'[p])
    BY <1>1, <1>4 DEF LocksInv
  <2>2. \A p, q \in Object : p # q => LocksOf(p)' \cap LocksOf(q)' = {}
    BY <1>5 DEF LocksInv
  <2> QED
    BY <1>7, <2>1, <2>2 DEF LocksInv
<1>9. \A p \in Object : Elements(opens'[p]) = IF p = o THEN {} ELSE Elements(opens[p])
  BY <1>1, <1>4
<1>10. \A q \in Object : \A r \in Elements(opens'[q]) : q # o /\ r \in Elements(opens[q])
  BY <1>9
<1>11. /\ HandleLocks' \subseteq HandleLocks
       /\ \A l \in HandleLocks \ LocksOf(o) : l \in HandleLocks' \/ l \in stale
       /\ \A l \in HandleLocks' \cap LocksOf(o) : l \in stale
  <2>1. OpenFiles' \subseteq OpenFiles
    BY <1>10 DEF OpenFiles
  <2>2. ASSUME NEW l \in HandleLocks \ LocksOf(o), l \notin stale PROVE l \in HandleLocks'
    <3>1. PICK q \in Object : \E r \in Elements(opens[q]) : r.lock = l
      BY DEF HandleLocks, OpenFiles
    <3>2. PICK r \in Elements(opens[q]) : r.lock = l
      BY <3>1
    <3>3. q # o
      BY <2>2, <3>2 DEF OpensInv, HandleKeepsLock
    <3>4. r \in Elements(opens'[q])
      BY <1>9, <3>3
    <3> QED
      BY <3>2, <3>4 DEF HandleLocks, OpenFiles
  <2>3. ASSUME NEW l \in HandleLocks' \cap LocksOf(o) PROVE l \in stale
    <3>1. PICK q \in Object : \E r \in Elements(opens'[q]) : r.lock = l
      BY DEF HandleLocks, OpenFiles
    <3>2. PICK r \in Elements(opens'[q]) : r.lock = l
      BY <3>1
    <3>3. q # o /\ l \in LocksOf(q) \cup stale
      BY <1>10, <3>2 DEF OpensInv, HandleKeepsLock
    <3> QED
      BY <3>3 DEF LocksInv
  <2> QED
    BY <2>1, <2>2, <2>3 DEF HandleLocks
<1>12. OpensInv'
  <2>1. HandleKeepsLock'
    <3> SUFFICES ASSUME NEW q \in Object, NEW r \in Elements(opens'[q])
                 PROVE  r.lock \in LocksOf(q)' \cup stale'
      BY DEF HandleKeepsLock
    <3>1. q # o /\ r.lock \in LocksOf(q) \cup stale
      BY <1>10 DEF OpensInv, HandleKeepsLock
    <3> QED
      BY <1>5, <3>1
  <2>2. \A p \in Object : OnceOpen(opens'[p])
    BY <1>1, <1>4 DEF OpensInv, OnceOpen
  <2>3. \A p, t \in Object : \A r \in Elements(opens'[p]), q \in Elements(opens'[t]) :
          r.handle = q.handle => p = t /\ r = q
    BY <1>10 DEF OpensInv
  <2>4. \A r, q \in OpenFiles' : r.lock = q.lock => r = q \/ r.lock \in stale'
    BY <1>10 DEF OpensInv, OpenFiles
  <2> QED
    BY <2>1, <2>2, <2>3, <2>4 DEF OpensInv
<1>13. stale' # stale => lost' # 0
  <2>1. Len(locks[o]) = 0 => LocksOf(o) = {}
    <3>1. DOMAIN locks[o] = 1..Len(locks[o])
      BY <1>1, LenProperties
    <3> QED
      BY <3>1 DEF LocksOf, Elements
  <2> QED
    BY <1>1, <1>2, <2>1
<1> QED
  BY <1>1, <1>2, <1>3, <1>6, <1>8, <1>11, <1>12, <1>13
-----------------------------------------------------------------------------
(***************************************************************************)
(* The invariant is kept by every action.                                  *)
(***************************************************************************)
LEMMA HandleLocksLive == TypeOK /\ OpensInv => HandleLocks \subseteq LiveLocks \cup stale
BY DEF HandleLocks, OpenFiles, OpensInv, HandleKeepsLock, LiveLocks

LEMMA UnchangedOpens ==
  ASSUME OpensInv, UNCHANGED <<opens, stale>>, \A o \in Object : LocksOf(o) \subseteq LocksOf(o)'
  PROVE  OpensInv' /\ HandleLocks' = HandleLocks
<1>1. HandleKeepsLock'
  BY DEF OpensInv, HandleKeepsLock
<1> QED
  BY <1>1 DEF OpensInv, HandleLocks, OpenFiles

LEMMA DownloadAdded ==
  ASSUME TypeOK, UploadsInv, NEW o \in Object, NEW mode, NEW l, mode # "upload",
         MayOpen(o), AddOpen(o, mode, l), kind' = kind
  PROVE  UploadsInv'
<1>1. PICK h \in Handle :
        opens' = [opens EXCEPT ![o] = Append(@, [handle |-> h, mode |-> mode, lock |-> l])]
  BY DEF AddOpen
<1> DEFINE r == [handle |-> h, mode |-> mode, lock |-> l]
<1>2. /\ opens \in [Object -> Seq(OpenRecord)] /\ opens' = [opens EXCEPT ![o] = Append(@, r)]
      /\ r.mode # "upload" /\ kind[o] # "unused"
      /\ opens[o] # <<>> => opens[o][1].mode = "download"
  BY <1>1 DEF TypeOK, MayOpen
<1> HIDE DEF r
<1>3. ASSUME NEW q \in Elements(opens[o]) PROVE q.mode # "upload"
  <2>1. Len(opens[o]) \in Nat /\ DOMAIN opens[o] = 1..Len(opens[o])
    BY <1>2, LenProperties
  <2>2. PICK i \in 1..Len(opens[o]) : q = opens[o][i]
    BY <1>3, <2>1 DEF Elements
  <2>3. opens[o] # <<>>
    BY <2>1, <2>2
  <2>4. SUFFICES ASSUME q.mode = "upload" PROVE FALSE
    OBVIOUS
  <2>5. Len(opens[o]) = 1
    BY <2>4 DEF UploadsInv, UploadAlone
  <2>6. i = 1
    BY <2>2, <2>5
  <2> QED
    BY <1>2, <2>2, <2>3, <2>4, <2>6
<1>4. Elements(Append(opens[o], r)) \subseteq Elements(opens[o]) \cup {r}
  <2> DEFINE s == opens[o]
  <2>1. s \in Seq(OpenRecord \cup {r}) /\ r \in OpenRecord \cup {r}
    BY <1>2
  <2> HIDE DEF s
  <2>2. Elements(Append(s, r)) = Elements(s) \cup {r}
    BY <2>1, AppendElements
  <2> QED
    BY <2>2 DEF s
<1>5. \A q \in Elements(opens'[o]) : q.mode # "upload"
  BY <1>2, <1>3, <1>4
<1> QED
  BY <1>2, <1>5 DEF UploadsInv, UploadAlone

LEMMA LendStep ==
  ASSUME IInv, NEW o \in Object, NEW mode \in {"read", "write"}, LendNewLock(o, mode)
  PROVE  IInv'
<1>1. PICK l \in FreeLocks : AddLock(o, l, mode) /\ lent' = lent \cup {l}
  BY DEF LendNewLock
<1>2. UNCHANGED <<kind, opens, stale, leaked, lost, crashed>>
  BY DEF LendNewLock
<1>3. /\ locks' \in [Object -> Seq(LockRecord)] /\ lockCount' \in Nat
      /\ LocksInv'
      /\ l \notin LiveLocks /\ l \in Lock /\ LiveLocks' = LiveLocks \cup {l}
      /\ \A p \in Object : LocksOf(p)' = IF p = o THEN LocksOf(o) \cup {l} ELSE LocksOf(p)
  BY <1>1, <1>2, LockAdded DEF IInv
<1>4. OpensInv' /\ HandleLocks' = HandleLocks /\ HandleLocks \subseteq LiveLocks \cup stale
  BY <1>2, <1>3, UnchangedOpens, HandleLocksLive DEF IInv
<1>5. TypeOK'
  BY <1>1, <1>2, <1>3 DEF IInv, TypeOK, FreeLocks
<1>6. HoldersInv'
  BY <1>1, <1>2, <1>3, <1>4 DEF IInv, HoldersInv
<1>7. UploadsInv'
  BY <1>2 DEF IInv, UploadsInv, UploadAlone
<1> QED
  BY <1>3, <1>4, <1>5, <1>6, <1>7 DEF IInv

LEMMA FreeLockStep ==
  ASSUME IInv, NEW o \in Object, NEW l \in Lock, FreeLock(o, l)
  PROVE  IInv'
<1>1. /\ l \in lent \cup stale /\ l \in LocksOf(o) /\ Unlock(o, l)
      /\ lent' = lent \ {l} /\ leaked' = leaked \ {l}
      /\ UNCHANGED <<kind, opens, stale, lost, crashed>>
  BY DEF FreeLock, Named
<1>2. /\ locks' \in [Object -> Seq(LockRecord)] /\ lockCount' \in Nat
      /\ LocksInv'
      /\ LiveLocks' = LiveLocks \ {l}
      /\ \A p \in Object : LocksOf(p)' = LocksOf(p) \ {l}
  BY <1>1, LockDropped DEF IInv
<1>3. l \in HandleLocks => l \in stale
  BY <1>1 DEF IInv, HoldersInv
<1>4. OpensInv' /\ HandleLocks' = HandleLocks
  <2>1. HandleKeepsLock'
    <3> SUFFICES ASSUME NEW p \in Object, NEW r \in Elements(opens[p])
                 PROVE  r.lock \in LocksOf(p)' \cup stale
      BY <1>1 DEF HandleKeepsLock
    <3>1. r.lock \in LocksOf(p) \cup stale /\ r.lock \in HandleLocks
      BY DEF IInv, OpensInv, HandleKeepsLock, HandleLocks, OpenFiles
    <3> QED
      BY <1>2, <1>3, <3>1
  <2> QED
    BY <1>1, <2>1 DEF IInv, OpensInv, HandleLocks, OpenFiles
<1>5. TypeOK'
  BY <1>1, <1>2 DEF IInv, TypeOK
<1>6. HoldersInv'
  BY <1>1, <1>2, <1>3, <1>4 DEF IInv, HoldersInv
<1>7. UploadsInv'
  BY <1>1 DEF IInv, UploadsInv, UploadAlone
<1> QED
  BY <1>2, <1>4, <1>5, <1>6, <1>7 DEF IInv

LEMMA CreateDirStep ==
  ASSUME IInv, NEW o \in Object, NEW success \in BOOLEAN, CreateDir(o, success)
  PROVE  IInv'
<1>1. PICK l \in FreeLocks :
        /\ AddLock(o, l, "write")
        /\ IF success THEN lent' = lent \cup {l} /\ UNCHANGED leaked
                      ELSE leaked' = leaked \cup {l} /\ UNCHANGED lent
  BY DEF CreateDir
<1>2. kind' = [kind EXCEPT ![o] = "folder"] /\ UNCHANGED <<opens, stale, lost, crashed>>
  BY DEF CreateDir
<1>3. /\ locks' \in [Object -> Seq(LockRecord)] /\ lockCount' \in Nat
      /\ LocksInv'
      /\ l \notin LiveLocks /\ l \in Lock /\ LiveLocks' = LiveLocks \cup {l}
      /\ \A p \in Object : LocksOf(p)' = IF p = o THEN LocksOf(o) \cup {l} ELSE LocksOf(p)
  BY <1>1, <1>2, LockAdded DEF IInv
<1>4. OpensInv' /\ HandleLocks' = HandleLocks /\ HandleLocks \subseteq LiveLocks \cup stale
  BY <1>2, <1>3, UnchangedOpens, HandleLocksLive DEF IInv
<1>5. TypeOK'
  <2>1. kind' \in [Object -> Kind] /\ l \in Lock
    BY <1>2 DEF IInv, TypeOK, Kind, FreeLocks
  <2>2. lent' \subseteq Lock /\ leaked' \subseteq Lock
    BY <1>1, <2>1 DEF IInv, TypeOK
  <2> QED
    BY <1>2, <1>3, <2>1, <2>2 DEF IInv, TypeOK
<1>6. HoldersInv'
  <2>1. CASE success
    BY <1>1, <1>2, <1>3, <1>4, <2>1 DEF IInv, HoldersInv
  <2>2. CASE ~success
    BY <1>1, <1>2, <1>3, <1>4, <2>2 DEF IInv, HoldersInv
  <2> QED
    BY <2>1, <2>2
<1>7. UploadsInv'
  BY <1>2 DEF IInv, UploadsInv, UploadAlone, TypeOK
<1> QED
  BY <1>3, <1>4, <1>5, <1>6, <1>7 DEF IInv

LEMMA DeleteStep ==
  ASSUME IInv, NEW o \in Object, Delete(o)
  PROVE  IInv'
<1>1. /\ locks' \in [Object -> Seq(LockRecord)] /\ opens' \in [Object -> Seq(OpenRecord)]
      /\ lockCount' \in Nat /\ lost' \in Nat
      /\ LocksInv' /\ OpensInv'
      /\ LiveLocks' = LiveLocks \ LocksOf(o)
      /\ HandleLocks' \subseteq HandleLocks
      /\ \A l \in HandleLocks \ LocksOf(o) : l \in HandleLocks' \/ l \in stale
      /\ \A l \in HandleLocks' \cap LocksOf(o) : l \in stale
      /\ stale' # stale => lost' # 0
  BY ObjectDeleted DEF IInv, Delete
<1>2. /\ stale' = stale \cup (lent \cap LocksOf(o))
      /\ lent' = lent \ LocksOf(o) /\ leaked' = leaked \ LocksOf(o) /\ UNCHANGED crashed
      /\ kind' = [kind EXCEPT ![o] = IF locks[o] = <<>> THEN "unused" ELSE "freed"]
      /\ opens' = [opens EXCEPT ![o] = <<>>]
      /\ lost' = lost + Len(locks[o])
  BY DEF Delete
<1>3. TypeOK'
  <2>1. kind' \in [Object -> Kind]
    BY <1>2 DEF IInv, TypeOK, Kind
  <2> QED
    BY <1>1, <1>2, <2>1 DEF IInv, TypeOK
<1>4. HoldersInv'
  <2>1. lost' = 0 => lost = 0 /\ stale' = stale
    <3>1. Len(locks[o]) \in Nat /\ lost \in Nat
      BY LenProperties DEF IInv, TypeOK
    <3>2. lost' = 0 => lost = 0
      BY <1>2, <3>1
    <3> QED
      BY <1>1, <3>2
  <2>2. /\ LiveLocks' \subseteq lent' \cup HandleLocks' \cup leaked' \cup stale'
        /\ lent' \cap HandleLocks' \subseteq stale'
        /\ (lent' \cup HandleLocks') \cap leaked' \subseteq stale'
        /\ lent' \subseteq LiveLocks' /\ leaked' \subseteq LiveLocks'
    BY <1>1, <1>2 DEF IInv, HoldersInv
  <2> QED
    BY <2>1, <2>2 DEF IInv, HoldersInv
<1>5. UploadsInv'
  <2>1. opens \in [Object -> Seq(OpenRecord)] /\ kind \in [Object -> Kind] /\ Elements(<<>>) = {}
    BY DEF IInv, TypeOK, Elements
  <2>2. \A p \in Object : kind'[p] = "unused" => opens'[p] = <<>>
    BY <1>2, <2>1 DEF IInv, UploadsInv
  <2>3. UploadAlone'
    BY <1>2, <2>1 DEF IInv, UploadsInv, UploadAlone
  <2> QED
    BY <2>2, <2>3 DEF UploadsInv
<1> QED
  BY <1>1, <1>3, <1>4, <1>5 DEF IInv

LEMMA OpenOldStep ==
  ASSUME IInv, NEW o \in Object, OpenOld(o)
  PROVE  IInv'
<1> DEFINE mode == IF kind[o] = "exact" THEN "download" ELSE "export"
<1>1. PICK l \in FreeLocks : AddLock(o, l, "read") /\ AddOpen(o, mode, l)
  BY DEF OpenOld
<1>2. MayOpen(o) /\ UNCHANGED <<kind, lent, stale, leaked, lost, crashed>>
  BY DEF OpenOld
<1>3. mode \in {"download", "export", "upload"} /\ mode # "upload"
  OBVIOUS
<1> HIDE DEF mode
<1>4. /\ locks' \in [Object -> Seq(LockRecord)] /\ lockCount' \in Nat
      /\ LocksInv'
      /\ l \notin LiveLocks /\ l \in Lock /\ LiveLocks' = LiveLocks \cup {l}
      /\ \A p \in Object : LocksOf(p)' = IF p = o THEN LocksOf(o) \cup {l} ELSE LocksOf(p)
  BY <1>1, <1>2, LockAdded DEF IInv
<1>5. HandleLocks \subseteq LiveLocks \cup stale
  BY HandleLocksLive DEF IInv
<1>6. /\ opens' \in [Object -> Seq(OpenRecord)] /\ OpensInv'
      /\ HandleLocks' = HandleLocks \cup {l}
  BY <1>1, <1>2, <1>3, <1>4, <1>5, OpenAdded DEF IInv
<1>7. TypeOK'
  BY <1>2, <1>4, <1>6 DEF IInv, TypeOK
<1>8. HoldersInv'
  BY <1>2, <1>4, <1>5, <1>6 DEF IInv, HoldersInv
<1>9. UploadsInv'
  BY <1>1, <1>2, <1>3, DownloadAdded DEF IInv
<1> QED
  BY <1>4, <1>6, <1>7, <1>8, <1>9 DEF IInv

LEMMA OpenFromLockStep ==
  ASSUME IInv, NEW o \in Object, NEW l \in Lock, OpenFromLock(o, l)
  PROVE  IInv'
<1>1. /\ l \in lent \cup stale /\ l \in LocksOf(o) /\ MayOpen(o) /\ AddOpen(o, "download", l)
      /\ lent' = lent \ {l}
      /\ UNCHANGED <<kind, locks, lockCount, stale, leaked, lost, crashed>>
  BY DEF OpenFromLock, LockMoves, Named
<1>2. /\ locks' \in [Object -> Seq(LockRecord)] /\ lockCount' \in Nat
      /\ LocksInv' /\ LiveLocks' = LiveLocks
      /\ \A p \in Object : LocksOf(p)' = LocksOf(p)
  BY <1>1 DEF IInv, TypeOK, LocksInv, LocksAccounted, LiveLocks, LocksOf
<1>3. (l \in HandleLocks => l \in stale) /\ (l \in leaked => l \in stale)
  BY <1>1 DEF IInv, HoldersInv
<1>4. /\ opens' \in [Object -> Seq(OpenRecord)] /\ OpensInv'
      /\ HandleLocks' = HandleLocks \cup {l}
  BY <1>1, <1>2, <1>3, OpenAdded DEF IInv
<1>5. TypeOK'
  BY <1>1, <1>2, <1>4 DEF IInv, TypeOK
<1>6. HoldersInv'
  BY <1>1, <1>2, <1>3, <1>4 DEF IInv, HoldersInv
<1>7. UploadsInv'
  BY <1>1, DownloadAdded DEF IInv
<1> QED
  BY <1>2, <1>4, <1>5, <1>6, <1>7 DEF IInv

LEMMA OpenNewStep ==
  ASSUME IInv, NEW o \in Object, OpenNew(o)
  PROVE  IInv'
<1>1. PICK l \in FreeLocks : AddLock(o, l, "write") /\ AddOpen(o, "upload", l)
  BY DEF OpenNew
<1>2. /\ kind[o] = "unused" /\ kind' = [kind EXCEPT ![o] = "empty"]
      /\ UNCHANGED <<lent, stale, leaked, lost, crashed>>
  BY DEF OpenNew
<1>3. /\ locks' \in [Object -> Seq(LockRecord)] /\ lockCount' \in Nat
      /\ LocksInv'
      /\ l \notin LiveLocks /\ l \in Lock /\ LiveLocks' = LiveLocks \cup {l}
      /\ \A p \in Object : LocksOf(p)' = IF p = o THEN LocksOf(o) \cup {l} ELSE LocksOf(p)
  BY <1>1, <1>2, LockAdded DEF IInv
<1>4. HandleLocks \subseteq LiveLocks \cup stale
  BY HandleLocksLive DEF IInv
<1>5. /\ opens' \in [Object -> Seq(OpenRecord)] /\ OpensInv'
      /\ HandleLocks' = HandleLocks \cup {l}
  BY <1>1, <1>2, <1>3, <1>4, OpenAdded DEF IInv
<1>6. TypeOK'
  <2>1. kind' \in [Object -> Kind]
    BY <1>2 DEF IInv, TypeOK, Kind
  <2> QED
    BY <1>2, <1>3, <1>5, <2>1 DEF IInv, TypeOK
<1>7. HoldersInv'
  BY <1>2, <1>3, <1>4, <1>5 DEF IInv, HoldersInv
<1>8. UploadsInv'
  <2>1. opens[o] = <<>> /\ kind \in [Object -> Kind] /\ opens \in [Object -> Seq(OpenRecord)]
    BY <1>2 DEF IInv, TypeOK, UploadsInv
  <2>2. PICK h \in Handle :
          opens' = [opens EXCEPT ![o] = Append(@, [handle |-> h, mode |-> "upload", lock |-> l])]
    BY <1>1 DEF AddOpen
  <2>3. Len(Append(<<>>, [handle |-> h, mode |-> "upload", lock |-> l])) = 1
    OBVIOUS
  <2>4. \A p \in Object : kind'[p] = "unused" => opens'[p] = <<>>
    BY <1>2, <2>1, <2>2 DEF IInv, UploadsInv
  <2>5. UploadAlone'
    BY <2>1, <2>2, <2>3 DEF IInv, UploadsInv, UploadAlone
  <2> QED
    BY <2>4, <2>5 DEF UploadsInv
<1> QED
  BY <1>3, <1>5, <1>6, <1>7, <1>8 DEF IInv

LEMMA CloseStep ==
  ASSUME IInv, NEW o \in Object, NEW i \in DOMAIN opens[o], NEW p \in Object, Close(o, i, p)
  PROVE  IInv'
<1> DEFINE l == opens[o][i].lock
<1>1. /\ l \in LocksOf(p) /\ Unlock(p, l)
      /\ kind' = kind \/ \E k \in Committed(p) : kind' = [kind EXCEPT ![p] = k]
      /\ lent' = lent \ {l} /\ leaked' = leaked \ {l}
      /\ opens' = IF p = o THEN [opens EXCEPT ![o] = EraseAt(@, i)] ELSE opens
      /\ UNCHANGED <<stale, lost, crashed>>
  BY DEF Close
<1>2. Committed(p) \subseteq Kind \ {"unused"}
  BY DEF Committed, Kind
<1>l. l = opens[o][i].lock
  OBVIOUS
<1> HIDE DEF l
<1>3. /\ locks' \in [Object -> Seq(LockRecord)] /\ lockCount' \in Nat
      /\ LocksInv'
      /\ LiveLocks' = LiveLocks \ {l}
      /\ \A q \in Object : LocksOf(q)' = LocksOf(q) \ {l}
  BY <1>1, LockDropped DEF IInv
<1>4. /\ opens' \in [Object -> Seq(OpenRecord)] /\ OpensInv'
      /\ HandleLocks' \subseteq HandleLocks /\ HandleLocks \subseteq HandleLocks' \cup {l}
      /\ l \in HandleLocks' => l \in stale
  <2>1. TypeOK /\ LocksInv /\ OpensInv /\ stale' = stale /\ l \in LocksOf(p)
    BY <1>1 DEF IInv
  <2>2. opens' = IF p = o THEN [opens EXCEPT ![o] = EraseAt(@, i)] ELSE opens
    BY <1>1
  <2> QED
    BY <1>3, <2>1, <2>2, OpenErased DEF l
<1>5. TypeOK'
  <2>1. kind' \in [Object -> Kind]
    BY <1>1, <1>2 DEF IInv, TypeOK
  <2> QED
    BY <1>1, <1>3, <1>4, <2>1 DEF IInv, TypeOK
<1>6. HoldersInv'
  BY <1>1, <1>3, <1>4 DEF IInv, HoldersInv
<1>7. UploadsInv'
  <2>1. opens \in [Object -> Seq(OpenRecord)] /\ kind \in [Object -> Kind]
    BY DEF IInv, TypeOK
  <2>2. /\ opens[o] # <<>>
        /\ Len(EraseAt(opens[o], i)) = Len(opens[o]) - 1
        /\ Elements(EraseAt(opens[o], i)) \subseteq Elements(opens[o])
        /\ DOMAIN EraseAt(opens[o], i) = 1..(Len(opens[o]) - 1)
        /\ Len(opens[o]) \in Nat
    <3>1. EraseAt(opens[o], i) \in Seq(OpenRecord) /\ Len(EraseAt(opens[o], i)) = Len(opens[o]) - 1
            /\ Elements(EraseAt(opens[o], i)) = {opens[o][j] : j \in (DOMAIN opens[o]) \ {i}}
      BY <2>1, EraseElements
    <3>2. DOMAIN EraseAt(opens[o], i) = 1..(Len(opens[o]) - 1)
      BY <3>1, LenProperties
    <3>3. Len(opens[o]) \in Nat /\ DOMAIN opens[o] = 1..Len(opens[o])
      BY <2>1, LenProperties
    <3>4. opens[o] # <<>>
      BY <3>3
    <3>5. Elements(EraseAt(opens[o], i)) \subseteq Elements(opens[o])
      BY <3>1 DEF Elements
    <3> QED
      BY <3>1, <3>2, <3>3, <3>4, <3>5
  <2>3. ASSUME NEW q \in Object, kind'[q] = "unused" PROVE opens'[q] = <<>>
    <3>1. kind[q] = "unused"
      BY <1>1, <1>2, <2>1, <2>3
    <3>2. opens[q] = <<>>
      BY <3>1 DEF IInv, UploadsInv
    <3> QED
      BY <1>1, <2>1, <2>2, <3>2
  <2>4. ASSUME NEW q \in Object, NEW r \in Elements(opens'[q]), r.mode = "upload"
        PROVE  Len(opens'[q]) = 1
    <3>1. CASE q = o /\ p = o
      <4>1. opens'[q] = EraseAt(opens[o], i)
        BY <1>1, <2>1, <3>1
      <4>2. Len(opens[o]) = 1
        BY <2>2, <2>4, <4>1 DEF IInv, UploadsInv, UploadAlone
      <4>3. DOMAIN EraseAt(opens[o], i) = {}
        BY <2>2, <4>2
      <4> QED
        BY <2>4, <4>1, <4>3 DEF Elements
    <3>2. CASE ~(q = o /\ p = o)
      <4>1. opens'[q] = opens[q]
        BY <1>1, <2>1, <3>2
      <4> QED
        BY <2>4, <4>1 DEF IInv, UploadsInv, UploadAlone
    <3> QED
      BY <3>1, <3>2
  <2> QED
    BY <2>3, <2>4 DEF UploadsInv, UploadAlone
<1> QED
  BY <1>3, <1>4, <1>5, <1>6, <1>7 DEF IInv
-----------------------------------------------------------------------------
(***************************************************************************)
(* Theorems.                                                               *)
(***************************************************************************)
LEMMA InitInv == Init => IInv
<1> SUFFICES ASSUME Init PROVE IInv
  OBVIOUS
<1>1. Elements(<<>>) = {} /\ Once(<<>>) /\ OnceOpen(<<>>) /\ <<>> \in Seq(LockRecord) /\ <<>> \in Seq(OpenRecord)
  BY EmptySeq DEF Elements, Once, OnceOpen
<1>2. \A o \in Object : locks[o] = <<>> /\ opens[o] = <<>>
  BY DEF Init
<1>3. LiveLocks = {} /\ HandleLocks = {} /\ OpenFiles = {}
  BY <1>1, <1>2 DEF LiveLocks, LocksOf, HandleLocks, OpenFiles
<1>4. kind \in [Object -> Kind]
  BY RemoteAssumption DEF Init, Kind
<1>5. TypeOK
  BY <1>1, <1>4 DEF Init, TypeOK
<1>6. LocksInv
  BY <1>1, <1>2, <1>3, FS_EmptySet DEF Init, LocksInv, LocksOf, LocksAccounted
<1>7. OpensInv
  BY <1>1, <1>2, <1>3 DEF OpensInv, HandleKeepsLock
<1>8. HoldersInv /\ UploadsInv
  BY <1>1, <1>2, <1>3 DEF Init, HoldersInv, UploadsInv, UploadAlone
<1> QED
  BY <1>5, <1>6, <1>7, <1>8 DEF IInv

LEMMA StutterInv ==
  ASSUME IInv, UNCHANGED <<kind, locks, opens, lockCount, lent, stale, leaked, lost>>, crashed' \in BOOLEAN
  PROVE  IInv'
<1>1. UNCHANGED <<LiveLocks, OpenFiles, HandleLocks>> /\ \A o \in Object : LocksOf(o)' = LocksOf(o)
  BY DEF LiveLocks, LocksOf, OpenFiles, HandleLocks
<1>2. TypeOK'
  <2>1. crashed' \in BOOLEAN
    OBVIOUS
  <2>2. (kind \in [Object -> Kind] /\ locks \in [Object -> Seq(LockRecord)])'
    BY DEF IInv, TypeOK
  <2>3. (opens \in [Object -> Seq(OpenRecord)] /\ lockCount \in Nat /\ lost \in Nat)'
    BY DEF IInv, TypeOK
  <2>4. (lent \subseteq Lock /\ stale \subseteq Lock /\ leaked \subseteq Lock)'
    BY DEF IInv, TypeOK
  <2> QED
    BY <2>1, <2>2, <2>3, <2>4 DEF TypeOK
<1>3. LocksInv'
  BY <1>1 DEF IInv, LocksInv, LocksAccounted
<1>4. OpensInv'
  BY <1>1 DEF IInv, OpensInv, HandleKeepsLock
<1>5. HoldersInv' /\ UploadsInv'
  BY <1>1 DEF IInv, HoldersInv, UploadsInv, UploadAlone
<1> QED
  BY <1>2, <1>3, <1>4, <1>5 DEF IInv

LEMMA NextInv == IInv /\ [Next]_vars => IInv'
<1> SUFFICES ASSUME IInv, [Next]_vars PROVE IInv'
  OBVIOUS
<1>1. CASE LockActions
  <2> PICK o \in Object :
        \/ \E mode \in {"read", "write"} : Locate(o, mode)
        \/ \E l \in Lock : FreeLock(o, l) \/ DupLock(o, l)
        \/ \E l \in Lock, p \in Object : Parent(o, l, p)
        \/ \E success \in BOOLEAN : CreateDir(o, success)
        \/ Delete(o)
    BY <1>1 DEF LockActions
  <2>1. CASE \E mode \in {"read", "write"} : Locate(o, mode)
    BY <2>1, LendStep DEF Locate
  <2>2. ASSUME NEW l \in Lock, FreeLock(o, l) PROVE IInv'
    BY <2>2, FreeLockStep
  <2>3. ASSUME NEW l \in Lock, DupLock(o, l) PROVE IInv'
    BY <2>3, LendStep DEF DupLock
  <2>4. ASSUME NEW l \in Lock, NEW p \in Object, Parent(o, l, p) PROVE IInv'
    BY <2>4, LendStep DEF Parent
  <2>5. CASE \E success \in BOOLEAN : CreateDir(o, success)
    BY <2>5, CreateDirStep
  <2>6. CASE Delete(o)
    BY <2>6, DeleteStep
  <2> QED
    BY <2>1, <2>2, <2>3, <2>4, <2>5, <2>6
<1>2. CASE OpenActions
  <2> PICK o \in Object :
        \/ OpenOld(o) \/ OpenNew(o)
        \/ \E l \in Lock : OpenFromLock(o, l)
        \/ \E i \in DOMAIN opens[o], p \in Object : Close(o, i, p)
        \/ DupLockFromFH(o)
        \/ \E p \in Object : ParentFH(o, p)
    BY <1>2 DEF OpenActions
  <2>1. CASE OpenOld(o)
    BY <2>1, OpenOldStep
  <2>2. CASE OpenNew(o)
    BY <2>2, OpenNewStep
  <2>3. CASE \E l \in Lock : OpenFromLock(o, l)
    BY <2>3, OpenFromLockStep
  <2>4. CASE \E i \in DOMAIN opens[o], p \in Object : Close(o, i, p)
    BY <2>4, CloseStep
  <2>5. CASE DupLockFromFH(o)
    BY <2>5, LendStep DEF DupLockFromFH
  <2>6. ASSUME NEW p \in Object, ParentFH(o, p) PROVE IInv'
    BY <2>6, LendStep DEF ParentFH
  <2> QED
    BY <2>1, <2>2, <2>3, <2>4, <2>5, <2>6
<1>3. CASE OpenNewFails
  <2>1. crashed' \in BOOLEAN
    BY <1>3, Zenon DEF OpenNewFails
  <2>2. UNCHANGED <<kind, locks, opens, lockCount, lent, stale, leaked, lost>>
    BY <1>3 DEF OpenNewFails
  <2> QED
    BY <2>1, <2>2, StutterInv
<1>4. CASE UNCHANGED vars
  BY <1>4, StutterInv DEF vars, IInv, TypeOK
<1> QED
  BY <1>1, <1>2, <1>3, <1>4 DEF Next

(* The invariant that the rest follows from: a lock stands in one list, an *)
(* open file in one list, a lock has one holder, an upload is alone.       *)
THEOREM Invariant == Spec => []IInv
  BY InitInv, NextInv, PTL DEF Spec

(* TypeOK holds of what the actions of cDosHandler do to locks and files.  *)
THEOREM TypeCorrect == Spec => []TypeOK
<1>1. IInv => TypeOK
  BY DEF IInv
<1> QED
  BY Invariant, <1>1, PTL

(* _lockCount is the number of locks in being and of those lost.           *)
THEOREM LocksAreAccounted == Spec => []LocksAccounted
<1>1. IInv => LocksAccounted
  BY DEF IInv, LocksInv
<1> QED
  BY Invariant, <1>1, PTL

(* A lock is with a client, with one open file, or with nobody, unless one *)
(* was freed at its address while a client held it (__deleteObject).       *)
THEOREM LocksHaveOneHolder == Spec => []OneHolder
<1>1. IInv => OneHolder
  BY DEF IInv, LocksInv, OpensInv, HoldersInv, OneHolder
<1> QED
  BY Invariant, <1>1, PTL

(* The lock of an open file is a lock on that file, unless one was freed   *)
(* at its address while a client held it (cFileOpen::_lock).               *)
THEOREM HandlesKeepTheirLocks == Spec => []HandleKeepsLock
<1>1. IInv => HandleKeepsLock
  BY DEF IInv, OpensInv
<1> QED
  BY Invariant, <1>1, PTL

(* With a count of zero there is no lock to free and no file to close.     *)
THEOREM ShutdownFindsNothing == Spec => []ShutdownIsSafe
<1>1. IInv => ShutdownIsSafe
  <2> SUFFICES ASSUME IInv, lockCount = 0
               PROVE  lent \cup stale = {} /\ \A o \in Object : opens[o] = <<>>
    BY DEF ShutdownIsSafe
  <2>1. Cardinality(LiveLocks) = 0 /\ lost = 0
    <3>1. lost \in Nat /\ Cardinality(LiveLocks) \in Nat
      BY Finite DEF IInv, TypeOK
    <3> QED
      BY <3>1 DEF IInv, LocksInv, LocksAccounted
  <2>2. LiveLocks = {} /\ stale = {} /\ lent = {}
    <3>1. LiveLocks = {}
      BY <2>1, Finite, FS_EmptySet DEF IInv
    <3> QED
      BY <2>1, <3>1 DEF IInv, HoldersInv
  <2>3. ASSUME NEW o \in Object PROVE opens[o] = <<>>
    <3>1. Elements(opens[o]) = {}
      BY <2>2, HandleLocksLive DEF IInv, HandleLocks, OpenFiles
    <3>2. opens[o] \in Seq(OpenRecord)
      BY DEF IInv, TypeOK
    <3>3. DOMAIN opens[o] = {}
      BY <3>1 DEF Elements
    <3>4. Len(opens[o]) \in Nat /\ DOMAIN opens[o] = 1..Len(opens[o])
      BY <3>2, LenProperties
    <3>5. Len(opens[o]) = 0
      <4>1. ASSUME NEW n \in Nat, 1..n = {} PROVE n = 0
        <5>1. n # 0 => 1 \in 1..n
          OBVIOUS
        <5> QED
          BY <4>1, <5>1
      <4> QED
        BY <3>3, <3>4, <4>1
    <3> QED
      BY <3>2, <3>5, EmptySeq
  <2> QED
    BY <2>2, <2>3
<1> QED
  BY Invariant, <1>1, PTL

(* Nobody else has a file open that is being uploaded.                     *)
THEOREM UploadsAreAlone == Spec => []UploadAlone
<1>1. IInv => UploadAlone
  BY DEF IInv, UploadsInv
<1> QED
  BY Invariant, <1>1, PTL
=============================================================================
