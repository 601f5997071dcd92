-------------------------- MODULE ChunkCache_proofs --------------------------
(***************************************************************************)
(* Proofs about ChunkCache, for chunks of any length.                      *)
(***************************************************************************)
EXTENDS ChunkCache, TLAPS

(***************************************************************************)
(* Positions.  A transfer of at most one chunk's length ends in the chunk  *)
(* it begins in or in the next one.                                        *)
(***************************************************************************)
LEMMA PositionParts ==
  ASSUME NEW p \in Nat
  PROVE  /\ ChunkOf(p) \in Nat /\ OffsetOf(p) \in 0..ChunkLen - 1
         /\ p = ChunkLen * ChunkOf(p) + OffsetOf(p)
BY LengthAssumption DEF ChunkOf, OffsetOf

LEMMA PartTypes ==
  ASSUME NEW p \in Nat
  PROVE  ChunkOf(p) \in Nat /\ OffsetOf(p) \in 0..ChunkLen - 1
BY PositionParts

LEMMA PartsAreUnique ==
  ASSUME NEW a \in Nat, NEW b \in Nat, NEW r \in 0..ChunkLen - 1,
         NEW s \in 0..ChunkLen - 1, ChunkLen * a + r = ChunkLen * b + s
  PROVE  a = b /\ r = s
<1> ChunkLen \in Nat \ {0}  BY LengthAssumption
<1>1. ASSUME NEW x \in Nat, NEW y \in Nat, x < y
      PROVE  ChunkLen * y >= ChunkLen * x + ChunkLen
  <2>1. PICK d \in Nat : y = x + 1 + d  BY <1>1
  <2>2. ChunkLen * y = ChunkLen * x + ChunkLen + ChunkLen * d  BY <2>1
  <2> QED  BY <2>2
<1>2. ~(a < b)  BY <1>1
<1>3. ~(b < a)  BY <1>1
<1> QED  BY <1>2, <1>3

LEMMA Advance ==
  ASSUME NEW p \in Nat, NEW n \in 1..ChunkLen
  PROVE  \/ /\ OffsetOf(p) + n < ChunkLen
            /\ ChunkOf(p + n) = ChunkOf(p) /\ OffsetOf(p + n) = OffsetOf(p) + n
         \/ /\ OffsetOf(p) + n >= ChunkLen
            /\ ChunkOf(p + n) = ChunkOf(p) + 1
            /\ OffsetOf(p + n) = OffsetOf(p) + n - ChunkLen
<1> ChunkLen \in Nat \ {0}  BY LengthAssumption
<1> DEFINE q == ChunkOf(p)  o == OffsetOf(p)
<1>1. q \in Nat /\ o \in 0..ChunkLen - 1 /\ p = ChunkLen * q + o
  BY PositionParts
<1>2. /\ ChunkOf(p + n) \in Nat /\ OffsetOf(p + n) \in 0..ChunkLen - 1
      /\ p + n = ChunkLen * ChunkOf(p + n) + OffsetOf(p + n)
  BY PositionParts
<1> HIDE DEF q, o
<1>3. CASE o + n < ChunkLen
  <2>1. o + n \in 0..ChunkLen - 1 /\ p + n = ChunkLen * q + (o + n)
    BY <1>1, <1>3
  <2>2. ChunkOf(p + n) = q /\ OffsetOf(p + n) = o + n
    BY <1>1, <1>2, <2>1, PartsAreUnique
  <2> QED  BY <1>3, <2>2 DEF q, o
<1>4. CASE o + n >= ChunkLen
  <2>1. /\ o + n - ChunkLen \in 0..ChunkLen - 1
        /\ p + n = ChunkLen * (q + 1) + (o + n - ChunkLen)
    BY <1>1, <1>4
  <2>2. q + 1 \in Nat  BY <1>1
  <2>3. ChunkLen * ChunkOf(p + n) + OffsetOf(p + n)
          = ChunkLen * (q + 1) + (o + n - ChunkLen)
    BY <1>2, <2>1
  <2>4. ChunkOf(p + n) = q + 1 /\ OffsetOf(p + n) = o + n - ChunkLen
    BY <1>2, <2>1, <2>2, <2>3, PartsAreUnique
  <2> QED  BY <1>4, <2>4 DEF q, o
<1> QED  BY <1>1, <1>3, <1>4

LEMMA Below ==
  ASSUME NEW p \in Nat, NEW t \in Nat, p < t
  PROVE  \/ ChunkOf(p) < ChunkOf(t)
         \/ ChunkOf(p) = ChunkOf(t) /\ OffsetOf(p) < OffsetOf(t)
<1> ChunkLen \in Nat \ {0}  BY LengthAssumption
<1> DEFINE a == ChunkOf(p)  r == OffsetOf(p)  b == ChunkOf(t)  s == OffsetOf(t)
<1>1. /\ a \in Nat /\ r \in 0..ChunkLen - 1 /\ p = ChunkLen * a + r
      /\ b \in Nat /\ s \in 0..ChunkLen - 1 /\ t = ChunkLen * b + s
  BY PositionParts
<1> HIDE DEF a, r, b, s
<1>2. ASSUME b < a PROVE FALSE
  <2>1. PICK d \in Nat : a = b + 1 + d  BY <1>1, <1>2
  <2>2. ChunkLen * a = ChunkLen * b + ChunkLen + ChunkLen * d  BY <1>1, <2>1
  <2>3. ChunkLen * d \in Nat  OBVIOUS
  <2> QED  BY <1>1, <2>2, <2>3
<1>3. a = b => r < s  BY <1>1
<1>4. a < b \/ (a = b /\ r < s)  BY <1>1, <1>2, <1>3
<1> QED  BY <1>4 DEF a, r, b, s

-----------------------------------------------------------------------------
(***************************************************************************)
(* Memory.  The type invariant is inductive together with the number of    *)
(* chunks, since a transfer outside them would not be typed.               *)
(***************************************************************************)
MemoryInv ==
  /\ TypeOK
  /\ ~reading => cursor = size
  /\ ChunksFollowCursor

LEMMA FilledType ==
  ASSUME NEW chunk \in Chunk, NEW ofs \in Nat, NEW pos \in Nat, NEW n \in Nat,
         pos + n <= MaxSize
  PROVE  Filled(chunk, ofs, pos, n) \in Chunk
<1> ChunkLen \in Nat /\ MaxSize \in Nat  BY LengthAssumption
<1> SUFFICES ASSUME NEW k \in 0..ChunkLen - 1
             PROVE  (IF k \in ofs..(ofs + n - 1) THEN pos + 1 + (k - ofs) ELSE chunk[k]) \in Byte
  BY DEF Filled, Chunk
<1>1. chunk[k] \in Byte  BY DEF Chunk
<1>2. k \in ofs..(ofs + n - 1) => pos + 1 + (k - ofs) \in Byte  BY DEF Byte
<1> QED  BY <1>1, <1>2

LEMMA OneChunkType ==
  ASSUME NEW chunks \in Seq(Chunk), NEW i \in 1..Len(chunks), NEW f \in Chunk
  PROVE  /\ [chunks EXCEPT ![i] = f] \in Seq(Chunk)
         /\ Len([chunks EXCEPT ![i] = f]) = Len(chunks)
OBVIOUS

LEMMA StoredType ==
  ASSUME TypeOK, NEW chunks \in Seq(Chunk), NEW n \in 1..ChunkLen,
         cursor + n <= MaxSize, Len(chunks) >= 1,
         ~InOnePiece(n) => Len(chunks) >= 2
  PROVE  Stored(chunks, n) \in Seq(Chunk) /\ Len(Stored(chunks, n)) = Len(chunks)
<1> ChunkLen \in Nat \ {0} /\ MaxSize \in Nat  BY LengthAssumption
<1> cursor \in Nat  BY DEF TypeOK
<1> DEFINE o == OffsetOf(cursor)  last == Len(chunks)
<1>1. o \in 0..ChunkLen - 1 /\ Room = ChunkLen - o /\ Room \in 1..ChunkLen
  <2>1. o \in 0..ChunkLen - 1  BY PartTypes
  <2>2. Room = ChunkLen - o  BY DEF Room
  <2> QED  BY <2>1, <2>2
<1>2. last \in 1..Len(chunks) /\ chunks[last] \in Chunk  OBVIOUS
<1>3. CASE InOnePiece(n)
  <2>1. Filled(chunks[last], o, cursor, n) \in Chunk
    BY <1>1, <1>2, FilledType
  <2>2. Stored(chunks, n) = [chunks EXCEPT ![last] = Filled(chunks[last], o, cursor, n)]
    BY <1>3 DEF Stored, PieceChunk
  <2> QED  BY <1>2, <2>1, <2>2, OneChunkType
<1>4. CASE ~InOnePiece(n)
  <2> DEFINE f == Filled(chunks[last - 1], o, cursor, Room)
             g == Filled(chunks[last], 0, cursor + Room, n - Room)
             half == [chunks EXCEPT ![last - 1] = f]
  <2>1. last - 1 \in 1..Len(chunks) /\ chunks[last - 1] \in Chunk  BY <1>4
  <2>2. Room < n
    <3>1. ChunkOf(cursor) # ChunkOf(cursor + n) /\ n # Room  BY <1>4 DEF InOnePiece
    <3> QED  BY <1>1, <3>1, Advance
  <2>3. f \in Chunk
    <3>1. o \in Nat /\ Room \in Nat /\ cursor + Room <= MaxSize  BY <1>1, <2>2
    <3> QED  BY <2>1, <3>1, FilledType
  <2>4. g \in Chunk
    <3>1. /\ cursor + Room \in Nat /\ n - Room \in Nat
          /\ (cursor + Room) + (n - Room) <= MaxSize
      BY <1>1, <2>2
    <3> QED  BY <1>2, <3>1, FilledType
  <2>5. half \in Seq(Chunk) /\ Len(half) = Len(chunks) /\ half[last] = chunks[last]
    BY <2>1, <2>3, OneChunkType
  <2>6. Stored(chunks, n) = [half EXCEPT ![last] = g]
    BY <1>4, <2>5 DEF Stored
  <2> HIDE DEF half, g
  <2> QED  BY <1>2, <2>4, <2>5, <2>6, OneChunkType
<1> QED  BY <1>3, <1>4

(* After a store the chunks follow the new cursor; only a whole chunk that *)
(* is stored where no chunk is yet leaves none ahead.                      *)
LEMMA GrownLength ==
  ASSUME MemoryInv, NEW n \in 1..ChunkLen, ~reading
  PROVE  /\ Grown(n) \in Seq(Chunk) /\ Len(Grown(n)) >= 1
         /\ ~InOnePiece(n) => Len(Grown(n)) = ChunkOf(cursor + n) + 1
                                /\ ChunkOf(cursor + n) = ChunkOf(cursor) + 1
         /\ Len(Grown(n)) \in {ChunkOf(cursor + n), ChunkOf(cursor + n) + 1}
         /\ OffsetOf(cursor + n) # 0 => Len(Grown(n)) = ChunkOf(cursor + n) + 1
<1> ChunkLen \in Nat \ {0} /\ MaxSize \in Nat  BY LengthAssumption
<1> cursor \in Nat /\ cursor = size /\ cache \in Seq(Chunk)  BY DEF MemoryInv, TypeOK
<1>1. FreshChunk \in Chunk  BY DEF FreshChunk, Chunk, Byte, Junk
<1>2. /\ Append(cache, FreshChunk) \in Seq(Chunk)
      /\ Len(Append(cache, FreshChunk)) = Len(cache) + 1
  BY <1>1
<1> DEFINE q == ChunkOf(cursor)  o == OffsetOf(cursor)  e == ChunkOf(cursor + n)
           t == OffsetOf(cursor + n)  m == Len(Grown(n))
<1>3. q \in Nat /\ o \in 0..ChunkLen - 1 /\ e \in Nat /\ t \in 0..ChunkLen - 1
  <2>1. cursor + n \in Nat  OBVIOUS
  <2> QED  BY <2>1, PartTypes
<1>4. \/ o + n < ChunkLen /\ e = q /\ t = o + n
      \/ o + n >= ChunkLen /\ e = q + 1 /\ t = o + n - ChunkLen
  BY Advance
<1>5. Len(cache) \in {q, q + 1} /\ (o # 0 => Len(cache) = q + 1)
  BY DEF MemoryInv, ChunksFollowCursor
<1>6. Grown(n) \in Seq(Chunk) /\ m = (IF Len(cache) <= e THEN Len(cache) + 1 ELSE Len(cache))
  BY <1>2 DEF Grown
<1>7. InOnePiece(n) <=> e = q \/ n = ChunkLen - o
  BY DEF InOnePiece, Room
<1> HIDE DEF q, o, e, t, m
<1>8. /\ m >= 1 /\ m \in {e, e + 1} /\ (t # 0 => m = e + 1)
      /\ (e = q + 1 /\ n # ChunkLen - o => m = e + 1)
  BY <1>3, <1>4, <1>5, <1>6
<1> QED  BY <1>3, <1>4, <1>6, <1>7, <1>8 DEF q, o, e, t, m

LEMMA StoreMemory == ASSUME MemoryInv, NEW n \in 1..ChunkLen, Store(n) PROVE MemoryInv'
<1> ChunkLen \in Nat \ {0} /\ MaxSize \in Nat  BY LengthAssumption
<1> cursor \in Nat /\ size \in Nat  BY DEF MemoryInv, TypeOK
<1>1. /\ ~reading /\ cursor = size /\ size + n <= MaxSize
      /\ cache' = Stored(Grown(n), n) /\ cursor' = cursor + n /\ size' = size + n
      /\ reading' = reading /\ got' = got
  BY DEF MemoryInv, Store
<1>2. ChunkOf(cursor) \in Nat  BY PartTypes
<1>3. cache' \in Seq(Chunk) /\ Len(cache') = Len(Grown(n))
  BY <1>1, <1>2, GrownLength, StoredType DEF MemoryInv
<1>4. TypeOK'  BY <1>1, <1>3 DEF MemoryInv, TypeOK
<1>5. ChunksFollowCursor'
  BY <1>1, <1>3, GrownLength DEF ChunksFollowCursor
<1> QED  BY <1>1, <1>4, <1>5 DEF MemoryInv

(* A position before the end of the content lies in one of the chunks.     *)
LEMMA ChunkExists ==
  ASSUME MemoryInv, NEW p \in Nat, p < size
  PROVE  ChunkOf(p) + 1 \in 1..Len(cache)
<1> size \in Nat /\ cache \in Seq(Chunk)  BY LengthAssumption DEF MemoryInv, TypeOK
<1>1. /\ ChunkOf(p) \in Nat /\ OffsetOf(p) \in 0..ChunkLen - 1
      /\ ChunkOf(size) \in Nat /\ OffsetOf(size) \in 0..ChunkLen - 1
  BY PartTypes
<1>2. \/ ChunkOf(p) < ChunkOf(size)
      \/ ChunkOf(p) = ChunkOf(size) /\ OffsetOf(size) # 0
  BY <1>1, Below, LengthAssumption
<1>3. /\ Len(cache) \in {ChunkOf(size), ChunkOf(size) + 1}
      /\ OffsetOf(size) # 0 => Len(cache) = ChunkOf(size) + 1
  BY DEF MemoryInv, ChunksFollowCursor
<1> QED  BY <1>1, <1>2, <1>3

LEMMA SliceType ==
  ASSUME MemoryInv, NEW chunk \in 1..Len(cache), NEW ofs \in Nat, NEW n \in Nat,
         ofs + n <= ChunkLen
  PROVE  Slice(chunk, ofs, n) \in Seq(Byte) /\ Len(Slice(chunk, ofs, n)) = n
<1> ChunkLen \in Nat \ {0}  BY LengthAssumption
<1>1. cache[chunk] \in Chunk  BY DEF MemoryInv, TypeOK
<1>2. ASSUME NEW i \in 1..n PROVE cache[chunk][ofs + i - 1] \in Byte
  <2>1. ofs + i - 1 \in 0..ChunkLen - 1  BY <1>2
  <2> QED  BY <1>1, <2>1 DEF Chunk
<1> QED  BY <1>2 DEF Slice

(* What a read of readData copies: where each part of it lies.             *)
LEMMA ReadInBounds ==
  ASSUME MemoryInv, NEW n \in 1..ChunkLen, Read(n)
  PROVE  /\ ChunkOf(cursor) + 1 \in 1..Len(cache)
         /\ InOnePiece(n) => OffsetOf(cursor) + n <= ChunkLen
         /\ ~InOnePiece(n) => /\ OffsetOf(cursor) + n > ChunkLen
                              /\ ChunkOf(cursor + n) = ChunkOf(cursor) + 1
                              /\ ChunkOf(cursor + n) + 1 \in 1..Len(cache)
<1> ChunkLen \in Nat \ {0}  BY LengthAssumption
<1> cursor \in Nat /\ size \in Nat /\ cursor + n <= size
  BY LengthAssumption DEF MemoryInv, TypeOK, Read
<1>1. OffsetOf(cursor) \in 0..ChunkLen - 1 /\ ChunkOf(cursor) \in Nat  BY PartTypes
<1>2. ChunkOf(cursor) + 1 \in 1..Len(cache)  BY ChunkExists
<1>3. \/ /\ OffsetOf(cursor) + n < ChunkLen /\ ChunkOf(cursor + n) = ChunkOf(cursor)
      \/ /\ OffsetOf(cursor) + n >= ChunkLen
         /\ ChunkOf(cursor + n) = ChunkOf(cursor) + 1
         /\ OffsetOf(cursor + n) = OffsetOf(cursor) + n - ChunkLen
  BY Advance
<1>4. InOnePiece(n) <=> ChunkOf(cursor) = ChunkOf(cursor + n)
                          \/ n = ChunkLen - OffsetOf(cursor)
  BY DEF InOnePiece, Room
<1>5. ASSUME ~InOnePiece(n) PROVE ChunkOf(cursor + n) + 1 \in 1..Len(cache)
  <2>1. OffsetOf(cursor + n) # 0  BY <1>1, <1>3, <1>4, <1>5
  <2>2. CASE cursor + n < size  BY <2>2, ChunkExists
  <2>3. CASE cursor + n = size
    <3>1. ChunkOf(size) \in Nat /\ Len(cache) = ChunkOf(size) + 1
      BY <2>1, <2>3, PartTypes DEF MemoryInv, ChunksFollowCursor
    <3> QED  BY <2>3, <3>1
  <2> QED  BY <2>2, <2>3
<1> QED  BY <1>1, <1>2, <1>3, <1>4, <1>5

LEMMA ReadMemory == ASSUME MemoryInv, NEW n \in 1..ChunkLen, Read(n) PROVE MemoryInv'
<1> ChunkLen \in Nat \ {0}  BY LengthAssumption
<1>1. cursor \in Nat /\ size \in Nat /\ got \in Seq(Byte)
  BY LengthAssumption DEF MemoryInv, TypeOK
<1>2. OffsetOf(cursor) \in 0..ChunkLen - 1  BY <1>1, PartTypes
<1>3. Bytes(n) \in Seq(Byte)
  <2>1. CASE InOnePiece(n)
    BY <1>2, <2>1, ReadInBounds, SliceType DEF Bytes
  <2>2. CASE ~InOnePiece(n)
    <3>1. Room \in Nat /\ OffsetOf(cursor) + Room <= ChunkLen /\ OffsetOf(cursor) \in Nat
          /\ n - Room \in Nat /\ 0 + (n - Room) <= ChunkLen
      BY <1>2, <2>2, ReadInBounds DEF Room
    <3>2. /\ Slice(ChunkOf(cursor) + 1, OffsetOf(cursor), Room) \in Seq(Byte)
          /\ Slice(ChunkOf(cursor + n) + 1, 0, n - Room) \in Seq(Byte)
      BY <2>2, <3>1, ReadInBounds, SliceType
    <3> QED  BY <2>2, <3>2 DEF Bytes
  <2> QED  BY <2>1, <2>2
<1>4. got' \in Seq(Byte)  BY <1>1, <1>3 DEF Read
<1> QED
  BY <1>1, <1>4 DEF Read, MemoryInv, TypeOK, ChunksFollowCursor

LEMMA InitMemory == Init => MemoryInv
<1> SUFFICES ASSUME Init PROVE MemoryInv  OBVIOUS
<1>1. ChunkOf(0) = 0 /\ OffsetOf(0) = 0
  BY LengthAssumption DEF ChunkOf, OffsetOf
<1>2. TypeOK
  <2>1. <<>> \in Seq(Chunk) /\ <<>> \in Seq(Byte)  OBVIOUS
  <2>2. reading \in BOOLEAN  BY Zenon DEF Init
  <2>3. cursor \in Nat /\ size \in 0..MaxSize /\ cursor <= size
    BY LengthAssumption DEF Init
  <2> QED  BY <2>1, <2>2, <2>3 DEF Init, TypeOK
<1> QED  BY <1>1, <1>2 DEF Init, MemoryInv, ChunksFollowCursor

LEMMA NextMemory == MemoryInv /\ [Next]_vars => MemoryInv'
<1> SUFFICES ASSUME MemoryInv, [Next]_vars PROVE MemoryInv'  OBVIOUS
<1>1. CASE \E n \in 1..ChunkLen : Store(n)  BY <1>1, StoreMemory
<1>2. CASE \E n \in 1..ChunkLen : Read(n)  BY <1>2, ReadMemory
<1>3. CASE Rewind
  BY <1>3, LengthAssumption DEF Rewind, MemoryInv, TypeOK, ChunksFollowCursor
<1>4. CASE Purge
  <2>1. Init'  BY <1>4 DEF Purge, FreeChunks, Init
  <2>2. (Init => MemoryInv)'  BY InitMemory, PTL
  <2> QED  BY <2>1, <2>2
<1>5. CASE UNCHANGED vars
  BY <1>5 DEF vars, MemoryInv, TypeOK, ChunksFollowCursor
<1> QED  BY <1>1, <1>2, <1>3, <1>4, <1>5 DEF Next

(* The chunks are chunks, and the cursor never passes the end of what the  *)
(* cache holds, whatever is stored and read (__storeData, __readData).     *)
THEOREM TypeCorrect == Spec => []TypeOK
<1>1. MemoryInv => TypeOK  BY DEF MemoryInv
<1> QED  BY <1>1, InitMemory, NextMemory, PTL DEF Spec

(* Whatever the chunk length and the lengths of the transfers, each byte   *)
(* of the content has a chunk, and no transfer of __storeData or           *)
(* __readData leaves the chunks.                                           *)
THEOREM MemoryIsAllocated == Spec => []ChunksFollowCursor
<1>1. MemoryInv => ChunksFollowCursor  BY DEF MemoryInv
<1> QED  BY <1>1, InitMemory, NextMemory, PTL DEF Spec

-----------------------------------------------------------------------------
(***************************************************************************)
(* Content.  Every stored byte lies where a read looks for it, as long as  *)
(* no store fills up a chunk that is there already.                        *)
(***************************************************************************)
ContentInv ==
  /\ \A p \in 0..size - 1 : cache[ChunkOf(p) + 1][OffsetOf(p)] = p + 1
  /\ ~reading => got = <<>>
  /\ reading => Len(got) = cursor
  /\ ReadsBackWhatWasStored

LEMMA Place ==
  ASSUME NEW p \in Nat, NEW d \in 0..ChunkLen - 1
  PROVE  /\ OffsetOf(p) + d < ChunkLen
              => ChunkOf(p + d) = ChunkOf(p) /\ OffsetOf(p + d) = OffsetOf(p) + d
         /\ OffsetOf(p) + d >= ChunkLen
              => /\ ChunkOf(p + d) = ChunkOf(p) + 1
                 /\ OffsetOf(p + d) = OffsetOf(p) + d - ChunkLen
<1> ChunkLen \in Nat \ {0}  BY LengthAssumption
<1>1. OffsetOf(p) \in 0..ChunkLen - 1 /\ ChunkOf(p) \in Nat  BY PartTypes
<1>2. CASE d = 0
  <2>1. p + d = p  BY <1>2
  <2> QED  BY <1>1, <1>2, <2>1
<1>3. CASE d # 0
  <2>1. d \in 1..ChunkLen  BY <1>3
  <2> QED  BY <1>1, <2>1, Advance
<1> QED  BY <1>2, <1>3

(* Bytes that are already stored are left alone.                           *)
LEMMA OldBytes ==
  ASSUME MemoryInv, ContentInv, NEW n \in 1..ChunkLen, ~reading,
         NEW p \in 0..size - 1
  PROVE  /\ ChunkOf(p) + 1 \in 1..Len(cache)
         /\ Grown(n)[ChunkOf(p) + 1][OffsetOf(p)] = p + 1
         /\ \/ ChunkOf(p) < ChunkOf(cursor)
            \/ ChunkOf(p) = ChunkOf(cursor) /\ OffsetOf(p) < OffsetOf(cursor)
<1> size \in Nat /\ cursor = size /\ cache \in Seq(Chunk)
  BY LengthAssumption DEF MemoryInv, TypeOK
<1>1. p \in Nat /\ p < size  OBVIOUS
<1>2. ChunkOf(p) + 1 \in 1..Len(cache)  BY <1>1, ChunkExists
<1>3. Grown(n)[ChunkOf(p) + 1] = cache[ChunkOf(p) + 1]  BY <1>2 DEF Grown
<1>4. cache[ChunkOf(p) + 1][OffsetOf(p)] = p + 1  BY DEF ContentInv
<1> QED  BY <1>1, <1>2, <1>3, <1>4, Below

LEMMA StoreContent ==
  ASSUME MemoryInv, ContentInv, ~AnyLength, NEW n \in 1..ChunkLen, Store(n)
  PROVE  ContentInv'
<1> ChunkLen \in Nat \ {0}  BY LengthAssumption
<1> DEFINE q == ChunkOf(cursor)  o == OffsetOf(cursor)  G == Grown(n)
<1>1. /\ cursor \in Nat /\ size = cursor /\ ~reading /\ cache \in Seq(Chunk)
      /\ ~Misplaces(n) /\ cache' = Stored(G, n) /\ size' = cursor + n
      /\ reading' = reading /\ got' = got
  BY DEF MemoryInv, TypeOK, Store
<1>2. q \in Nat /\ o \in 0..ChunkLen - 1 /\ Room = ChunkLen - o
  BY <1>1, PartTypes DEF Room
<1>3. /\ G \in Seq(Chunk) /\ Len(G) >= 1
      /\ Len(G) \in {ChunkOf(cursor + n), ChunkOf(cursor + n) + 1}
      /\ OffsetOf(cursor + n) # 0 => Len(G) = ChunkOf(cursor + n) + 1
      /\ ~InOnePiece(n) => Len(G) = q + 2
  BY <1>1, <1>2, GrownLength
<1>4. SUFFICES ASSUME NEW p \in 0..(cursor + n) - 1
               PROVE  cache'[ChunkOf(p) + 1][OffsetOf(p)] = p + 1
  BY <1>1 DEF ContentInv, ReadsBackWhatWasStored, ChunkOf, OffsetOf
<1>5. ChunkOf(p) \in Nat /\ OffsetOf(p) \in 0..ChunkLen - 1  BY PartTypes
<1>6. p >= cursor => LET d == p - cursor IN
        /\ d \in 0..n - 1 /\ p = cursor + d
        /\ o + d < ChunkLen => ChunkOf(p) = q /\ OffsetOf(p) = o + d
        /\ o + d >= ChunkLen => ChunkOf(p) = q + 1 /\ OffsetOf(p) = o + d - ChunkLen
  <2> SUFFICES ASSUME p >= cursor
               PROVE  LET d == p - cursor IN
                        /\ d \in 0..n - 1 /\ p = cursor + d
                        /\ o + d < ChunkLen => ChunkOf(p) = q /\ OffsetOf(p) = o + d
                        /\ o + d >= ChunkLen
                             => ChunkOf(p) = q + 1 /\ OffsetOf(p) = o + d - ChunkLen
    OBVIOUS
  <2> DEFINE d == p - cursor
  <2>1. d \in 0..n - 1 /\ d \in 0..ChunkLen - 1 /\ p = cursor + d  BY <1>1
  <2> HIDE DEF d
  <2>2. /\ o + d < ChunkLen => ChunkOf(cursor + d) = q /\ OffsetOf(cursor + d) = o + d
        /\ o + d >= ChunkLen
             => ChunkOf(cursor + d) = q + 1 /\ OffsetOf(cursor + d) = o + d - ChunkLen
    BY <1>1, <2>1, Place
  <2> QED  BY <2>1, <2>2 DEF d
<1>7. p < cursor => /\ ChunkOf(p) + 1 \in 1..Len(cache)
                    /\ G[ChunkOf(p) + 1][OffsetOf(p)] = p + 1
                    /\ ChunkOf(p) < q \/ (ChunkOf(p) = q /\ OffsetOf(p) < o)
  BY <1>1, OldBytes
<1>8. CASE InOnePiece(n)
  <2> DEFINE F == Filled(G[q + 1], o, cursor, n)
  <2>1. o + n <= ChunkLen /\ Len(G) = q + 1
    <3>1. \/ o + n < ChunkLen /\ ChunkOf(cursor + n) = q /\ OffsetOf(cursor + n) = o + n
          \/ /\ o + n >= ChunkLen /\ ChunkOf(cursor + n) = q + 1
             /\ OffsetOf(cursor + n) = o + n - ChunkLen
      BY <1>1, Advance
    <3>2. CASE ChunkOf(cursor + n) = q
      <4>1. o + n < ChunkLen /\ OffsetOf(cursor + n) = o + n  BY <1>2, <3>1, <3>2
      <4> QED  BY <1>2, <1>3, <3>2, <4>1
    <3>3. CASE ChunkOf(cursor + n) # q
      <4>1. n = Room /\ ChunkOf(cursor + n) = q + 1  BY <1>8, <3>1, <3>3 DEF InOnePiece
      <4>2. Len(cache) = q
        BY <1>1, <1>2, <4>1 DEF Misplaces, MemoryInv, ChunksFollowCursor
      <4>3. Len(G) = q + 1  BY <1>1, <4>1, <4>2 DEF Grown
      <4> QED  BY <1>2, <4>1, <4>3
    <3> QED  BY <3>2, <3>3
  <2>2. cache' = [G EXCEPT ![q + 1] = F]
    BY <1>1, <1>8, <2>1 DEF Stored, PieceChunk
  <2>3. ASSUME NEW i \in 1..Len(G) PROVE cache'[i] = IF i = q + 1 THEN F ELSE G[i]
    BY <1>3, <2>2
  <2>4. q + 1 \in 1..Len(G)  BY <1>2, <2>1
  <2> HIDE DEF G, F, q, o
  <2>5. CASE p < cursor
    <3>1. ChunkOf(p) + 1 \in 1..Len(G)  BY <1>2, <1>5, <1>7, <2>1, <2>5
    <3>2. CASE ChunkOf(p) < q
      <4>1. cache'[ChunkOf(p) + 1] = G[ChunkOf(p) + 1]
        BY <1>2, <1>5, <2>3, <3>1, <3>2
      <4> QED  BY <1>7, <2>5, <4>1
    <3>3. CASE ChunkOf(p) = q /\ OffsetOf(p) < o
      <4>1. cache'[ChunkOf(p) + 1] = F  BY <2>3, <2>4, <3>3
      <4>2. F[OffsetOf(p)] = G[q + 1][OffsetOf(p)]
        BY <1>1, <1>2, <1>5, <3>3 DEF F, Filled
      <4> QED  BY <1>7, <2>5, <3>3, <4>1, <4>2
    <3> QED  BY <1>7, <2>5, <3>2, <3>3
  <2>6. CASE p >= cursor
    <3> DEFINE d == p - cursor
    <3>1. d \in 0..n - 1 /\ p = cursor + d /\ ChunkOf(p) = q /\ OffsetOf(p) = o + d
      BY <1>1, <1>2, <1>6, <2>1, <2>6
    <3> HIDE DEF d
    <3>2. cache'[ChunkOf(p) + 1] = F  BY <2>3, <2>4, <3>1
    <3>3. F[OffsetOf(p)] = cursor + 1 + (OffsetOf(p) - o)
      <4>1. OffsetOf(p) \in o..(o + n - 1)  BY <1>2, <1>5, <3>1
      <4> QED  BY <1>1, <1>2, <1>5, <4>1 DEF F, Filled
    <3> QED  BY <1>1, <1>2, <3>1, <3>2, <3>3
  <2> QED  BY <1>1, <2>5, <2>6
<1>9. CASE ~InOnePiece(n)
  <2> DEFINE F == Filled(G[q + 1], o, cursor, Room)
             E == Filled(G[q + 2], 0, cursor + Room, n - Room)
             H == [G EXCEPT ![q + 1] = F]
  <2>1. Len(G) = q + 2 /\ q + 1 \in 1..Len(G) /\ q + 2 \in 1..Len(G)
    BY <1>2, <1>3, <1>9
  <2>2. Room < n
    <3>1. ChunkOf(cursor) # ChunkOf(cursor + n) /\ n # Room  BY <1>9 DEF InOnePiece
    <3> QED  BY <1>1, <1>2, <3>1, Advance
  <2>3. cache' = [H EXCEPT ![q + 2] = E]
    <3>1. Len(G) - 1 = q + 1 /\ H[q + 2] = G[q + 2]  BY <1>2, <1>3, <2>1
    <3> QED  BY <1>1, <1>9, <2>1, <3>1 DEF Stored
  <2>4. ASSUME NEW i \in 1..Len(G)
        PROVE  cache'[i] = IF i = q + 1 THEN F ELSE IF i = q + 2 THEN E ELSE G[i]
    <3>1. /\ DOMAIN H = 1..Len(G) /\ H[i] = IF i = q + 1 THEN F ELSE G[i]
      BY <1>3
    <3> HIDE DEF F, E, H, G
    <3> QED  BY <1>2, <2>3, <3>1
  <2> HIDE DEF G, F, E, H, q, o
  <2>5. CASE p < cursor
    <3>1. ChunkOf(p) + 1 \in 1..Len(G)  BY <1>2, <1>5, <1>7, <2>1, <2>5
    <3>2. CASE ChunkOf(p) < q
      <4>1. cache'[ChunkOf(p) + 1] = G[ChunkOf(p) + 1]
        BY <1>2, <1>5, <2>4, <3>1, <3>2
      <4> QED  BY <1>7, <2>5, <4>1
    <3>3. CASE ChunkOf(p) = q /\ OffsetOf(p) < o
      <4>1. cache'[ChunkOf(p) + 1] = F  BY <2>1, <2>4, <3>3
      <4>2. Room \in Nat  BY <1>2
      <4>3. F[OffsetOf(p)] = G[q + 1][OffsetOf(p)]
        BY <1>1, <1>2, <1>5, <3>3, <4>2 DEF F, Filled
      <4> QED  BY <1>7, <2>5, <3>3, <4>1, <4>3
    <3> QED  BY <1>7, <2>5, <3>2, <3>3
  <2>6. CASE p >= cursor
    <3> DEFINE d == p - cursor
    <3>1. /\ d \in 0..n - 1 /\ p = cursor + d
          /\ o + d < ChunkLen => ChunkOf(p) = q /\ OffsetOf(p) = o + d
          /\ o + d >= ChunkLen => ChunkOf(p) = q + 1 /\ OffsetOf(p) = o + d - ChunkLen
      BY <1>6, <2>6
    <3> HIDE DEF d
    <3>2. CASE o + d < ChunkLen
      <4>1. ChunkOf(p) = q /\ OffsetOf(p) = o + d  BY <3>1, <3>2
      <4>2. cache'[ChunkOf(p) + 1] = F  BY <2>1, <2>4, <4>1
      <4>3. OffsetOf(p) \in o..(o + Room - 1) /\ Room \in Nat
        BY <1>2, <1>5, <3>1, <3>2, <4>1
      <4>4. F[OffsetOf(p)] = cursor + 1 + (OffsetOf(p) - o)
        BY <1>1, <1>2, <1>5, <4>3 DEF F, Filled
      <4> QED  BY <1>1, <1>2, <3>1, <4>1, <4>2, <4>4
    <3>3. CASE o + d >= ChunkLen
      <4>1. ChunkOf(p) = q + 1 /\ OffsetOf(p) = o + d - ChunkLen  BY <3>1, <3>3
      <4>2. cache'[ChunkOf(p) + 1] = E  BY <1>2, <2>1, <2>4, <4>1
      <4>3. /\ OffsetOf(p) \in 0..(0 + (n - Room) - 1)
            /\ cursor + Room \in Nat /\ n - Room \in Nat
        BY <1>1, <1>2, <1>5, <2>2, <3>1, <3>3, <4>1
      <4>4. E[OffsetOf(p)] = cursor + Room + 1 + (OffsetOf(p) - 0)
        BY <1>5, <4>3 DEF E, Filled
      <4> QED  BY <1>1, <1>2, <3>1, <4>1, <4>2, <4>4
    <3> QED  BY <1>2, <3>1, <3>2, <3>3
  <2> QED  BY <1>1, <2>5, <2>6
<1> QED  BY <1>8, <1>9

LEMMA SliceContent ==
  ASSUME MemoryInv, ContentInv, NEW p \in Nat, NEW ofs \in Nat, NEW m \in Nat,
         p + m <= size, OffsetOf(p) = ofs, ofs + m <= ChunkLen
  PROVE  Slice(ChunkOf(p) + 1, ofs, m) = [i \in 1..m |-> p + i]
<1> ChunkLen \in Nat \ {0} /\ size \in Nat
  BY LengthAssumption DEF MemoryInv, TypeOK
<1> SUFFICES ASSUME NEW i \in 1..m
             PROVE  cache[ChunkOf(p) + 1][ofs + i - 1] = p + i
  BY DEF Slice
<1>1. i - 1 \in 0..ChunkLen - 1 /\ p + (i - 1) \in 0..size - 1 /\ ofs + (i - 1) < ChunkLen
  OBVIOUS
<1>2. ChunkOf(p + (i - 1)) = ChunkOf(p) /\ OffsetOf(p + (i - 1)) = ofs + (i - 1)
  BY <1>1, Place
<1>3. cache[ChunkOf(p) + 1][ofs + (i - 1)] = p + (i - 1) + 1
  BY <1>1, <1>2 DEF ContentInv
<1> QED  BY <1>3

LEMMA ReadContent ==
  ASSUME MemoryInv, ContentInv, NEW n \in 1..ChunkLen, Read(n)
  PROVE  ContentInv'
<1> ChunkLen \in Nat \ {0}  BY LengthAssumption
<1>1. /\ cursor \in Nat /\ size \in Nat /\ got \in Seq(Byte) /\ reading
      /\ cursor + n <= size /\ got' = got \o Bytes(n) /\ cursor' = cursor + n
      /\ cache' = cache /\ size' = size /\ reading' = reading
  BY LengthAssumption DEF MemoryInv, TypeOK, Read
<1>2. OffsetOf(cursor) \in 0..ChunkLen - 1 /\ Room = ChunkLen - OffsetOf(cursor)
  BY <1>1, PartTypes DEF Room
<1>3. Bytes(n) = [i \in 1..n |-> cursor + i]
  <2>1. CASE InOnePiece(n)
    <3>1. OffsetOf(cursor) + n <= ChunkLen  BY <2>1, ReadInBounds
    <3> QED  BY <1>1, <1>2, <2>1, <3>1, SliceContent DEF Bytes
  <2>2. CASE ~InOnePiece(n)
    <3>1. /\ OffsetOf(cursor) + n > ChunkLen
          /\ ChunkOf(cursor + n) = ChunkOf(cursor) + 1
      BY <2>2, ReadInBounds
    <3>2. Room \in 1..ChunkLen /\ Room < n  BY <1>2, <3>1
    <3>3. Slice(ChunkOf(cursor) + 1, OffsetOf(cursor), Room)
            = [i \in 1..Room |-> cursor + i]
      BY <1>1, <1>2, <3>2, SliceContent
    <3>4. ChunkOf(cursor + Room) = ChunkOf(cursor) + 1 /\ OffsetOf(cursor + Room) = 0
      <4> DEFINE r == Room
      <4>1. r \in 1..ChunkLen /\ OffsetOf(cursor) + r = ChunkLen  BY <1>2, <3>2
      <4> HIDE DEF r
      <4>2. ChunkOf(cursor + r) = ChunkOf(cursor) + 1 /\ OffsetOf(cursor + r) = 0
        BY <1>1, <1>2, <4>1, Advance
      <4> QED  BY <4>2 DEF r
    <3>5. Slice(ChunkOf(cursor + n) + 1, 0, n - Room)
            = [i \in 1..n - Room |-> (cursor + Room) + i]
      <4>1. /\ cursor + Room \in Nat /\ n - Room \in Nat /\ 0 + (n - Room) <= ChunkLen
            /\ (cursor + Room) + (n - Room) <= size
        BY <1>1, <3>2
      <4> DEFINE b == cursor + Room  m == n - Room
      <4> HIDE DEF b, m
      <4>2. b \in Nat /\ m \in Nat /\ 0 + m <= ChunkLen /\ b + m <= size /\ OffsetOf(b) = 0
        BY <3>4, <4>1 DEF b, m
      <4>3. Slice(ChunkOf(b) + 1, 0, m) = [i \in 1..m |-> b + i]
        BY <4>2, SliceContent
      <4> QED  BY <3>1, <3>4, <4>3 DEF b, m
    <3>6. Bytes(n) = [i \in 1..Room |-> cursor + i]
                       \o [i \in 1..n - Room |-> (cursor + Room) + i]
      BY <2>2, <3>3, <3>5 DEF Bytes
    <3> QED  BY <1>1, <3>2, <3>6
  <2> QED  BY <2>1, <2>2
<1>4. Len(got) = cursor /\ got = [i \in 1..cursor |-> i]
  BY <1>1 DEF ContentInv, ReadsBackWhatWasStored
<1>5. got' = [i \in 1..cursor + n |-> i]
  BY <1>1, <1>3, <1>4
<1>6. Len(got') = cursor + n  BY <1>1, <1>5
<1>7. ReadsBackWhatWasStored'  BY <1>5, <1>6 DEF ReadsBackWhatWasStored
<1> QED
  BY <1>1, <1>6, <1>7 DEF ContentInv, ChunkOf, OffsetOf

LEMMA NextContent ==
  ~AnyLength /\ MemoryInv /\ ContentInv /\ [Next]_vars => ContentInv'
<1> SUFFICES ASSUME ~AnyLength, MemoryInv, ContentInv, [Next]_vars PROVE ContentInv'
  OBVIOUS
<1>1. CASE \E n \in 1..ChunkLen : Store(n)  BY <1>1, StoreContent
<1>2. CASE \E n \in 1..ChunkLen : Read(n)  BY <1>2, ReadContent
<1>3. CASE Rewind
  BY <1>3 DEF Rewind, ContentInv, ReadsBackWhatWasStored, ChunkOf, OffsetOf
<1>4. CASE Purge
  BY <1>4 DEF Purge, FreeChunks, ContentInv, ReadsBackWhatWasStored
<1>5. CASE UNCHANGED vars
  BY <1>5 DEF vars, ContentInv, ReadsBackWhatWasStored, ChunkOf, OffsetOf
<1> QED  BY <1>1, <1>2, <1>3, <1>4, <1>5 DEF Next

(* A file stored in lengths that never fill up a chunk which is there      *)
(* already (as whole chunks followed by one short rest do not) comes back  *)
(* as it was stored, whatever the chunk length and the lengths of reads.   *)
THEOREM ContentIsKept == ~AnyLength => (Spec => []ReadsBackWhatWasStored)
<1>1. ~AnyLength /\ Init => ContentInv
  BY DEF Init, ContentInv, ReadsBackWhatWasStored
<1>2. ContentInv => ReadsBackWhatWasStored  BY DEF ContentInv
<1>3. CASE ~AnyLength
  BY <1>1, <1>2, <1>3, InitMemory, NextMemory, NextContent, PTL DEF Spec
<1> QED  BY <1>3
=============================================================================
