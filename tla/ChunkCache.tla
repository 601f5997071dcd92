----------------------------- MODULE ChunkCache -----------------------------
(***************************************************************************)
(* The chunks a cFileOpen keeps a file in (source/shared/dos_handler.cpp): *)
(* __storeData and __readData, the pieces of at most one chunk's length    *)
(* that storeData and readData cut a transfer into, and purgeCache.        *)
(*                                                                         *)
(* A stored byte is its position in the file, from 1, so that a byte that  *)
(* comes back shows where it was stored.                                   *)
(***************************************************************************)
EXTENDS Naturals, Sequences

CONSTANTS
  ChunkLen,  \* NETWORK_BUF_LEN
  MaxSize,   \* bound: bytes stored before the cache is purged
  AnyLength  \* stores may have any length, see Misplaces

ASSUME LengthAssumption == ChunkLen \in Nat \ {0} /\ MaxSize \in Nat
ASSUME SwitchAssumption == AnyLength \in BOOLEAN

Byte == 0..MaxSize
Junk == 0           \* what malloc() leaves in a chunk
Chunk == [0..ChunkLen - 1 -> Byte]

VARIABLES
  cache,   \* _cache
  cursor,  \* _openCursor
  size,    \* _cachedFileSize
  reading, \* the cursor was set back and the content is read
  got      \* the bytes read since then

vars == <<cache, cursor, size, reading, got>>

TypeOK ==
  /\ cache \in Seq(Chunk)
  /\ cursor \in Nat /\ size \in 0..MaxSize /\ cursor <= size
  /\ reading \in BOOLEAN
  /\ got \in Seq(Byte)

Init ==
  /\ cache = <<>> /\ cursor = 0 /\ size = 0
  /\ reading = FALSE /\ got = <<>>

-----------------------------------------------------------------------------
ChunkOf(pos) == pos \div ChunkLen        \* _startChunkId, _endChunkId
OffsetOf(pos) == pos % ChunkLen          \* _startOfs
Room == ChunkLen - OffsetOf(cursor)      \* _emptySpaceInLastChunk

FreshChunk == [k \in 0..ChunkLen - 1 |-> Junk]
Grown(n) ==
  IF Len(cache) <= ChunkOf(cursor + n) THEN Append(cache, FreshChunk) ELSE cache

(* memcpy of the bytes from position pos on into chunk i, from offset ofs. *)
Filled(chunk, ofs, pos, n) ==
  [k \in 0..ChunkLen - 1 |-> IF k \in ofs..(ofs + n - 1) THEN pos + 1 + (k - ofs)
                                                       ELSE chunk[k]]

InOnePiece(n) == ChunkOf(cursor) = ChunkOf(cursor + n) \/ n = Room

(* Where a store in one piece goes to: the last chunk.                     *)
PieceChunk(chunks) == Len(chunks)
Stored(chunks, n) ==
  IF InOnePiece(n)
    THEN [chunks EXCEPT ![PieceChunk(chunks)] = Filled(@, OffsetOf(cursor), cursor, n)]
    ELSE [chunks EXCEPT
            ![Len(chunks) - 1] = Filled(@, OffsetOf(cursor), cursor, Room),
            ![Len(chunks)] = Filled(@, 0, cursor + Room, n - Room)]

(* A store that fills up a chunk which is there already makes the next     *)
(* chunk first, and then takes that one for the last.                      *)
Misplaces(n) == n = Room /\ Len(cache) = ChunkOf(cursor) + 1

(* __storeData                                                             *)
Store(n) ==
  /\ ~reading
  /\ n \in 1..ChunkLen /\ size + n <= MaxSize
  /\ AnyLength \/ ~Misplaces(n)
  /\ cache' = Stored(Grown(n), n)
  /\ cursor' = cursor + n
  /\ size' = size + n
  /\ UNCHANGED <<reading, got>>

(* _openCursor = 0, before an upload or after an export.                   *)
Rewind ==
  /\ ~reading
  /\ cursor' = 0 /\ reading' = TRUE
  /\ UNCHANGED <<cache, size, got>>

(* __readData, for a length that readData has clipped to the content.      *)
Slice(chunk, ofs, n) == [i \in 1..n |-> cache[chunk][ofs + i - 1]]
SameChunk(n) ==                                         \* mutant of Bytes
  Slice(ChunkOf(cursor) + 1, 0, n)
Bytes(n) ==
  IF InOnePiece(n)
    THEN Slice(ChunkOf(cursor) + 1, OffsetOf(cursor), n)
    ELSE Slice(ChunkOf(cursor) + 1, OffsetOf(cursor), Room)
           \o Slice(ChunkOf(cursor + n) + 1, 0, n - Room)
Read(n) ==
  /\ reading
  /\ n \in 1..ChunkLen /\ cursor + n <= size
  /\ got' = got \o Bytes(n)
  /\ cursor' = cursor + n
  /\ UNCHANGED <<cache, size, reading>>

(* purgeCache                                                              *)
KeepChunks == cache' = cache                            \* mutant of FreeChunks
FreeChunks == cache' = <<>>
PurgeKeepsCursor ==                                     \* mutant of Purge
  /\ FreeChunks
  /\ size' = 0
  /\ reading' = FALSE /\ got' = <<>>
  /\ UNCHANGED cursor
Purge ==
  /\ FreeChunks
  /\ cursor' = 0 /\ size' = 0
  /\ reading' = FALSE /\ got' = <<>>

Next == (\E n \in 1..ChunkLen : Store(n) \/ Read(n)) \/ Rewind \/ Purge

Spec == Init /\ [][Next]_vars

-----------------------------------------------------------------------------
(***************************************************************************)
(* Properties.                                                             *)
(***************************************************************************)

(* While a file is stored there is a chunk for every byte and at most one  *)
(* chunk beyond the last: each memcpy of __storeData and __readData stays  *)
(* in memory that was allocated for it.                                    *)
ChunksFollowCursor ==
  /\ Len(cache) \in {ChunkOf(size), ChunkOf(size) + 1}
  /\ OffsetOf(size) # 0 => Len(cache) = ChunkOf(size) + 1

(* What comes back is what was stored, whatever the lengths of the stores  *)
(* and of the reads ("content", _cache and _cachedFileSize of cFileOpen).  *)
ReadsBackWhatWasStored == got = [i \in 1..Len(got) |-> i]
=============================================================================
