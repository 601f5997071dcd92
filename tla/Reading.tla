------------------------------ MODULE Reading ------------------------------
(***************************************************************************)
(* A file opened for reading: __seek and __read of source/shared/          *)
(* dos_handler.cpp with downloadFile and exportFile of both handlers and   *)
(* the write function of curl.  A file whose size is known is read from    *)
(* the cloud range by range; a document has size zero and is exported into *)
(* the handle's cache by its first read.                                   *)
(*                                                                         *)
(* A byte is its position in the file, from 1; Alien is any byte that is   *)
(* not the file's.  The chunks of the cache are ChunkCache's.              *)
(***************************************************************************)
EXTENDS Integers, Sequences

CONSTANTS
  Sizes,       \* lengths the file may have in the cloud
  Lengths,     \* lengths a read may ask for
  Offsets,     \* offsets of a seek
  PeekLengths, \* lengths the file managers peek with
  NetLen,      \* NETWORK_BUF_LEN
  IntMax,      \* the largest int
  MaxPage,     \* bound: bytes in an answer that is not the file
  MaxCached,   \* bound: bytes in the cache
  MaxChanges,  \* bound: changes of the file in the cloud
  Unknown      \* the size of a document nobody has read yet

ASSUME SizesAssumption == Sizes \subseteq Nat /\ Unknown \notin Sizes
ASSUME LengthsAssumption == Lengths \subseteq 0..IntMax /\ PeekLengths \subseteq Lengths
ASSUME OffsetsAssumption == Offsets \subseteq Int
ASSUME BufferAssumption == NetLen \in Nat \ {0} /\ IntMax \in Nat /\ MaxPage \in Nat
ASSUME FitAssumption == \A s \in Sizes : s <= IntMax
ASSUME BoundsAssumption == MaxCached \in 0..IntMax /\ MaxChanges \in Nat

Alien == 0

VARIABLES
  exports,    \* _exportURLs is not empty: the file is a document
  remoteLen,  \* the file's length in the cloud
  changes,    \* how often it has changed there
  fileSize,   \* _file->_fileSize
  cursor,     \* _openCursor
  cache,      \* the bytes in _cache
  cachedSize, \* _cachedFileSize
  answer,     \* what the last packet was answered with, and the bytes
              \* that were written to the client's buffer
  spoiled,    \* the cloud gave an answer other than it was asked for, or a
              \* program a length that overflows
  undefined   \* memory was used that is not there

vars == <<exports, remoteLen, changes, fileSize, cursor, cache, cachedSize,
          answer, spoiled, undefined>>
file == <<exports, remoteLen, changes, fileSize>>

F == INSTANCE FileService
       WITH size <- IF ~exports THEN fileSize
                    ELSE IF cachedSize = 0 THEN Unknown ELSE cachedSize,
            pos <- IF exports /\ cachedSize = 0 THEN 0 ELSE cursor

Bytes == Seq(Nat)

TypeOK ==
  /\ exports \in BOOLEAN
  /\ remoteLen \in Sizes /\ fileSize \in Sizes \cup {0} /\ changes \in 0..MaxChanges
  /\ cursor \in Int
  /\ cache \in Bytes
  /\ cachedSize \in {0, Len(cache)}
  /\ answer \in [result : Int, bytes : Bytes]
  /\ spoiled \in BOOLEAN /\ undefined \in BOOLEAN

(* __open: only what has a size or can be exported is opened.              *)
Init ==
  /\ remoteLen \in Sizes
  /\ exports \in BOOLEAN
  /\ fileSize = IF exports THEN 0 ELSE remoteLen
  /\ exports \/ fileSize # 0
  /\ cursor = 0 /\ cache = <<>> /\ cachedSize = 0
  /\ answer = F!Answer(0, <<>>)
  /\ changes = 0 /\ spoiled = FALSE /\ undefined = FALSE

-----------------------------------------------------------------------------
(***************************************************************************)
(* The arithmetic of int.                                                  *)
(***************************************************************************)
Wrap(x) == ((x + IntMax + 1) % (2 * (IntMax + 1))) - (IntMax + 1)
Overflows(x) == x \notin (-IntMax - 1)..IntMax

(* How much of a read of n bytes at c lies in a content of the given size. *)
AskedFor(n, c, size) == n                                  \* mutant of Clipped
Clipped(n, c, size) ==
  IF Wrap(c + n) <= size THEN n
  ELSE IF c < size THEN Wrap(size - c) ELSE 0

-----------------------------------------------------------------------------
(***************************************************************************)
(* The cloud.  It serves a range as far as the file goes; it answers a     *)
(* range it does not understand with the whole file; and anything may come *)
(* as a page of an error, which curl takes for data.                       *)
(***************************************************************************)
Pages == {[i \in 1..k |-> Alien] : k \in 0..MaxPage}
WholeFile == F!Stretch(0, remoteLen)

Understood(start, n) == start >= 0 /\ Wrap(start + n - 1) >= start
Served(start, n) ==
  IF ~Understood(start, n) THEN {WholeFile}
  ELSE IF start < remoteLen THEN {F!Stretch(start, F!Nearer(start + n, remoteLen))}
  ELSE {}
Answers(start, n) == Served(start, n) \cup Pages

Change ==
  /\ changes < MaxChanges
  /\ remoteLen' \in Sizes /\ changes' = changes + 1
  /\ UNCHANGED <<exports, fileSize, cursor, cache, cachedSize, answer, spoiled, undefined>>

-----------------------------------------------------------------------------
(***************************************************************************)
(* __seek                                                                  *)
(***************************************************************************)
Size == IF fileSize # 0 THEN fileSize ELSE cachedSize

NotBelow(c) == IF c < 0 THEN 0 ELSE c                     \* mutant of Clamped
Clamped(c) == IF c < 0 THEN 0 ELSE IF c > Size THEN Size ELSE c

SeekEmpty ==
  /\ Size = 0
  /\ answer' = F!Answer(-1, <<>>)
  /\ UNCHANGED <<file, cursor, cache, cachedSize, spoiled, undefined>>

(* From the beginning, from the cursor or from the end.                    *)
Seek ==
  /\ Size # 0
  /\ \E base \in {0, cursor, Size}, offset \in Offsets :
       /\ cursor' = Clamped(Wrap(base + offset))
       /\ spoiled' = (spoiled \/ Overflows(base + offset))
  /\ answer' = F!Answer(cursor, <<>>)
  /\ UNCHANGED <<file, cache, cachedSize, undefined>>

-----------------------------------------------------------------------------
(***************************************************************************)
(* __read of a file whose size is known.  A short range goes through the   *)
(* I/O buffer, a long one into the client's own.  An answer that does not  *)
(* fit is an error of curl; the length of one that fits is not looked at.  *)
(***************************************************************************)
Capacity(n) == IF n >= NetLen THEN n ELSE NetLen

NothingLeft(n) ==
  /\ fileSize # 0 /\ Clipped(n, cursor, fileSize) = 0
  /\ answer' = F!Answer(0, <<>>)
  /\ UNCHANGED <<file, cursor, cache, cachedSize, spoiled, undefined>>

DownloadFails(n) ==
  /\ fileSize # 0 /\ Clipped(n, cursor, fileSize) # 0
  /\ answer' = F!Answer(-1, <<>>)
  /\ UNCHANGED <<file, cursor, cache, cachedSize, spoiled, undefined>>

Download(n) ==
  /\ fileSize # 0
  /\ LET part == Clipped(n, cursor, fileSize) IN
       /\ part # 0
       /\ \E bytes \in Answers(cursor, part) :
            /\ Len(bytes) <= Capacity(part)
            /\ answer' = F!Answer(part, bytes)
            /\ spoiled' = (spoiled \/ Overflows(cursor + n)
                             \/ bytes # F!Stretch(cursor, cursor + part))
       /\ cursor' = Wrap(cursor + part)
  /\ UNCHANGED <<file, cache, cachedSize, undefined>>

-----------------------------------------------------------------------------
(***************************************************************************)
(* __read of a document.                                                   *)
(***************************************************************************)
NeedsExportAtStart == cachedSize = 0 \/ cursor = 0      \* mutant of NeedsExport
NeedsExport == cachedSize = 0

(* Workbench, Directory Opus and Ambient peek into every file of a folder. *)
Peek(n) ==
  /\ fileSize = 0 /\ NeedsExport /\ cursor = 0
  /\ n \in PeekLengths
  /\ answer' = F!Answer(n, <<>>)
  /\ UNCHANGED <<file, cursor, cache, cachedSize, spoiled, undefined>>

(* A file that was emptied after it was opened has no address to export    *)
(* it from: Google Drive follows _exportURLs[0], which is not there, unless *)
(* it has no token; Dropbox exports nothing.                               *)
ExportFromNowhere ==
  /\ fileSize = 0 /\ NeedsExport /\ ~exports
  /\ \/ undefined' = TRUE /\ UNCHANGED answer
     \/ answer' = F!Answer(-1, <<>>) /\ UNCHANGED undefined
  /\ UNCHANGED <<file, cursor, cache, cachedSize, spoiled>>

(* What arrives is stored behind the cursor; what has arrived when the     *)
(* export breaks off stays there.                                          *)
ExportFails ==
  /\ fileSize = 0 /\ NeedsExport /\ exports
  /\ \E k \in 0..remoteLen :
       /\ Len(cache) + k <= MaxCached
       /\ cache' = cache \o F!Stretch(0, k)
       /\ cursor' = cursor + k
       /\ spoiled' = (spoiled \/ k # 0)
  /\ answer' = F!Answer(-1, <<>>)
  /\ UNCHANGED <<file, cachedSize, undefined>>

(* readData, from cursor c of a cache with the given bytes.                *)
ReadCached(c, bytes, n) ==
  LET part == Clipped(n, c, Len(bytes)) IN
    IF part # 0 /\ c + part > Len(bytes)
      THEN undefined' = TRUE /\ UNCHANGED <<cursor, answer>>
      ELSE /\ cursor' = c + part
           /\ answer' = F!Answer(part, SubSeq(bytes, c + 1, c + part))
           /\ UNCHANGED undefined

Unrewound(c) == c                                          \* mutant of Rewound
Rewound(c) == 0
LastPart(bytes) == Len(bytes)                            \* mutant of AllStored
AllStored(bytes) == cursor + Len(bytes)

Export(n) ==
  /\ fileSize = 0 /\ NeedsExport /\ exports
  /\ \E bytes \in {WholeFile} \cup Pages :
       /\ Len(cache) + Len(bytes) <= MaxCached
       /\ cache' = cache \o bytes
       /\ cachedSize' = AllStored(bytes)
       /\ spoiled' = (spoiled \/ bytes # WholeFile)
       /\ ReadCached(Rewound(cachedSize'), cache', n)
  /\ UNCHANGED file

ReadAgain(n) ==
  /\ fileSize = 0 /\ ~NeedsExport
  /\ ReadCached(cursor, cache, n)
  /\ spoiled' = (spoiled \/ Overflows(cursor + n))
  /\ UNCHANGED <<file, cache, cachedSize>>

Read(n) ==
  \/ NothingLeft(n) \/ DownloadFails(n) \/ Download(n)
  \/ Peek(n) \/ ExportFromNowhere \/ ExportFails \/ Export(n) \/ ReadAgain(n)

-----------------------------------------------------------------------------
(* A rename of the open file takes its size from the cloud's answer        *)
(* (updateFile, processFile).                                              *)
Rename ==
  /\ ~exports /\ remoteLen # fileSize
  /\ fileSize' = remoteLen
  /\ spoiled' = (spoiled \/ remoteLen = 0)
  /\ UNCHANGED <<exports, remoteLen, changes, cursor, cache, cachedSize, answer, undefined>>

Next ==
  /\ ~undefined
  /\ SeekEmpty \/ Seek \/ Rename \/ Change \/ \E n \in Lengths : Read(n)

Spec == Init /\ [][Next]_vars

-----------------------------------------------------------------------------
(***************************************************************************)
(* Properties.                                                             *)
(***************************************************************************)

(* Programs see a file with a position: every read gives the bytes from    *)
(* there on and moves it by as many, a failed one leaves it, and the       *)
(* export behind a document's first read does not show (__read, __seek).   *)
ImplementsFileService == F!Spec

(* What is cached of a document is the document from its first byte on,    *)
(* once, however often its first read has failed before a byte had come    *)
(* (__read, exportFile).                                                   *)
CacheIsDocument == ~spoiled => cache = F!Stretch(0, cachedSize)

(* The position never leaves the file, unless the file has become shorter  *)
(* in the cloud and a rename has noticed (__seek).                         *)
PositionInFile ==
  /\ ~spoiled => cursor >= 0
  /\ ~spoiled /\ changes = 0 => cursor <= Size

(* Memory that is not there is used only after the cloud has given another *)
(* file than it promised, or a program a length that overflows with the    *)
(* cursor (_exportURLs[0], readData).                                      *)
DefinedUnlessSpoiled == undefined => spoiled
=============================================================================
