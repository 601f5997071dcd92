--------------------------- MODULE Reading_proofs ---------------------------
(***************************************************************************)
(* Proofs about Reading, for files, reads and seeks of any lengths and any *)
(* width of an int.                                                        *)
(***************************************************************************)
EXTENDS Reading, SequenceTheorems, TLAPS

(* A file has a size and no cache, a document a cache and no size.  Until  *)
(* a document is exported the cursor is where the next byte is stored.     *)
FileInv ==
  /\ exports => fileSize = 0
  /\ ~exports => cache = <<>> /\ cachedSize = 0
  /\ ~exports /\ changes = 0 => fileSize = remoteLen
  /\ ~exports /\ fileSize = 0 => spoiled
  /\ exports => cursor \in 0..Len(cache)
  /\ exports /\ cachedSize = 0 => cursor = Len(cache)
  /\ Len(cache) <= MaxCached

IInv == TypeOK /\ FileInv /\ CacheIsDocument /\ PositionInFile /\ DefinedUnlessSpoiled

-----------------------------------------------------------------------------
(***************************************************************************)
(* Numbers and bytes.                                                      *)
(***************************************************************************)
LEMMA Small == ASSUME NEW a \in Nat, NEW b \in Nat, a < b PROVE a % b = a
OBVIOUS

LEMMA WrapKeeps == ASSUME NEW x \in Int, ~Overflows(x) PROVE Wrap(x) = x
<1>1. IntMax \in Nat
  BY BufferAssumption
<1>2. x + IntMax + 1 \in Nat /\ 2 * (IntMax + 1) \in Nat /\ x + IntMax + 1 < 2 * (IntMax + 1)
  BY <1>1 DEF Overflows
<1>3. (x + IntMax + 1) % (2 * (IntMax + 1)) = x + IntMax + 1
  BY <1>2, Small
<1> QED
  BY <1>1, <1>3 DEF Wrap

LEMMA WrapInt == ASSUME NEW x \in Int PROVE Wrap(x) \in Int /\ ~Overflows(Wrap(x))
<1> DEFINE a == x + IntMax + 1
           b == 2 * (IntMax + 1)
<1>1. IntMax \in Nat /\ a \in Int /\ b \in Nat \ {0}
  BY BufferAssumption
<1>2. a % b \in 0..(b - 1)
  <2> HIDE DEF a, b
  <2> QED
    BY <1>1
<1>3. Wrap(x) = (a % b) - (IntMax + 1)
  BY DEF Wrap
<1>4. b = 2 * IntMax + 2
  BY <1>1
<1> HIDE DEF a, b
<1> QED
  BY <1>1, <1>2, <1>3, <1>4 DEF Overflows

LEMMA StretchIs ==
  ASSUME NEW a \in Nat, NEW b \in Nat, a <= b
  PROVE  /\ F!Stretch(a, b) \in Bytes
         /\ Len(F!Stretch(a, b)) = b - a
         /\ \A i \in 1..(b - a) : F!Stretch(a, b)[i] = a + i
<1>1. F!Stretch(a, b) \in [1..(b - a) -> Nat]
  BY DEF F!Stretch
<1> QED
  BY <1>1 DEF F!Stretch, Bytes

LEMMA PagesAreBytes == ASSUME NEW p \in Pages PROVE p \in Bytes
<1>1. PICK k \in 0..MaxPage : p = [i \in 1..k |-> Alien]
  BY DEF Pages
<1>2. p \in [1..k -> Nat] /\ k \in Nat
  BY <1>1, BufferAssumption DEF Alien
<1> QED
  BY <1>2 DEF Bytes


LEMMA Constants ==
  /\ IntMax \in Nat /\ MaxCached \in 0..IntMax
  /\ \A n \in Lengths : n \in 0..IntMax
  /\ \A n \in Sizes : n \in 0..IntMax
  /\ \A o \in Offsets : o \in Int
BY BufferAssumption, BoundsAssumption, LengthsAssumption, SizesAssumption, FitAssumption, OffsetsAssumption

(* How much is read, and that only an overflow reads over the end.         *)
LEMMA ClippedIs ==
  ASSUME NEW n \in 0..IntMax, NEW c \in Int, NEW size \in 0..IntMax
  PROVE  /\ Clipped(n, c, size) \in Int
         /\ c >= 0 => Clipped(n, c, size) \in 0..IntMax
         /\ c >= 0 /\ Clipped(n, c, size) # 0 /\ c + Clipped(n, c, size) > size => Overflows(c + n)
         /\ c >= 0 /\ ~Overflows(c + n) =>
              c + Clipped(n, c, size) = IF c < size THEN F!Nearer(c + n, size) ELSE c
<1>1. IntMax \in Nat /\ n \in Int /\ size \in Int
  BY Constants
<1>2. Wrap(size - c) \in Int
  BY <1>1, WrapInt
<1>3. c >= 0 /\ c < size => Wrap(size - c) = size - c
  <2> SUFFICES ASSUME c >= 0, c < size PROVE Wrap(size - c) = size - c
    OBVIOUS
  <2>1. size - c \in Int /\ ~Overflows(size - c)
    BY <1>1 DEF Overflows
  <2> QED
    BY <2>1, WrapKeeps
<1>4. ~Overflows(c + n) => Wrap(c + n) = c + n
  BY <1>1, WrapKeeps
<1>5. Wrap(c + n) \in Int
  BY <1>1, WrapInt
<1> DEFINE w == Wrap(c + n)  part == Clipped(n, c, size)
<1>6. part = IF w <= size THEN n ELSE IF c < size THEN Wrap(size - c) ELSE 0
  BY DEF Clipped
<1> HIDE DEF w, part
<1>7. part \in Int /\ (c >= 0 => part \in 0..IntMax)
  BY <1>1, <1>2, <1>3, <1>6
<1>8. c >= 0 /\ part # 0 /\ c + part > size => Overflows(c + n)
  BY <1>1, <1>3, <1>4, <1>6 DEF w
<1>9. c >= 0 /\ ~Overflows(c + n) => c + part = IF c < size THEN F!Nearer(c + n, size) ELSE c
  BY <1>1, <1>3, <1>4, <1>6 DEF w, F!Nearer
<1> QED
  BY <1>7, <1>8, <1>9 DEF part

LEMMA SubSeqIs ==
  ASSUME NEW s \in Bytes, NEW c \in Nat, NEW d \in Nat, c <= d, d <= Len(s)
  PROVE  /\ SubSeq(s, c + 1, d) \in Bytes
         /\ Len(SubSeq(s, c + 1, d)) = d - c
         /\ \A i \in 1..(d - c) : SubSeq(s, c + 1, d)[i] = s[c + i]
<1>1. \A i \in (c + 1)..d : s[i] \in Nat
  BY DEF Bytes
<1>2. Len(s) \in Nat
  BY DEF Bytes
<1>3. SubSeq(s, c + 1, d) \in Seq(Nat) /\ Len(SubSeq(s, c + 1, d)) = d - c
  BY <1>1, <1>2 DEF Bytes
<1>4. \A i \in 1..(d - c) : SubSeq(s, c + 1, d)[i] = s[c + i]
  BY <1>2 DEF Bytes
<1> QED
  BY <1>3, <1>4 DEF Bytes

LEMMA ReadCachedIs ==
  ASSUME NEW c \in Nat, NEW bytes \in Bytes, NEW n \in Lengths, c <= Len(bytes), Len(bytes) <= MaxCached,
         ReadCached(c, bytes, n), cursor \in Int
  PROVE  \/ undefined' = TRUE /\ Overflows(c + n) /\ UNCHANGED <<cursor, answer>>
         \/ /\ UNCHANGED undefined
            /\ cursor' \in 0..Len(bytes) /\ c <= cursor'
            /\ answer' = F!Answer(cursor' - c, SubSeq(bytes, c + 1, cursor'))
            /\ answer' \in [result : Int, bytes : Bytes]
            /\ ~Overflows(c + n) =>
                 cursor' = IF c < Len(bytes) THEN F!Nearer(c + n, Len(bytes)) ELSE c
<1> DEFINE part == Clipped(n, c, Len(bytes))
<1>1. Len(bytes) \in 0..IntMax /\ n \in 0..IntMax
  BY Constants DEF Bytes
<1>2. /\ part \in Nat
      /\ part # 0 /\ c + part > Len(bytes) => Overflows(c + n)
      /\ ~Overflows(c + n) => c + part = IF c < Len(bytes) THEN F!Nearer(c + n, Len(bytes)) ELSE c
  <2>1. /\ part \in Int
        /\ c >= 0 => part \in 0..IntMax
        /\ c >= 0 /\ part # 0 /\ c + part > Len(bytes) => Overflows(c + n)
        /\ c >= 0 /\ ~Overflows(c + n) =>
             c + part = IF c < Len(bytes) THEN F!Nearer(c + n, Len(bytes)) ELSE c
    <3>1. c \in Int
      OBVIOUS
    <3> QED
      BY <1>1, <3>1, ClippedIs
  <2> HIDE DEF part
  <2> QED
    BY <2>1, Constants
<1>3. IF part # 0 /\ c + part > Len(bytes)
        THEN undefined' = TRUE /\ UNCHANGED <<cursor, answer>>
        ELSE /\ cursor' = c + part
             /\ answer' = F!Answer(part, SubSeq(bytes, c + 1, c + part))
             /\ UNCHANGED undefined
  BY DEF ReadCached
<1> HIDE DEF part
<1>4. CASE part # 0 /\ c + part > Len(bytes)
  BY <1>2, <1>3, <1>4
<1>5. CASE ~(part # 0 /\ c + part > Len(bytes))
  <2>1. cursor' = c + part /\ cursor' \in 0..Len(bytes) /\ c <= cursor' /\ part = cursor' - c
    BY <1>1, <1>2, <1>3, <1>5
  <2>2. SubSeq(bytes, c + 1, cursor') \in Bytes
    BY <1>1, <2>1, SubSeqIs
  <2>3. answer' = F!Answer(cursor' - c, SubSeq(bytes, c + 1, cursor')) /\ UNCHANGED undefined
    BY <1>3, <1>5, <2>1
  <2>4. answer' \in [result : Int, bytes : Bytes]
    BY <1>1, <2>1, <2>2, <2>3 DEF F!Answer
  <2> QED
    BY <1>2, <2>1, <2>3, <2>4
<1> QED
  BY <1>4, <1>5

LEMMA AnswersAreBytes ==
  ASSUME TypeOK, NEW start \in Int, NEW n \in Int, NEW bytes \in Answers(start, n)
  PROVE  bytes \in Bytes
<1>1. remoteLen \in Nat
  BY Constants DEF TypeOK
<1>2. WholeFile \in Bytes
  BY <1>1, StretchIs DEF WholeFile
<1>3. CASE bytes \in Pages
  BY <1>3, PagesAreBytes
<1>4. CASE bytes \in Served(start, n)
  <2>1. CASE ~Understood(start, n)
    BY <1>2, <1>4, <2>1 DEF Served
  <2>2. CASE Understood(start, n) /\ start < remoteLen
    <3>1. start \in Nat /\ Wrap(start + n - 1) >= start
      BY <2>2 DEF Understood
    <3>2. bytes = F!Stretch(start, F!Nearer(start + n, remoteLen))
      BY <1>4, <2>2 DEF Served
    <3>3. bytes = [i \in 1..(F!Nearer(start + n, remoteLen) - start) |-> start + i]
      BY <3>2 DEF F!Stretch
    <3> DEFINE d == F!Nearer(start + n, remoteLen) - start
    <3>4. d \in Int
      BY <1>1, <3>1 DEF F!Nearer
    <3>5. bytes = [i \in 1..d |-> start + i]
      BY <3>3
    <3> HIDE DEF d
    <3>6. 1..d = 1..(IF d >= 0 THEN d ELSE 0) /\ (IF d >= 0 THEN d ELSE 0) \in Nat
      BY <3>4
    <3>7. bytes \in [1..(IF d >= 0 THEN d ELSE 0) -> Nat]
      BY <3>1, <3>5, <3>6
    <3> QED
      BY <3>6, <3>7 DEF Bytes
  <2>3. CASE Understood(start, n) /\ ~(start < remoteLen)
    BY <1>4, <2>3 DEF Served
  <2> QED
    BY <2>1, <2>2, <2>3
<1> QED
  BY <1>3, <1>4 DEF Answers

-----------------------------------------------------------------------------
(***************************************************************************)
(* Every step keeps IInv.                                                  *)
(***************************************************************************)
LEMMA AnswersAre == ASSUME NEW r \in Int, NEW bytes \in Bytes PROVE F!Answer(r, bytes) \in [result : Int, bytes : Bytes]
BY DEF F!Answer

LEMMA NoBytes == <<>> \in Bytes
<1>1. <<>> \in Seq(Nat) /\ Len(<<>>) = 0
  OBVIOUS
<1> QED
  BY <1>1 DEF Bytes

LEMMA EmptyStretch == F!Stretch(0, 0) = <<>>
<1>1. F!Stretch(0, 0) \in Seq(Nat) /\ Len(F!Stretch(0, 0)) = 0
  BY StretchIs DEF Bytes
<1> QED
  BY <1>1, EmptySeq

LEMMA InitInv == Init => IInv
<1> SUFFICES ASSUME Init PROVE IInv
  OBVIOUS
<1> USE DEF Init
<1>1. TypeOK
  <2>1. remoteLen \in Sizes /\ remoteLen \in Nat
    BY Constants
  <2>2. exports => 0 = fileSize
    OBVIOUS
  <2> QED
    <3>1. answer \in [result : Int, bytes : Bytes]
      BY AnswersAre, NoBytes
    <3>2. cachedSize \in {0, Len(cache)} /\ cache \in Bytes
      BY NoBytes
    <3> QED
      <4>1. fileSize \in Sizes \cup {0} /\ changes \in 0..MaxChanges /\ cursor \in Int
        BY <2>1, <2>2, BoundsAssumption
      <4>2. exports \in BOOLEAN /\ spoiled \in BOOLEAN /\ undefined \in BOOLEAN
        OBVIOUS
      <4> QED
        BY <2>1, <3>1, <3>2, <4>1, <4>2 DEF TypeOK
<1>2. FileInv
  BY BoundsAssumption DEF FileInv
<1>3. CacheIsDocument
  BY EmptyStretch DEF CacheIsDocument
<1>4. PositionInFile /\ DefinedUnlessSpoiled
  BY Constants DEF PositionInFile, DefinedUnlessSpoiled, Size
<1> QED
  BY <1>1, <1>2, <1>3, <1>4 DEF IInv

LEMMA SizeIs ==
  ASSUME IInv
  PROVE  /\ fileSize \in 0..IntMax /\ remoteLen \in 0..IntMax
         /\ Len(cache) \in 0..IntMax /\ cachedSize \in 0..IntMax
         /\ Size \in 0..IntMax
         /\ cursor \in Int
         /\ exports => Size = cachedSize /\ fileSize = 0
         /\ ~exports => Size = fileSize /\ cachedSize = 0
<1> USE DEF IInv, TypeOK, FileInv
<1>1. fileSize \in 0..IntMax /\ remoteLen \in 0..IntMax
  BY Constants
<1>2. Len(cache) \in 0..IntMax /\ cachedSize \in 0..IntMax
  BY Constants DEF Bytes
<1> QED
  BY <1>1, <1>2 DEF Size

LEMMA SeekEmptyInv == IInv /\ SeekEmpty => IInv'
<1> SUFFICES ASSUME IInv, SeekEmpty PROVE IInv'
  OBVIOUS
<1>1. answer' \in [result : Int, bytes : Bytes]
  BY DEF SeekEmpty, F!Answer, Bytes
<1> QED
  BY <1>1 DEF IInv, TypeOK, FileInv, CacheIsDocument, PositionInFile, DefinedUnlessSpoiled, Size, SeekEmpty, file

LEMMA ClampedIs == ASSUME IInv, NEW x \in Int PROVE Clamped(x) \in 0..Size
BY SizeIs DEF Clamped

LEMMA SeekInv == IInv /\ Seek => IInv'
<1> SUFFICES ASSUME IInv, Seek PROVE IInv'
  OBVIOUS
<1>1. PICK base \in {0, cursor, Size}, offset \in Offsets :
        /\ cursor' = Clamped(Wrap(base + offset))
        /\ spoiled' = (spoiled \/ Overflows(base + offset))
  BY DEF Seek
<1>2. base + offset \in Int
  BY SizeIs, Constants
<1>3. cursor' \in 0..Size
  BY <1>1, <1>2, WrapInt, ClampedIs
<1>4. answer' = F!Answer(cursor, <<>>) /\ UNCHANGED <<file, cache, cachedSize, undefined>> /\ Size # 0
  BY DEF Seek
<1>5. answer' \in [result : Int, bytes : Bytes]
  BY <1>4, SizeIs DEF F!Answer, Bytes
<1>6. TypeOK'
  BY <1>1, <1>3, <1>4, <1>5, SizeIs DEF IInv, TypeOK, file
<1>7. FileInv'
  BY <1>1, <1>3, <1>4, SizeIs DEF IInv, TypeOK, FileInv, file
<1>8. CacheIsDocument' /\ DefinedUnlessSpoiled'
  BY <1>1, <1>4 DEF IInv, CacheIsDocument, DefinedUnlessSpoiled
<1>9. PositionInFile'
  <2>1. Size' = Size
    BY <1>4 DEF Size, file
  <2> QED
    BY <1>3, <2>1, SizeIs DEF PositionInFile
<1> QED
  BY <1>6, <1>7, <1>8, <1>9 DEF IInv

(* A read that gives no byte of the file and moves nothing.                *)
Unmoved == UNCHANGED <<file, cursor, cache, cachedSize, spoiled, undefined>>

LEMMA UnmovedInv ==
  ASSUME IInv, Unmoved, answer' \in [result : Int, bytes : Bytes] PROVE IInv'
BY DEF IInv, TypeOK, FileInv, CacheIsDocument, PositionInFile, DefinedUnlessSpoiled, Size, Unmoved, file

LEMMA NothingReadInv ==
  ASSUME IInv, NEW n \in Lengths, NothingLeft(n) \/ DownloadFails(n) \/ Peek(n) PROVE IInv'
<1>1. n \in Int
  BY Constants
<1>2. Unmoved
  BY DEF Unmoved, NothingLeft, DownloadFails, Peek
<1>3. PICK r \in {0, -1, n} : answer' = F!Answer(r, <<>>)
  BY DEF NothingLeft, DownloadFails, Peek
<1>4. answer' \in [result : Int, bytes : Bytes]
  BY <1>1, <1>3, AnswersAre, NoBytes
<1> QED
  BY <1>2, <1>4, UnmovedInv

LEMMA DownloadInv == ASSUME IInv, NEW n \in Lengths, Download(n) PROVE IInv'
<1> DEFINE part == Clipped(n, cursor, fileSize)
<1>1. n \in 0..IntMax /\ cursor \in Int /\ fileSize \in 0..IntMax /\ IntMax \in Nat
  BY Constants, SizeIs
<1>2. /\ part \in Int
      /\ cursor >= 0 => part \in 0..IntMax
      /\ cursor >= 0 /\ part # 0 /\ cursor + part > fileSize => Overflows(cursor + n)
  BY <1>1, ClippedIs
<1>3. PICK bytes \in Answers(cursor, part) :
        /\ answer' = F!Answer(part, bytes)
        /\ spoiled' = (spoiled \/ Overflows(cursor + n) \/ bytes # F!Stretch(cursor, cursor + part))
  BY DEF Download
<1>4. /\ fileSize # 0 /\ part # 0 /\ cursor' = Wrap(cursor + part)
      /\ UNCHANGED <<file, cache, cachedSize, undefined>>
  BY DEF Download
<1> HIDE DEF part
<1>5. bytes \in Bytes
  BY <1>1, <1>2, AnswersAreBytes DEF IInv
<1>6. cursor' \in Int
  BY <1>1, <1>2, <1>4, WrapInt
<1>7. TypeOK'
  BY <1>2, <1>3, <1>4, <1>5, <1>6 DEF IInv, TypeOK, file, F!Answer
<1>8. ~exports /\ ~exports'
  BY <1>4 DEF IInv, FileInv, file
<1>9. FileInv'
  BY <1>3, <1>4, <1>8 DEF IInv, FileInv, file
<1>10. CacheIsDocument' /\ DefinedUnlessSpoiled'
  BY <1>3, <1>4 DEF IInv, CacheIsDocument, DefinedUnlessSpoiled
<1>11. PositionInFile'
  <2> SUFFICES ASSUME ~spoiled' PROVE cursor' >= 0 /\ cursor' <= fileSize /\ Size' = fileSize
    BY DEF PositionInFile
  <2>1. ~spoiled /\ ~Overflows(cursor + n)
    BY <1>3
  <2>2. cursor >= 0 /\ cursor + part \in 0..fileSize
    BY <1>1, <1>2, <1>4, <2>1 DEF IInv, PositionInFile
  <2>3. ~Overflows(cursor + part)
    BY <1>1, <2>2 DEF Overflows
  <2>4. cursor' = cursor + part
    BY <1>4, <2>2, <2>3, WrapKeeps
  <2>5. Size' = fileSize
    BY <1>4 DEF Size, file
  <2> QED
    BY <1>1, <2>2, <2>4, <2>5
<1> QED
  BY <1>7, <1>9, <1>10, <1>11 DEF IInv

LEMMA FromNowhereInv == IInv /\ ExportFromNowhere => IInv'
<1> SUFFICES ASSUME IInv, ExportFromNowhere PROVE IInv'
  OBVIOUS
<1>1. spoiled
  BY DEF IInv, FileInv, ExportFromNowhere
<1>2. answer' \in [result : Int, bytes : Bytes] /\ undefined' \in BOOLEAN
  <2>1. F!Answer(-1, <<>>) \in [result : Int, bytes : Bytes]
    BY AnswersAre, NoBytes
  <2>2. CASE undefined' = TRUE /\ UNCHANGED answer
    BY <2>2 DEF IInv, TypeOK
  <2>3. CASE answer' = F!Answer(-1, <<>>) /\ UNCHANGED undefined
    BY <2>1, <2>3 DEF IInv, TypeOK
  <2> QED
    BY <2>2, <2>3 DEF ExportFromNowhere
<1> QED
  BY <1>1, <1>2 DEF IInv, TypeOK, FileInv, CacheIsDocument, PositionInFile, DefinedUnlessSpoiled, Size, ExportFromNowhere, file

(* What a document's export appends.                                       *)
LEMMA CacheGrows ==
  ASSUME IInv, NEW bytes \in Bytes, cache' = cache \o bytes
  PROVE  cache' \in Bytes /\ Len(cache') = Len(cache) + Len(bytes) /\ Len(bytes) \in Nat /\ Len(cache) \in Nat
BY DEF IInv, TypeOK, Bytes

LEMMA ExportFailsInv == IInv /\ ExportFails => IInv'
<1> SUFFICES ASSUME IInv, ExportFails PROVE IInv'
  OBVIOUS
<1>1. PICK k \in 0..remoteLen :
        /\ Len(cache) + k <= MaxCached
        /\ cache' = cache \o F!Stretch(0, k)
        /\ cursor' = cursor + k
        /\ spoiled' = (spoiled \/ k # 0)
  BY DEF ExportFails
<1>2. /\ fileSize = 0 /\ cachedSize = 0 /\ exports
      /\ answer' = F!Answer(-1, <<>>)
      /\ UNCHANGED <<file, cachedSize, undefined>>
  BY DEF ExportFails, NeedsExport
<1>3. k \in Nat
  BY SizeIs
<1>4. F!Stretch(0, k) \in Bytes /\ Len(F!Stretch(0, k)) = k
  <2>1. 0 \in Nat /\ 0 <= k /\ k - 0 = k
    BY <1>3
  <2> QED
    BY <1>3, <2>1, StretchIs
<1>5. cache' \in Bytes /\ Len(cache') = Len(cache) + k /\ Len(cache) \in Nat
  BY <1>1, <1>4, CacheGrows
<1>6. cursor = Len(cache)
  BY <1>2 DEF IInv, FileInv
<1>7. TypeOK'
  BY <1>1, <1>2, <1>3, <1>5, <1>6 DEF IInv, TypeOK, file, F!Answer, Bytes
<1>8. FileInv'
  BY <1>1, <1>2, <1>3, <1>5, <1>6 DEF IInv, FileInv, file
<1>9. CacheIsDocument'
  <2> SUFFICES ASSUME ~spoiled' PROVE cache' = F!Stretch(0, cachedSize')
    BY DEF CacheIsDocument
  <2>1. ~spoiled /\ k = 0
    BY <1>1
  <2>2. cache = <<>>
    BY <1>2, <2>1, EmptyStretch DEF IInv, CacheIsDocument
  <2>3. cache' = <<>>
    BY <1>1, <2>1, <2>2, EmptyStretch
  <2> QED
    BY <1>2, <2>3, EmptyStretch
<1>10. PositionInFile'
  <2> SUFFICES ASSUME ~spoiled' PROVE cursor' = cursor /\ Size' = Size /\ ~spoiled /\ changes' = changes
    BY DEF PositionInFile, IInv
  <2> QED
    <3>1. ~spoiled /\ k = 0
      BY <1>1
    <3>2. cursor' = cursor
      BY <1>1, <1>5, <1>6, <3>1
    <3> QED
      BY <1>2, <3>1, <3>2 DEF Size, file
<1>11. DefinedUnlessSpoiled'
  BY <1>1, <1>2 DEF IInv, DefinedUnlessSpoiled
<1> QED
  BY <1>7, <1>8, <1>9, <1>10, <1>11 DEF IInv

LEMMA ExportInv == ASSUME IInv, NEW n \in Lengths, Export(n) PROVE IInv'
<1>1. PICK bytes \in {WholeFile} \cup Pages :
        /\ Len(cache) + Len(bytes) <= MaxCached
        /\ cache' = cache \o bytes
        /\ cachedSize' = AllStored(bytes)
        /\ spoiled' = (spoiled \/ bytes # WholeFile)
        /\ ReadCached(Rewound(cachedSize'), cache', n)
  BY DEF Export
<1>2. fileSize = 0 /\ cachedSize = 0 /\ exports /\ UNCHANGED file
  BY DEF Export, NeedsExport
<1>3. bytes \in Bytes
  BY StretchIs, SizeIs, PagesAreBytes DEF WholeFile
<1>4. cache' \in Bytes /\ Len(cache') = Len(cache) + Len(bytes) /\ Len(bytes) \in Nat /\ Len(cache) \in Nat
  BY <1>1, <1>3, CacheGrows
<1>5. cursor = Len(cache) /\ cachedSize' = Len(cache') /\ Len(cache') <= MaxCached
  BY <1>1, <1>2, <1>4 DEF IInv, FileInv, AllStored
<1>6. ReadCached(0, cache', n)
  BY <1>1 DEF Rewound
<1>7. ~Overflows(0 + n) /\ 0 \in Nat
  BY Constants DEF Overflows
<1>8. /\ UNCHANGED undefined
      /\ cursor' \in 0..Len(cache')
      /\ answer' \in [result : Int, bytes : Bytes]
  <2>1. 0 <= Len(cache') /\ cursor \in Int
    BY <1>4, SizeIs
  <2>2. \/ undefined' = TRUE /\ Overflows(0 + n) /\ UNCHANGED <<cursor, answer>>
        \/ /\ UNCHANGED undefined
           /\ cursor' \in 0..Len(cache')
           /\ answer' \in [result : Int, bytes : Bytes]
    BY <1>4, <1>5, <1>6, <1>7, <2>1, ReadCachedIs
  <2> QED
    BY <1>7, <2>2
<1>9. TypeOK'
  BY <1>1, <1>2, <1>4, <1>5, <1>8 DEF IInv, TypeOK, file
<1>10. FileInv'
  BY <1>2, <1>4, <1>5, <1>8 DEF FileInv, IInv, file
<1>11. CacheIsDocument'
  <2> SUFFICES ASSUME ~spoiled' PROVE cache' = F!Stretch(0, cachedSize')
    BY DEF CacheIsDocument
  <2>1. ~spoiled /\ bytes = WholeFile
    BY <1>1
  <2>2. cache = <<>>
    BY <1>2, <2>1, EmptyStretch DEF IInv, CacheIsDocument
  <2>3. cache' = bytes
    BY <1>1, <1>3, <2>2 DEF Bytes
  <2>4. Len(bytes) = remoteLen
    BY <2>1, StretchIs, SizeIs DEF WholeFile
  <2> QED
    BY <1>5, <2>1, <2>3, <2>4 DEF WholeFile
<1>12. PositionInFile'
  <2>1. Size' = Len(cache')
    BY <1>2, <1>5 DEF Size, file
  <2> QED
    BY <1>8, <2>1 DEF PositionInFile
<1>13. DefinedUnlessSpoiled'
  BY <1>1, <1>8 DEF IInv, DefinedUnlessSpoiled
<1> QED
  BY <1>9, <1>10, <1>11, <1>12, <1>13 DEF IInv

(* A second read finds the document cached: an emptied file never gets so  *)
(* far, for its cache stays empty.                                         *)
LEMMA ReadAgainInv == ASSUME IInv, NEW n \in Lengths, ReadAgain(n) PROVE IInv'
<1>1. /\ fileSize = 0 /\ cachedSize # 0
      /\ ReadCached(cursor, cache, n)
      /\ spoiled' = (spoiled \/ Overflows(cursor + n))
      /\ UNCHANGED <<file, cache, cachedSize>>
  BY DEF ReadAgain, NeedsExport
<1>2. exports /\ cachedSize = Len(cache) /\ cursor \in 0..Len(cache) /\ Len(cache) <= MaxCached /\ cache \in Bytes
  BY <1>1 DEF IInv, TypeOK, FileInv
<1>3. \/ undefined' = TRUE /\ Overflows(cursor + n) /\ UNCHANGED <<cursor, answer>>
      \/ /\ UNCHANGED undefined
         /\ cursor' \in 0..Len(cache) /\ cursor <= cursor'
         /\ answer' \in [result : Int, bytes : Bytes]
  <2>1. cursor \in Nat /\ cursor \in Int /\ cursor <= Len(cache)
    BY <1>2, SizeIs
  <2> QED
    BY <1>1, <1>2, <2>1, ReadCachedIs
<1>4. cursor' \in 0..Len(cache) /\ answer' \in [result : Int, bytes : Bytes]
  BY <1>2, <1>3 DEF IInv, TypeOK
<1>5. TypeOK'
  <2>1. cursor' \in Int /\ spoiled' \in BOOLEAN
    BY <1>1, <1>4, SizeIs
  <2>2. undefined' \in BOOLEAN
    BY <1>3 DEF IInv, TypeOK
  <2> QED
    BY <1>1, <1>4, <2>1, <2>2 DEF IInv, TypeOK, file
<1>6. FileInv'
  BY <1>1, <1>2, <1>4 DEF IInv, FileInv, file
<1>7. CacheIsDocument' /\ DefinedUnlessSpoiled'
  <2>1. spoiled => spoiled'
    BY <1>1
  <2>2. undefined' => undefined \/ spoiled'
    BY <1>1, <1>3
  <2> QED
    BY <1>1, <2>1, <2>2 DEF IInv, CacheIsDocument, DefinedUnlessSpoiled
<1>8. PositionInFile'
  <2>1. Size' = Len(cache)
    BY <1>1, <1>2 DEF Size, file
  <2> QED
    BY <1>4, <2>1, SizeIs DEF PositionInFile
<1> QED
  BY <1>5, <1>6, <1>7, <1>8 DEF IInv

LEMMA CloudInv == IInv /\ (Rename \/ Change) => IInv'
<1> SUFFICES ASSUME IInv, Rename \/ Change PROVE IInv'
  OBVIOUS
<1>1. CASE Rename
  BY <1>1, Constants DEF IInv, TypeOK, FileInv, CacheIsDocument, PositionInFile, DefinedUnlessSpoiled, Size, Rename
<1>2. CASE Change
  <2>1. changes' > 0 /\ changes' \in 0..MaxChanges
    BY <1>2, BoundsAssumption DEF Change, IInv, TypeOK
  <2> QED
    BY <1>2, <2>1 DEF IInv, TypeOK, FileInv, CacheIsDocument, PositionInFile, DefinedUnlessSpoiled, Size, Change
<1> QED
  BY <1>1, <1>2

LEMMA StepInv == IInv /\ [Next]_vars => IInv'
<1> SUFFICES ASSUME IInv, [Next]_vars PROVE IInv'
  OBVIOUS
<1>1. CASE SeekEmpty
  BY <1>1, SeekEmptyInv
<1>2. CASE Seek
  BY <1>2, SeekInv
<1>3. CASE Rename \/ Change
  BY <1>3, CloudInv
<1>4. ASSUME NEW n \in Lengths, Read(n) PROVE IInv'
  BY <1>4, NothingReadInv, DownloadInv, FromNowhereInv, ExportFailsInv, ExportInv, ReadAgainInv DEF Read
<1>5. CASE UNCHANGED vars
  BY <1>5 DEF IInv, TypeOK, FileInv, CacheIsDocument, PositionInFile, DefinedUnlessSpoiled, Size, vars
<1> QED
  BY <1>1, <1>2, <1>3, <1>4, <1>5 DEF Next

LEMMA Invariant == Spec => []IInv
<1> QED
  BY InitInv, StepInv, PTL DEF Spec

-----------------------------------------------------------------------------
(* The lengths, positions and bytes that __seek and __read keep are what   *)
(* they are declared as, also when the cursor or a read overflows.         *)
THEOREM TypeCorrect == Spec => []TypeOK
<1>1. IInv => TypeOK
  BY DEF IInv
<1> QED
  BY <1>1, Invariant, PTL

(* exportFile's write function leaves in the cache the document and        *)
(* nothing else, however often exports failed before and however the       *)
(* cursor was moved in between.                                            *)
THEOREM CachedWhole == Spec => []CacheIsDocument
<1>1. IInv => CacheIsDocument
  BY DEF IInv
<1> QED
  BY <1>1, Invariant, PTL

(* __seek and __read keep the position inside a file that has not changed  *)
(* in the cloud since it was opened.                                       *)
THEOREM PositionStays == Spec => []PositionInFile
<1>1. IInv => PositionInFile
  BY DEF IInv
<1> QED
  BY <1>1, Invariant, PTL

(* readData and _exportURLs[0] stay in their memory unless the cloud has   *)
(* given another file than it promised, or a length overflows.             *)
THEOREM StaysDefined == Spec => []DefinedUnlessSpoiled
<1>1. IInv => DefinedUnlessSpoiled
  BY DEF IInv
<1> QED
  BY <1>1, Invariant, PTL

-----------------------------------------------------------------------------
(***************************************************************************)
(* Reading implements FileService.  What a document's export has measured  *)
(* is a length the document may have, until the cloud spoils it.           *)
(***************************************************************************)
MeasuredInv == ~spoiled /\ cachedSize # 0 => cachedSize \in Sizes

LEMMA MeasuredInit == Init => MeasuredInv
BY DEF Init, MeasuredInv

LEMMA MeasuredStep == IInv /\ MeasuredInv /\ [Next]_vars => MeasuredInv'
<1> SUFFICES ASSUME IInv, MeasuredInv, [Next]_vars PROVE MeasuredInv'
  OBVIOUS
<1>1. ASSUME NEW n \in Lengths, Export(n) PROVE MeasuredInv'
  <2>1. PICK bytes \in {WholeFile} \cup Pages :
          cachedSize' = AllStored(bytes) /\ spoiled' = (spoiled \/ bytes # WholeFile)
    BY <1>1 DEF Export
  <2>2. cachedSize = 0 /\ exports
    BY <1>1 DEF Export, NeedsExport
  <2> SUFFICES ASSUME ~spoiled' PROVE cachedSize' \in Sizes
    BY DEF MeasuredInv
  <2>3. ~spoiled /\ bytes = WholeFile
    BY <2>1
  <2>4. cursor = Len(cache) /\ cache = <<>>
    BY <2>2, <2>3, EmptyStretch DEF IInv, FileInv, CacheIsDocument
  <2>5. remoteLen \in Nat /\ 0 <= remoteLen /\ remoteLen - 0 = remoteLen /\ remoteLen \in Sizes
    BY SizeIs DEF IInv, TypeOK
  <2>6. Len(bytes) = remoteLen
    BY <2>3, <2>5, StretchIs DEF WholeFile
  <2> QED
    BY <2>1, <2>4, <2>5, <2>6 DEF AllStored
<1>2. ASSUME UNCHANGED cachedSize, spoiled => spoiled' PROVE MeasuredInv'
  BY <1>2 DEF MeasuredInv
<1>3. CASE SeekEmpty \/ Rename \/ Change \/ UNCHANGED vars
  <2>1. UNCHANGED cachedSize /\ (spoiled => spoiled')
    <3>1. CASE Rename
      BY <3>1 DEF Rename
    <3>2. CASE SeekEmpty \/ Change \/ UNCHANGED vars
      BY <3>2 DEF SeekEmpty, Change, vars
    <3> QED
      BY <1>3, <3>1, <3>2
  <2> QED
    BY <1>2, <2>1
<1>4. CASE Seek
  <2>1. UNCHANGED cachedSize /\ (spoiled => spoiled')
    BY <1>4 DEF Seek
  <2> QED
    BY <1>2, <2>1
<1>5. ASSUME NEW n \in Lengths, Download(n) \/ ReadAgain(n) \/ ExportFails PROVE MeasuredInv'
  <2>1. UNCHANGED cachedSize /\ (spoiled => spoiled')
    BY <1>5 DEF Download, ReadAgain, ExportFails
  <2> QED
    BY <1>2, <2>1
<1>6. ASSUME NEW n \in Lengths, NothingLeft(n) \/ DownloadFails(n) \/ Peek(n) \/ ExportFromNowhere PROVE MeasuredInv'
  BY <1>2, <1>6 DEF NothingLeft, DownloadFails, Peek, ExportFromNowhere
<1> QED
  BY <1>1, <1>3, <1>4, <1>5, <1>6 DEF Next, Read

(* What a program sees of the size and the position.                       *)
Seen == IF ~exports THEN fileSize ELSE IF cachedSize = 0 THEN Unknown ELSE cachedSize
Place == IF exports /\ cachedSize = 0 THEN 0 ELSE cursor

LEMMA SeenIs ==
  ASSUME IInv, MeasuredInv, ~spoiled
  PROVE  /\ Size # 0 => Seen = Size /\ Seen # Unknown /\ Place = cursor
         /\ Size = 0 => exports /\ cachedSize = 0 /\ Seen = Unknown /\ Place = 0 /\ cursor = 0 /\ cache = <<>>
         /\ cursor >= 0
<1>1. Size # 0 => Size \in Sizes
  BY SizeIs DEF IInv, TypeOK, MeasuredInv, Size
<1>2. Size # 0 => Seen = Size /\ Place = cursor
  BY SizeIs DEF Seen, Place
<1>3. Size = 0 => exports /\ cachedSize = 0
  BY SizeIs DEF IInv, FileInv, Size
<1>4. exports /\ cachedSize = 0 => cache = <<>> /\ cursor = 0
  BY EmptyStretch DEF IInv, FileInv, CacheIsDocument
<1> QED
  BY <1>1, <1>2, <1>3, <1>4, SizesAssumption DEF IInv, PositionInFile, Seen, Place

LEMMA FailIs ==
  ASSUME answer' = F!Answer(-1, <<>>), UNCHANGED <<Seen, Place, spoiled>> PROVE F!Fail
BY DEF F!Fail, Seen, Place

LEMMA ReadIs ==
  ASSUME NEW n, NEW s \in IF Seen = Unknown THEN Sizes ELSE {Seen}, NEW end,
         end = IF Place < s THEN F!Nearer(Place + n, s) ELSE Place,
         answer' = F!Answer(end - Place, F!Stretch(Place, end)),
         Place' = end, Seen' = IF s = 0 THEN Seen ELSE s, UNCHANGED spoiled
  PROVE  F!Read(n)
BY DEF F!Read, Seen, Place

LEMMA NoStretch == ASSUME NEW a \in Nat PROVE F!Stretch(a, a) = <<>>
<1>1. a <= a /\ a - a = 0
  OBVIOUS
<1>2. F!Stretch(a, a) \in Seq(Nat) /\ Len(F!Stretch(a, a)) = 0
  BY <1>1, StretchIs DEF Bytes
<1> QED
  BY <1>2, EmptySeq

(* A part of the document's cache is a part of the document.               *)
LEMMA PartOfStretch ==
  ASSUME NEW size \in Nat, NEW c \in Nat, NEW d \in Nat, c <= d, d <= size
  PROVE  SubSeq(F!Stretch(0, size), c + 1, d) = F!Stretch(c, d)
<1> DEFINE all == F!Stretch(0, size)
<1>1. 0 \in Nat /\ 0 <= size /\ size - 0 = size
  OBVIOUS
<1>2. all \in Bytes /\ Len(all) = size /\ \A i \in 1..size : all[i] = 0 + i
  BY <1>1, StretchIs
<1>3. F!Stretch(c, d) \in Bytes /\ Len(F!Stretch(c, d)) = d - c /\ \A i \in 1..(d - c) : F!Stretch(c, d)[i] = c + i
  BY StretchIs
<1> HIDE DEF all
<1>4. SubSeq(all, c + 1, d) \in Bytes /\ Len(SubSeq(all, c + 1, d)) = d - c
      /\ \A i \in 1..(d - c) : SubSeq(all, c + 1, d)[i] = all[c + i]
  BY <1>2, SubSeqIs
<1>5. \A i \in 1..(d - c) : SubSeq(all, c + 1, d)[i] = F!Stretch(c, d)[i]
  <2> SUFFICES ASSUME NEW i \in 1..(d - c) PROVE SubSeq(all, c + 1, d)[i] = F!Stretch(c, d)[i]
    OBVIOUS
  <2>1. c + i \in 1..size
    OBVIOUS
  <2> QED
    BY <1>2, <1>3, <1>4, <2>1
<1>6. SubSeq(all, c + 1, d) \in Seq(Nat) /\ F!Stretch(c, d) \in Seq(Nat)
  BY <1>3, <1>4 DEF Bytes
<1>7. SubSeq(all, c + 1, d) = F!Stretch(c, d)
  BY <1>3, <1>4, <1>5, <1>6, SeqEqual
<1> QED
  BY <1>7 DEF all

LEMMA SeekRefines ==
  ASSUME IInv, MeasuredInv, ~spoiled, ~spoiled', Seek PROVE F!Seek
<1>1. PICK base \in {0, cursor, Size}, offset \in Offsets : cursor' = Clamped(Wrap(base + offset))
  BY DEF Seek
<1>2. base + offset \in Int
  BY SizeIs, Constants
<1>3. cursor' \in 0..Size
  BY <1>1, <1>2, WrapInt, ClampedIs
<1>4. Size # 0 /\ answer' = F!Answer(cursor, <<>>) /\ UNCHANGED <<file, cache, cachedSize>>
  BY DEF Seek
<1>5. Seen = Size /\ Seen # Unknown /\ Place = cursor
  BY <1>4, SeenIs
<1>6. Seen' = Seen /\ Place' = cursor'
  BY <1>4, SizeIs DEF Seen, Place, file
<1> QED
  <2>1. Place' \in 0..Seen /\ answer' = F!Answer(Place, <<>>) /\ Seen' = Seen /\ spoiled' = spoiled
    <3>1. UNCHANGED spoiled
      BY DEF Seek, IInv, TypeOK
    <3> QED
      BY <1>3, <1>4, <1>5, <1>6, <3>1
  <2> QED
    BY <1>5, <2>1 DEF F!Seek, Seen, Place

LEMMA NothingLeftRefines ==
  ASSUME IInv, MeasuredInv, ~spoiled, NEW n \in Lengths, NothingLeft(n) PROVE F!Read(n)
<1>1. /\ fileSize # 0 /\ Clipped(n, cursor, fileSize) = 0
      /\ answer' = F!Answer(0, <<>>)
      /\ UNCHANGED <<file, cursor, cache, cachedSize, spoiled, undefined>>
  BY DEF NothingLeft
<1>2. Size = fileSize /\ fileSize \in Nat /\ cursor \in Nat /\ n \in Nat /\ ~exports /\ fileSize <= IntMax /\ IntMax \in Nat
  BY <1>1, SizeIs, SeenIs, Constants DEF IInv, FileInv
<1>3. Seen = fileSize /\ Seen # Unknown /\ Place = cursor
  BY <1>1, <1>2, SeenIs
<1>4. n = 0 \/ cursor >= fileSize
  <2> SUFFICES ASSUME cursor < fileSize PROVE n = 0
    BY <1>2
  <2>1. fileSize - cursor \in Int /\ ~Overflows(fileSize - cursor)
    BY <1>2 DEF Overflows
  <2>2. Wrap(fileSize - cursor) # 0
    BY <1>2, <2>1, WrapKeeps
  <2> QED
    BY <1>1, <2>2 DEF Clipped
<1>5. cursor = IF Place < fileSize THEN F!Nearer(Place + n, fileSize) ELSE Place
  BY <1>2, <1>3, <1>4 DEF F!Nearer
<1>6. answer' = F!Answer(cursor - Place, F!Stretch(Place, cursor))
  BY <1>1, <1>2, <1>3, NoStretch
<1>7. Place' = cursor /\ Seen' = fileSize
  BY <1>1, <1>2, <1>3 DEF Seen, Place, file
<1> QED
  BY <1>1, <1>3, <1>5, <1>6, <1>7, ReadIs

LEMMA DownloadRefines ==
  ASSUME IInv, MeasuredInv, ~spoiled, ~spoiled', NEW n \in Lengths, Download(n) PROVE F!Read(n)
<1> DEFINE part == Clipped(n, cursor, fileSize)
<1>1. PICK bytes \in Answers(cursor, part) :
        /\ answer' = F!Answer(part, bytes)
        /\ spoiled' = (spoiled \/ Overflows(cursor + n) \/ bytes # F!Stretch(cursor, cursor + part))
  BY DEF Download
<1>2. /\ fileSize # 0 /\ part # 0 /\ cursor' = Wrap(cursor + part)
      /\ UNCHANGED <<file, cache, cachedSize, undefined>>
  BY DEF Download
<1>3. ~Overflows(cursor + n) /\ bytes = F!Stretch(cursor, cursor + part)
  BY <1>1
<1>4. Size = fileSize /\ ~exports /\ cursor \in Int /\ cursor >= 0 /\ fileSize \in 0..IntMax /\ n \in 0..IntMax /\ IntMax \in Nat
  BY <1>2, SizeIs, SeenIs, Constants DEF IInv, FileInv
<1>5. /\ part \in 0..IntMax /\ cursor + part <= fileSize
      /\ cursor + part = IF cursor < fileSize THEN F!Nearer(cursor + n, fileSize) ELSE cursor
  <2>1. /\ cursor >= 0 => part \in 0..IntMax
        /\ cursor >= 0 /\ part # 0 /\ cursor + part > fileSize => Overflows(cursor + n)
        /\ cursor >= 0 /\ ~Overflows(cursor + n) =>
             cursor + part = IF cursor < fileSize THEN F!Nearer(cursor + n, fileSize) ELSE cursor
    BY <1>4, ClippedIs
  <2> HIDE DEF part
  <2> QED
    BY <1>2, <1>3, <1>4, <2>1
<1> HIDE DEF part
<1>6. cursor' = cursor + part
  <2>1. cursor + part \in Int /\ ~Overflows(cursor + part)
    BY <1>4, <1>5 DEF Overflows
  <2> QED
    BY <1>2, <2>1, WrapKeeps
<1>7. Seen = fileSize /\ Seen # Unknown /\ Place = cursor
  BY <1>2, <1>4, SeenIs
<1>8. Place' = cursor + part /\ Seen' = fileSize
  BY <1>2, <1>4, <1>6, <1>7 DEF Seen, Place, file
<1>9. answer' = F!Answer((cursor + part) - Place, F!Stretch(Place, cursor + part))
  <2>1. (cursor + part) - Place = part
    BY <1>4, <1>5, <1>7
  <2> QED
    BY <1>1, <1>3, <1>7, <2>1
<1>10. cursor + part = IF Place < fileSize THEN F!Nearer(Place + n, fileSize) ELSE Place
  BY <1>5, <1>7
<1>11. fileSize \in (IF Seen = Unknown THEN Sizes ELSE {Seen}) /\ UNCHANGED spoiled
  <2>1. spoiled' \in BOOLEAN /\ spoiled \in BOOLEAN
    BY <1>1 DEF IInv, TypeOK
  <2> QED
    BY <1>7, <2>1
<1> QED
  BY <1>2, <1>7, <1>8, <1>9, <1>10, <1>11, ReadIs

LEMMA PeekRefines ==
  ASSUME IInv, MeasuredInv, ~spoiled, NEW n \in Lengths, Peek(n) PROVE F!Peek(n)
<1>1. Size = 0 /\ n \in PeekLengths /\ answer' = F!Answer(n, <<>>)
      /\ UNCHANGED <<file, cursor, cache, cachedSize, spoiled, undefined>>
  BY DEF Peek, NeedsExport, Size
<1>2. Seen = Unknown /\ Place = 0
  BY <1>1, SeenIs
<1>3. Seen' = Seen /\ Place' = Place
  BY <1>1 DEF Seen, Place, file
<1> QED
  BY <1>1, <1>2, <1>3 DEF F!Peek, Seen, Place

LEMMA ExportFailsRefines ==
  ASSUME IInv, MeasuredInv, ~spoiled, ~spoiled', ExportFails PROVE F!Fail
<1>1. cachedSize = 0 /\ exports /\ answer' = F!Answer(-1, <<>>) /\ UNCHANGED <<file, cachedSize>>
  BY DEF ExportFails, NeedsExport
<1>2. Seen' = Seen /\ Place' = Place
  BY <1>1 DEF Seen, Place, file
<1>3. UNCHANGED spoiled
  BY DEF IInv, TypeOK, ExportFails
<1> QED
  BY <1>1, <1>2, <1>3, FailIs

LEMMA ExportRefines ==
  ASSUME IInv, MeasuredInv, ~spoiled, ~spoiled', NEW n \in Lengths, Export(n) PROVE F!Read(n)
<1>1. PICK bytes \in {WholeFile} \cup Pages :
        /\ cache' = cache \o bytes
        /\ cachedSize' = AllStored(bytes)
        /\ spoiled' = (spoiled \/ bytes # WholeFile)
        /\ ReadCached(Rewound(cachedSize'), cache', n)
        /\ Len(cache) + Len(bytes) <= MaxCached
  BY DEF Export
<1>2. Size = 0 /\ UNCHANGED file /\ exports
  BY DEF Export, NeedsExport, Size
<1>3. bytes = WholeFile /\ UNCHANGED spoiled
  <2>1. spoiled' \in BOOLEAN /\ spoiled \in BOOLEAN
    BY <1>1 DEF IInv, TypeOK
  <2> QED
    BY <1>1, <2>1
<1>4. Seen = Unknown /\ Place = 0 /\ cursor = 0 /\ cache = <<>>
  BY <1>2, SeenIs
<1>5. remoteLen \in Nat /\ remoteLen \in Sizes /\ 0 \in Nat /\ 0 <= remoteLen /\ remoteLen - 0 = remoteLen
  BY SizeIs DEF IInv, TypeOK
<1>6. WholeFile \in Bytes /\ Len(WholeFile) = remoteLen
  BY <1>5, StretchIs DEF WholeFile
<1>7. cache' = WholeFile /\ cachedSize' = remoteLen
  BY <1>1, <1>3, <1>4, <1>5, <1>6 DEF AllStored, Bytes
<1>8. remoteLen <= MaxCached
  BY <1>1, <1>3, <1>4, <1>5, <1>6
<1>9. n \in Nat /\ ~Overflows(0 + n) /\ 0 + n = n
  BY Constants DEF Overflows
<1>10. /\ cursor' \in 0..remoteLen
       /\ answer' = F!Answer(cursor' - 0, SubSeq(WholeFile, 0 + 1, cursor'))
       /\ cursor' = IF 0 < remoteLen THEN F!Nearer(0 + n, remoteLen) ELSE 0
  <2>1. ReadCached(0, WholeFile, n)
    BY <1>1, <1>7 DEF Rewound
  <2>2. cursor \in Int /\ 0 <= Len(WholeFile) /\ Len(WholeFile) <= MaxCached
    BY <1>4, <1>5, <1>6, <1>8
  <2>3. \/ undefined' = TRUE /\ Overflows(0 + n) /\ UNCHANGED <<cursor, answer>>
        \/ /\ cursor' \in 0..Len(WholeFile)
           /\ answer' = F!Answer(cursor' - 0, SubSeq(WholeFile, 0 + 1, cursor'))
           /\ ~Overflows(0 + n) =>
                cursor' = IF 0 < Len(WholeFile) THEN F!Nearer(0 + n, Len(WholeFile)) ELSE 0
    BY <1>5, <1>6, <2>1, <2>2, ReadCachedIs
  <2> QED
    BY <1>6, <1>9, <2>3
<1>11. SubSeq(WholeFile, 0 + 1, cursor') = F!Stretch(0, cursor')
  <2>1. cursor' \in Nat /\ 0 <= cursor' /\ cursor' <= remoteLen
    BY <1>5, <1>10
  <2> QED
    BY <1>5, <2>1, PartOfStretch DEF WholeFile
<1>12. Place' = cursor' /\ Seen' = IF remoteLen = 0 THEN Seen ELSE remoteLen
  <2>1. exports'
    BY <1>2 DEF file
  <2> QED
    BY <1>4, <1>5, <1>7, <1>10, <2>1 DEF Seen, Place
<1>13. answer' = F!Answer(cursor' - Place, F!Stretch(Place, cursor'))
  BY <1>4, <1>10, <1>11
<1>14. cursor' = IF Place < remoteLen THEN F!Nearer(Place + n, remoteLen) ELSE Place
  BY <1>4, <1>10
<1>15. remoteLen \in IF Seen = Unknown THEN Sizes ELSE {Seen}
  BY <1>4, <1>5
<1> QED
  BY <1>3, <1>12, <1>13, <1>14, <1>15, ReadIs

LEMMA ReadAgainRefines ==
  ASSUME IInv, MeasuredInv, ~spoiled, ~spoiled', NEW n \in Lengths, ReadAgain(n) PROVE F!Read(n)
<1>1. /\ fileSize = 0 /\ cachedSize # 0
      /\ ReadCached(cursor, cache, n)
      /\ spoiled' = (spoiled \/ Overflows(cursor + n))
      /\ UNCHANGED <<file, cache, cachedSize>>
  BY DEF ReadAgain, NeedsExport
<1>2. /\ exports /\ cachedSize = Len(cache) /\ cursor \in 0..Len(cache)
      /\ Len(cache) <= MaxCached /\ cache \in Bytes /\ cache = F!Stretch(0, cachedSize)
  BY <1>1 DEF IInv, TypeOK, FileInv, CacheIsDocument
<1>3. cursor \in Nat /\ cursor \in Int /\ cursor <= Len(cache) /\ Len(cache) \in Nat
  BY <1>2, SizeIs
<1>4. ~Overflows(cursor + n) /\ UNCHANGED spoiled
  <2>1. spoiled' \in BOOLEAN /\ spoiled \in BOOLEAN
    BY <1>1 DEF IInv, TypeOK
  <2> QED
    BY <1>1, <2>1
<1>5. /\ cursor' \in 0..Len(cache) /\ cursor <= cursor'
      /\ answer' = F!Answer(cursor' - cursor, SubSeq(cache, cursor + 1, cursor'))
      /\ cursor' = IF cursor < Len(cache) THEN F!Nearer(cursor + n, Len(cache)) ELSE cursor
  <2>1. \/ undefined' = TRUE /\ Overflows(cursor + n) /\ UNCHANGED <<cursor, answer>>
        \/ /\ cursor' \in 0..Len(cache) /\ cursor <= cursor'
           /\ answer' = F!Answer(cursor' - cursor, SubSeq(cache, cursor + 1, cursor'))
           /\ ~Overflows(cursor + n) =>
                cursor' = IF cursor < Len(cache) THEN F!Nearer(cursor + n, Len(cache)) ELSE cursor
    BY <1>1, <1>2, <1>3, ReadCachedIs
  <2> QED
    BY <1>4, <2>1
<1>6. SubSeq(cache, cursor + 1, cursor') = F!Stretch(cursor, cursor')
  <2>1. cursor' \in Nat /\ cursor' <= Len(cache)
    BY <1>3, <1>5
  <2> QED
    <3>1. cachedSize \in Nat /\ cursor' <= cachedSize /\ cursor <= cursor'
      BY <1>2, <1>3, <1>5, <2>1
    <3>2. SubSeq(F!Stretch(0, cachedSize), cursor + 1, cursor') = F!Stretch(cursor, cursor')
      BY <1>3, <2>1, <3>1, PartOfStretch
    <3> QED
      BY <1>2, <3>2
<1>7. Seen = cachedSize /\ Seen # Unknown /\ Place = cursor
  <2>1. Size # 0 /\ Size = cachedSize
    BY <1>1, <1>2, SizeIs
  <2> QED
    BY <2>1, SeenIs
<1>8. Place' = cursor' /\ Seen' = cachedSize
  BY <1>1, <1>2 DEF Seen, Place, file
<1> QED
  BY <1>1, <1>2, <1>4, <1>5, <1>6, <1>7, <1>8, ReadIs

LEMMA RenameRefines ==
  ASSUME IInv, MeasuredInv, ~spoiled, ~spoiled', Rename PROVE F!Resize
<1>1. ~exports /\ fileSize' = remoteLen
      /\ UNCHANGED <<exports, cursor, cache, cachedSize, answer>> /\ UNCHANGED spoiled
  BY DEF Rename, IInv, TypeOK
<1>2. Seen # Unknown
  BY <1>1, SeenIs DEF IInv, FileInv, Size
<1>3. Seen' = remoteLen /\ remoteLen \in Sizes /\ Place' = Place
  BY <1>1 DEF IInv, TypeOK, Seen, Place
<1> QED
  BY <1>1, <1>2, <1>3 DEF F!Resize, Seen, Place

LEMMA StepRefines == IInv /\ MeasuredInv /\ [Next]_vars => [F!Next]_F!vars
<1> SUFFICES ASSUME IInv, MeasuredInv, [Next]_vars PROVE [F!Next]_F!vars
  OBVIOUS
<1>1. CASE spoiled'
  <2>1. F!Spoil
    <3>1. spoiled' \in BOOLEAN
      BY StepInv DEF IInv, TypeOK
    <3> QED
      BY <1>1, <3>1 DEF F!Spoil
  <2> QED
    BY <2>1 DEF F!Next
<1>2. CASE ~spoiled'
  <2>1. ~spoiled
    <3>1. CASE SeekEmpty \/ Seek \/ Rename \/ Change
      BY <1>2, <3>1 DEF SeekEmpty, Seek, Rename, Change
    <3>2. CASE \E n \in Lengths : Read(n)
      BY <1>2, <3>2 DEF Read, NothingLeft, DownloadFails, Download, Peek, ExportFromNowhere, ExportFails, Export, ReadAgain
    <3>3. CASE UNCHANGED vars
      BY <1>2, <3>3 DEF vars
    <3> QED
      BY <3>1, <3>2, <3>3 DEF Next
  <2>2. CASE SeekEmpty
    <3>1. answer' = F!Answer(-1, <<>>) /\ UNCHANGED <<Seen, Place, spoiled>>
      BY <2>2 DEF SeekEmpty, Seen, Place, file
    <3> QED
      BY <2>1, <3>1, FailIs DEF F!Next
  <2>3. CASE Seek
    BY <1>2, <2>1, <2>3, SeekRefines DEF F!Next
  <2>4. CASE Rename
    BY <1>2, <2>1, <2>4, RenameRefines DEF F!Next
  <2>5. CASE Change \/ UNCHANGED vars
    BY <2>5 DEF Change, vars, F!vars
  <2>6. ASSUME NEW n \in Lengths, Read(n) PROVE F!Next
    <3>1. CASE NothingLeft(n)
      BY <2>1, <3>1, NothingLeftRefines DEF F!Next
    <3>2. CASE DownloadFails(n)
      <4>1. answer' = F!Answer(-1, <<>>) /\ UNCHANGED <<Seen, Place, spoiled>>
        BY <3>2 DEF DownloadFails, Seen, Place, file
      <4> QED
        BY <2>1, <4>1, FailIs DEF F!Next
    <3>3. CASE Download(n)
      BY <1>2, <2>1, <3>3, DownloadRefines DEF F!Next
    <3>4. CASE Peek(n)
      BY <2>1, <3>4, PeekRefines DEF F!Next
    <3>5. CASE ExportFromNowhere
      BY <2>1, <3>5 DEF ExportFromNowhere, IInv, FileInv
    <3>6. CASE ExportFails
      BY <1>2, <2>1, <3>6, ExportFailsRefines DEF F!Next
    <3>7. CASE Export(n)
      BY <1>2, <2>1, <3>7, ExportRefines DEF F!Next
    <3>8. CASE ReadAgain(n)
      BY <1>2, <2>1, <3>8, ReadAgainRefines DEF F!Next
    <3> QED
      BY <2>6, <3>1, <3>2, <3>3, <3>4, <3>5, <3>6, <3>7, <3>8 DEF Read
  <2> QED
    BY <2>2, <2>3, <2>4, <2>5, <2>6 DEF Next
<1> QED
  BY <1>1, <1>2

LEMMA InitRefines == Init => F!Init
<1> SUFFICES ASSUME Init PROVE F!Init
  OBVIOUS
<1>1. Seen \in Sizes \cup {Unknown} /\ Place = 0
  BY DEF Init, Seen, Place
<1> QED
  BY <1>1 DEF Init, F!Init, Seen, Place

(* __seek and __read show a program the file FileService promises, with    *)
(* the export of a document, its retries and its cache behind it, until    *)
(* the cloud or an overflow spoils it.                                     *)
THEOREM FileServiceIsImplemented == Spec => ImplementsFileService
<1>1. IInv /\ MeasuredInv /\ [Next]_vars => IInv' /\ MeasuredInv'
  BY StepInv, MeasuredStep
<1>2. Init => IInv /\ MeasuredInv
  BY InitInv, MeasuredInit
<1> QED
  BY <1>1, <1>2, StepRefines, InitRefines, PTL DEF Spec, ImplementsFileService, F!Spec
=============================================================================
