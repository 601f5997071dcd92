---------------------------- MODULE Upload_proofs ----------------------------
(***************************************************************************)
(* Proofs about Upload, for any size of the parts, of the writes and of    *)
(* the file.  What is kept is proved for a Google Drive that refuses       *)
(* nothing (Trusted): one that does acknowledges data it drops.            *)
(***************************************************************************)
EXTENDS Upload, SequenceTheorems, TLAPS

Data == Seq(1..MaxFile)
Trusted == Refusals[FALSE] = {}

(* A part is sent while the offset is that of the session; one that was    *)
(* acknowledged and not taken puts the offset ahead of it for good.        *)
SessionInv ==
  /\ ~appendSupported => session = <<>> /\ userData = 0
  /\ failures = 0 => cachedSize = Len(cached) /\ userData >= Len(session)

OpenInv == open => remote # "whole" /\ content = <<>> /\ fileSize = 0

IInv ==
  /\ TypeOK /\ SessionInv /\ OpenInv
  /\ NothingIsForgotten /\ WholeOrNothing /\ LengthIsCommitted

-----------------------------------------------------------------------------
(***************************************************************************)
(* Pieces of the file.                                                     *)
(***************************************************************************)
LEMMA PiecesAreData ==
  ASSUME TypeOK, NEW n \in Nat, accepted + n <= MaxFile
  PROVE  Pieces(n) \in Data /\ Len(Pieces(n)) = n
<1>1. accepted \in Nat /\ MaxFile \in Nat
  BY SizesAssumption DEF TypeOK
<1>2. \A i \in 1..n : accepted + i \in 1..MaxFile
  BY <1>1
<1>3. Pieces(n) \in [1..n -> 1..MaxFile]
  BY <1>2 DEF Pieces
<1> QED
  BY <1>3 DEF Data, Pieces

LEMMA AcceptedGrows ==
  ASSUME TypeOK, NEW n \in Nat, accepted + n <= MaxFile
  PROVE  Accepted \o Pieces(n) = [i \in 1..(accepted + n) |-> i]
<1> DEFINE grown == [i \in 1..(accepted + n) |-> i]
<1>1. accepted \in Nat /\ MaxFile \in Nat
  BY SizesAssumption DEF TypeOK
<1>2. Accepted \in Data /\ Len(Accepted) = accepted
  <2>1. Accepted \in [1..accepted -> 1..MaxFile]
    BY <1>1 DEF Accepted
  <2> QED
    BY <1>1, <2>1 DEF Data
<1>3. grown \in Data /\ Len(grown) = accepted + n
  <2>1. grown \in [1..(accepted + n) -> 1..MaxFile]
    BY <1>1
  <2> QED
    BY <1>1, <2>1 DEF Data
<1>4. Pieces(n) \in Data /\ Len(Pieces(n)) = n
  BY PiecesAreData
<1>5. /\ Accepted \o Pieces(n) \in Data
      /\ Len(Accepted \o Pieces(n)) = accepted + n
      /\ \A i \in 1..(accepted + n) :
           (Accepted \o Pieces(n))[i] = IF i <= accepted THEN Accepted[i] ELSE Pieces(n)[i - accepted]
  BY <1>2, <1>4, ConcatProperties DEF Data
<1>6. \A i \in 1..(accepted + n) : (Accepted \o Pieces(n))[i] = grown[i]
  BY <1>1, <1>5 DEF Accepted, Pieces
<1> QED
  BY <1>3, <1>5, <1>6, SeqEqual DEF Data

(* What rdfu hands to curl is data, and all of a cache of that size.       *)
LEMMA SentIsData ==
  ASSUME NEW s \in Data, NEW k \in 0..Len(s)
  PROVE  /\ Sent(s, k) \in Data /\ Len(Sent(s, k)) = k
         /\ k = Len(s) => Sent(s, k) = s
<1>1. Len(s) \in Nat /\ s \in [1..Len(s) -> 1..MaxFile]
  BY LenProperties DEF Data
<1>2. Sent(s, k) \in Data /\ Len(Sent(s, k)) = k
  BY <1>1, SubSeqProperties DEF Data, Sent
<1>3. k = Len(s) => Sent(s, k) = s
  BY SubSeqFull DEF Data, Sent
<1> QED
  BY <1>2, <1>3

-----------------------------------------------------------------------------
(***************************************************************************)
(* Types.                                                                  *)
(***************************************************************************)
LEMMA Typed == TypeOK => /\ cached \in Data /\ session \in Data /\ content \in Data
                         /\ Len(cached) \in Nat /\ Len(session) \in Nat
                         /\ cachedSize \in 0..Len(cached) /\ userData \in Nat
                         /\ accepted \in Nat /\ MaxFile \in Nat
  BY LenProperties, SizesAssumption DEF TypeOK, Data

LEMMA PiecesGoLast ==
  ASSUME TypeOK, NEW n \in Nat, accepted + n <= MaxFile
  PROVE  (session \o cached) \o Pieces(n) = session \o (cached \o Pieces(n))
<1>1. Pieces(n) \in Data /\ session \in Data /\ cached \in Data
  BY PiecesAreData, Typed
<1> QED
  BY <1>1, ConcatAssociative DEF Data

LEMMA StoredIsData ==
  ASSUME TypeOK, NEW n \in Nat, accepted + n <= MaxFile
  PROVE  /\ cached \o Pieces(n) \in Data
         /\ Len(cached \o Pieces(n)) = Len(cached) + n
         /\ cachedSize + n \in 0..Len(cached \o Pieces(n))
         /\ Sent(cached \o Pieces(n), cachedSize + n) \in Data
         /\ Len(Sent(cached \o Pieces(n), cachedSize + n)) = cachedSize + n
         /\ cachedSize = Len(cached) =>
              Sent(cached \o Pieces(n), cachedSize + n) = cached \o Pieces(n)
<1>1. Pieces(n) \in Data /\ Len(Pieces(n)) = n
  BY PiecesAreData
<1>2. /\ cached \o Pieces(n) \in Data
      /\ Len(cached \o Pieces(n)) = Len(cached) + n
  BY <1>1, Typed, ConcatProperties DEF Data
<1>3. cachedSize + n \in 0..Len(cached \o Pieces(n))
  BY <1>2, Typed
<1> QED
  BY <1>2, <1>3, SentIsData, Typed

LEMMA WriteType ==
  ASSUME TypeOK, NEW n \in 1..MaxWrite, Write(n), UNCHANGED appendSupported
  PROVE  TypeOK'
<1> USE DEF TypeOK
<1>0. n \in Nat /\ accepted + n <= MaxFile /\ accepted \in Nat /\ MaxFile \in Nat
        /\ accepted + n \in 0..MaxFile /\ failures + 1 \in 0..MaxFailures
  BY SizesAssumption DEF Write
<1>1. CASE BeginFails(n)
  BY <1>0, <1>1 DEF BeginFails, Answer
<1>2. CASE StoreFails(n)
  <2>1. PICK k \in 0..n - 1 : cached' = cached \o SubSeq(Pieces(n), 1, k)
    BY <1>2 DEF StoreFails
  <2>2. Pieces(n) \in Data /\ k \in 0..Len(Pieces(n))
    BY <1>0, <2>1, PiecesAreData
  <2>3. SubSeq(Pieces(n), 1, k) \in Data /\ Len(SubSeq(Pieces(n), 1, k)) = k
    BY <2>2, SentIsData DEF Sent
  <2>4. cached' \in Data /\ Len(cached') = Len(cached) + k
    BY <2>1, <2>3, Typed, ConcatProperties DEF Data
  <2>5. cachedSize' \in 0..Len(cached')
    BY <1>0, <1>2, <2>1, <2>4, Typed DEF StoreFails
  <2>6. hasId' \in BOOLEAN /\ remote' \in {"none", "empty", "whole"}
    BY <1>2 DEF StoreFails, Begun
  <2> QED
    BY <1>0, <1>2, <2>4, <2>5, <2>6 DEF StoreFails, Answer, Data
<1>3. CASE StoreOnly(n)
  <2>1. cached' \in Data /\ cachedSize' \in 0..Len(cached')
    BY <1>0, <1>3, StoredIsData DEF StoreOnly
  <2>2. hasId' \in BOOLEAN /\ remote' \in {"none", "empty", "whole"}
    BY <1>3 DEF StoreOnly, Begun
  <2> QED
    BY <1>0, <1>3, <2>1, <2>2 DEF StoreOnly, Answer, Data
<1>4. CASE StoreAndSend(n)
  <2> DEFINE part == Sent(cached \o Pieces(n), cachedSize + n)
  <2>1. part \in Data /\ Len(part) \in Nat
    BY <1>0, StoredIsData, Typed
  <2>2. session \o part \in Data
    BY <2>1, Typed, ConcatProperties DEF Data
  <2> HIDE DEF part
  <2>3. PICK out \in Outcome :
          /\ session' = IF Obeyed(out) THEN session \o part ELSE session
          /\ userData' = IF Succeeded(out) THEN userData + Len(part) ELSE userData
          /\ cached' = <<>> /\ cachedSize' = 0
          /\ Answer(n, Succeeded(out))
          /\ failures' = IF Succeeded(out) THEN failures ELSE failures + 1
    BY <1>4 DEF StoreAndSend, ForgetPart, part
  <2>4. session' \in Data /\ userData' \in Nat
    BY <2>1, <2>2, <2>3, Typed
  <2>5. cached' \in Data /\ cachedSize' \in 0..Len(cached')
    BY <2>3, EmptySeq DEF Data
  <2>6. hasId' \in BOOLEAN /\ remote' \in {"none", "empty", "whole"}
    BY <1>4 DEF StoreAndSend, Begun
  <2>7. failures' \in 0..MaxFailures /\ accepted' \in 0..MaxFile
    BY <1>0, <2>3 DEF Answer
  <2> QED
    BY <1>4, <2>4, <2>5, <2>6, <2>7 DEF StoreAndSend, Data
<1> QED
  BY <1>1, <1>2, <1>3, <1>4 DEF Write

LEMMA CloseType ==
  ASSUME TypeOK, Close, UNCHANGED appendSupported
  PROVE  TypeOK'
<1> USE DEF TypeOK
<1>1. CASE ~NeedsCommit
  BY <1>1 DEF Close
<1>2. ASSUME NEW out \in Outcome, Commit(out) PROVE TypeOK'
  <2> DEFINE part == Sent(cached, cachedSize)
  <2>1. part \in Data /\ session \o part \in Data
    BY SentIsData, Typed, ConcatProperties DEF Data
  <2> HIDE DEF part
  <2>2. content' \in {content, session \o part, part}
    BY <1>2 DEF Commit, Committed, part
  <2>3. content' \in Data /\ Len(content') \in Nat
    BY <2>1, <2>2, Typed, LenProperties DEF Data
  <2>4. fileSize' \in {0, cachedSize, Len(content')} /\ remote' \in {remote, "whole"}
    BY <1>2 DEF Commit
  <2>5. fileSize' \in Nat
    BY <2>3, <2>4, Typed
  <2> QED
    BY <2>3, <2>4, <2>5 DEF Close, Data
<1> QED
  BY <1>1, <1>2 DEF Close
-----------------------------------------------------------------------------
(***************************************************************************)
(* Content.                                                                *)
(***************************************************************************)
LEMMA WriteKeeps ==
  ASSUME Trusted, IInv, NEW n \in 1..MaxWrite, Write(n), UNCHANGED appendSupported
  PROVE  SessionInv' /\ OpenInv' /\ NothingIsForgotten'
<1> USE DEF IInv, SessionInv, OpenInv
<1>0. n \in Nat \ {0} /\ accepted + n <= MaxFile /\ open /\ appendSupported \in BOOLEAN
        /\ failures \in Nat /\ accepted \in Nat
  BY SizesAssumption, SwitchesAssumption DEF Write, TypeOK
<1>1. CASE BeginFails(n)
  <2>1. UNCHANGED accepted
    <3>1. PICK out \in Outcome \ {"ok"} : Answer(n, BeginSucceeded(out))
      BY <1>1 DEF BeginFails
    <3>2. ~BeginSucceeded(out)
      BY <1>0, <3>1 DEF BeginSucceeded, Outcome, Answered, Trusted
    <3> QED
      BY <3>1, <3>2 DEF Answer
  <2> QED
    BY <1>1, <2>1 DEF BeginFails, NothingIsForgotten, Accepted
<1>2. CASE StoreFails(n)
  <2>1. failures' > 0 /\ remote' # "whole"
    BY <1>0, <1>2 DEF StoreFails, Begun
  <2> QED
    BY <1>0, <1>2, <2>1 DEF StoreFails, NothingIsForgotten
<1>3. CASE StoreOnly(n)
  <2>1. remote' # "whole"
    BY <1>0, <1>3 DEF StoreOnly, Begun
  <2>2. failures = 0 => cachedSize' = Len(cached')
    BY <1>0, <1>3, StoredIsData, Typed DEF StoreOnly
  <2>3. ASSUME failures = 0, userData = Len(session)
        PROVE  session \o (cached \o Pieces(n)) = [i \in 1..(accepted + n) |-> i]
    <3>1. session \o cached = Accepted
      BY <1>0, <2>3 DEF NothingIsForgotten
    <3>2. (session \o cached) \o Pieces(n) = session \o (cached \o Pieces(n))
      BY <1>0, PiecesGoLast
    <3> QED
      BY <1>0, <3>1, <3>2, AcceptedGrows
  <2>4. NothingIsForgotten'
    BY <1>3, <2>3 DEF StoreOnly, Answer, NothingIsForgotten, Accepted
  <2> QED
    BY <1>3, <2>1, <2>2, <2>4 DEF StoreOnly
<1>4. CASE StoreAndSend(n)
  <2> DEFINE part == Sent(cached \o Pieces(n), cachedSize + n)
  <2>1. /\ part \in Data /\ Len(part) = cachedSize + n /\ Len(part) \in Nat \ {0}
        /\ cachedSize = Len(cached) => part = cached \o Pieces(n)
    BY <1>0, StoredIsData, Typed
  <2>2. Len(session \o part) = Len(session) + Len(part)
    BY <2>1, Typed, ConcatProperties DEF Data
  <2>3. part = cached \o Pieces(n) => session \o part = (session \o cached) \o Pieces(n)
    BY <1>0, PiecesGoLast
  <2> HIDE DEF part
  <2>4. PICK out \in Outcome :
          /\ OffsetFits(out)
          /\ session' = IF Obeyed(out) THEN session \o part ELSE session
          /\ userData' = IF Succeeded(out) THEN userData + Len(part) ELSE userData
          /\ cached' = <<>> /\ cachedSize' = 0
          /\ Answer(n, Succeeded(out))
          /\ failures' = IF Succeeded(out) THEN failures ELSE failures + 1
    BY <1>4 DEF StoreAndSend, ForgetPart, part
  <2>5. appendSupported /\ open' = open /\ content' = content /\ fileSize' = fileSize
          /\ remote' # "whole"
    BY <1>0, <1>4 DEF StoreAndSend, PartIsFull, Begun
  <2>6. ~Succeeded(out) => failures' > 0
    BY <1>0, <2>4
  <2>7. CASE Succeeded(out) /\ Obeyed(out)
    <3>1. userData = Len(session) /\ userData' = Len(session')
      BY <2>1, <2>2, <2>4, <2>7, Typed DEF OffsetFits
    <3>2. session' \in Data /\ session' \o cached' = session'
      <4>1. session' \in Data
        BY <2>1, <2>4, <2>7, Typed, ConcatProperties DEF Data
      <4> QED
        BY <2>4, <4>1, ConcatEmptySeq DEF Data
    <3>3. failures' = 0 => session' = [i \in 1..(accepted + n) |-> i]
      <4>1. failures' = 0 => session \o cached = Accepted /\ part = cached \o Pieces(n)
        BY <1>0, <2>1, <2>4, <2>7, <3>1 DEF NothingIsForgotten
      <4> QED
        BY <1>0, <2>3, <2>4, <2>7, <4>1, AcceptedGrows
    <3>4. NothingIsForgotten'
      BY <2>4, <2>7, <3>2, <3>3 DEF NothingIsForgotten, Accepted, Answer
    <3> QED
      BY <2>4, <2>5, <3>1, <3>4, EmptySeq, Typed
  <2>8. CASE Succeeded(out) /\ ~Obeyed(out)
    <3>1. failures' = 0 => userData' > Len(session')
      BY <2>1, <2>4, <2>8, Typed
    <3> QED
      BY <2>4, <2>5, <3>1, EmptySeq, Typed DEF NothingIsForgotten
  <2>9. CASE ~Succeeded(out)
    BY <2>4, <2>5, <2>6, <2>9 DEF NothingIsForgotten
  <2> QED
    BY <2>7, <2>8, <2>9
<1> QED
  BY <1>1, <1>2, <1>3, <1>4 DEF Write

LEMMA CommitKeeps ==
  ASSUME Trusted, IInv, open, NEW out \in Outcome, Commit(out)
  PROVE  /\ failures = 0 /\ remote' = "whole" => content' = Accepted
         /\ fileSize' # 0 => remote' = "whole" /\ Len(content') = fileSize'
<1> USE DEF IInv
<1> DEFINE part == Sent(cached, cachedSize)
<1>0. appendSupported \in BOOLEAN /\ remote # "whole"
  BY SwitchesAssumption DEF TypeOK, OpenInv
<1>1. part \in Data /\ Len(part) = cachedSize
        /\ (cachedSize = Len(cached) => part = cached)
  BY SentIsData, Typed
<1> HIDE DEF part
<1>2. /\ OffsetFits(out)
      /\ IF Obeyed(out) THEN remote' = "whole" /\ content' = Committed(part)
                        ELSE UNCHANGED <<remote, content>>
      /\ fileSize' = IF ~Succeeded(out) THEN 0
                     ELSE IF ~appendSupported THEN cachedSize
                     ELSE IF out = "ok" THEN Len(content') ELSE 0
  BY DEF Commit, part
<1>3. ASSUME failures = 0, remote' = "whole" PROVE content' = Accepted
  <2>1. Obeyed(out) /\ content' = Committed(part) /\ userData = Len(session)
    BY <1>0, <1>2, <1>3 DEF OffsetFits
  <2>2. part = cached /\ session \o cached = Accepted
    BY <1>1, <1>3, <2>1 DEF SessionInv, NothingIsForgotten
  <2>3. CASE appendSupported
    BY <2>1, <2>2, <2>3 DEF Committed
  <2>4. CASE ~appendSupported
    <3>1. session \o cached = cached
      BY <2>4, Typed, ConcatEmptySeq DEF SessionInv, Data
    <3> QED
      BY <2>1, <2>2, <2>4, <3>1 DEF Committed
  <2> QED
    BY <1>0, <2>3, <2>4
<1>4. ASSUME fileSize' # 0 PROVE remote' = "whole" /\ Len(content') = fileSize'
  <2>1. out = "ok"
    BY <1>0, <1>2, <1>4 DEF Succeeded, Answered, Outcome, Trusted
  <2>2. Obeyed(out) /\ Succeeded(out)
    BY <2>1 DEF Obeyed, Succeeded, Answered
  <2>3. CASE appendSupported
    BY <1>2, <1>4, <2>1, <2>2, <2>3
  <2>4. CASE ~appendSupported
    BY <1>1, <1>2, <2>2, <2>4 DEF Committed
  <2> QED
    BY <1>0, <2>3, <2>4
<1> QED
  BY <1>3, <1>4

LEMMA Step == ASSUME Trusted, IInv, [Next]_vars PROVE IInv'
<1>1. ASSUME NEW n \in 1..MaxWrite, Write(n), UNCHANGED appendSupported PROVE IInv'
  <2>1. TypeOK'
    BY <1>1, WriteType DEF IInv
  <2>2. SessionInv' /\ OpenInv' /\ NothingIsForgotten'
    BY <1>1, WriteKeeps
  <2>3. open /\ open'
    BY <1>1 DEF Write, BeginFails, StoreFails, StoreOnly, StoreAndSend
  <2>4. WholeOrNothing' /\ LengthIsCommitted'
    BY <2>2, <2>3 DEF WholeOrNothing, LengthIsCommitted, OpenInv
  <2> QED
    BY <2>1, <2>2, <2>4 DEF IInv
<1>2. CASE Close /\ UNCHANGED appendSupported
  <2>1. TypeOK'
    BY <1>2, CloseType DEF IInv
  <2>2. SessionInv' /\ OpenInv' /\ NothingIsForgotten'
    BY <1>2 DEF IInv, Close, SessionInv, OpenInv, NothingIsForgotten
  <2>3. ASSUME ~NeedsCommit PROVE WholeOrNothing' /\ LengthIsCommitted'
    <3>1. remote' # "whole" /\ fileSize' = 0
      BY <1>2, <2>3 DEF IInv, Close, OpenInv
    <3> QED
      BY <3>1 DEF WholeOrNothing, LengthIsCommitted
  <2>4. ASSUME NeedsCommit PROVE WholeOrNothing' /\ LengthIsCommitted'
    <3>1. PICK out \in Outcome : Commit(out)
      BY <1>2, <2>4 DEF Close
    <3>2. /\ failures = 0 /\ remote' = "whole" => content' = Accepted
          /\ fileSize' # 0 => remote' = "whole" /\ Len(content') = fileSize'
      BY <1>2, <3>1, CommitKeeps DEF Close
    <3>3. Accepted' = Accepted /\ failures' = failures
      BY <1>2 DEF Close, Accepted
    <3> QED
      BY <3>2, <3>3 DEF WholeOrNothing, LengthIsCommitted
  <2> QED
    BY <2>1, <2>2, <2>3, <2>4, <1>2 DEF IInv, Close
<1>3. CASE UNCHANGED vars
  BY <1>3 DEF IInv, vars, TypeOK, SessionInv, OpenInv, NothingIsForgotten, WholeOrNothing,
     LengthIsCommitted, Accepted
<1> QED
  BY <1>1, <1>2, <1>3 DEF Next

LEMMA Start == Init => IInv
<1> SUFFICES ASSUME Init PROVE IInv
  OBVIOUS
<1>1. <<>> \in Data /\ Len(<<>>) = 0
  BY EmptySeq DEF Data
<1>2. TypeOK
  <2>1. cached \in Data /\ session \in Data /\ content \in Data /\ cachedSize \in 0..Len(cached)
    BY <1>1 DEF Init
  <2>2. userData \in Nat /\ fileSize \in Nat /\ accepted \in 0..MaxFile
          /\ failures \in 0..MaxFailures /\ remote \in {"none", "empty", "whole"}
    BY SizesAssumption DEF Init
  <2>3. open \in BOOLEAN /\ hasId \in BOOLEAN
    BY DEF Init
  <2> QED
    BY <2>1, <2>2, <2>3 DEF Init, TypeOK, Data
<1>3. SessionInv /\ OpenInv
  BY <1>1 DEF Init, SessionInv, OpenInv
<1>4. NothingIsForgotten /\ WholeOrNothing /\ LengthIsCommitted
  BY DEF Init, NothingIsForgotten, WholeOrNothing, LengthIsCommitted, Accepted
<1> QED
  BY <1>2, <1>3, <1>4 DEF IInv

THEOREM Invariant == ASSUME Trusted PROVE Spec => []IInv
<1>1. IInv /\ [Next]_vars => IInv'
  BY Step
<1> QED
  BY <1>1, Start, PTL DEF Spec

-----------------------------------------------------------------------------
(* Every variable keeps to its type, refusals or not.                      *)
THEOREM TypeCorrect == Spec => []TypeOK
<1>1. Init => TypeOK
  BY Start DEF IInv
<1>2. TypeOK /\ [Next]_vars => TypeOK'
  BY WriteType, CloseType DEF Next, vars, TypeOK
<1> QED
  BY <1>1, <1>2, PTL DEF Spec

(* What was acknowledged is in the session or the cache, in order and      *)
(* once, for parts and writes of every size (__write).                     *)
THEOREM DataIsKept == ASSUME Trusted PROVE Spec => []NothingIsForgotten
<1>1. IInv => NothingIsForgotten
  BY DEF IInv
<1> QED
  BY <1>1, Invariant, PTL

(* What is committed under the file's name is the whole file (__close).    *)
THEOREM FileIsWhole == ASSUME Trusted PROVE Spec => []WholeOrNothing
<1>1. IInv => WholeOrNothing
  BY DEF IInv
<1> QED
  BY <1>1, Invariant, PTL

(* A length that is shown is that of the file in the cloud (uploadFile).   *)
THEOREM LengthIsTrue == ASSUME Trusted PROVE Spec => []LengthIsCommitted
<1>1. IInv => LengthIsCommitted
  BY DEF IInv
<1> QED
  BY <1>1, Invariant, PTL
=============================================================================
