------------------------------- MODULE Upload -------------------------------
(***************************************************************************)
(* A file written anew: __write and __close of source/shared/              *)
(* dos_handler.cpp with beginUpload and uploadFile of both handlers.       *)
(* Dropbox appends parts to an upload session and commits it at the end;   *)
(* Google Drive makes an empty file and puts the whole content into it.    *)
(*                                                                         *)
(* Data is counted in pieces, the unit in which storeData() can fail.  A   *)
(* piece is its number in the file the client writes.  The chunks the      *)
(* pieces lie in, and the stores that damage them, are ChunkCache's.       *)
(***************************************************************************)
EXTENDS Naturals, Sequences

CONSTANTS
  Modes,           \* values of _appendUploadSupported to follow
  Refusals,        \* answers each service may give instead of obeying
  MemoryCanFail,   \* malloc() in __storeData may return NULL
  PartSize,        \* pieces cached before a part is sent (1 MB in the code)
  MaxWrite,        \* bound: pieces in a write
  MaxFile,         \* bound: pieces in the file
  MaxFailures      \* bound: failed writes after which the client closes

ASSUME SwitchesAssumption == Modes \subseteq BOOLEAN /\ MemoryCanFail \in BOOLEAN
(* "refused" is an answer with a JSON error, "unparsed" one without, such  *)
(* as a page of a proxy.  curl reports neither (no CURLOPT_FAILONERROR).   *)
ASSUME RefusalsAssumption == Refusals \in [BOOLEAN -> SUBSET {"refused", "unparsed"}]
ASSUME SizesAssumption == PartSize \in Nat \ {0} /\ MaxWrite \in Nat
                             /\ MaxFile \in Nat /\ MaxFailures \in Nat

VARIABLES
  appendSupported, \* _appendUploadSupported: TRUE for Dropbox
  open,       \* the handle is open
  hasId,      \* _file->_id is set: a session or an empty file exists
  cached,     \* the pieces in _cache
  cachedSize, \* _cachedFileSize
  userData,   \* _userData: the offset of the next part
  session,    \* the pieces in the upload session
  remote,     \* the file in the cloud: "none", "empty" or "whole"
  content,    \* the pieces in that file
  fileSize,   \* _file->_fileSize
  accepted,   \* pieces whose writes were answered without an error
  failures    \* writes that failed after they had changed cache or session

vars == <<appendSupported, open, hasId, cached, cachedSize, userData, session, remote, content,
          fileSize, accepted, failures>>

TypeOK ==
  /\ appendSupported \in Modes
  /\ open \in BOOLEAN /\ hasId \in BOOLEAN /\ failures \in 0..MaxFailures
  /\ \A s \in {cached, session, content} : s \in Seq(1..MaxFile)
  /\ cachedSize \in 0..Len(cached)
  /\ userData \in Nat /\ fileSize \in Nat
  /\ remote \in {"none", "empty", "whole"}
  /\ accepted \in 0..MaxFile

Init ==
  /\ appendSupported \in Modes
  /\ open = TRUE /\ hasId = FALSE
  /\ cached = <<>> /\ cachedSize = 0 /\ userData = 0
  /\ session = <<>> /\ remote = "none" /\ content = <<>> /\ fileSize = 0
  /\ accepted = 0 /\ failures = 0

-----------------------------------------------------------------------------
(***************************************************************************)
(* Requests.  A request may be lost, or obeyed and its answer lost; both   *)
(* are errors of curl, like a missing token.  A session takes a part only  *)
(* at its end.                                                             *)
(***************************************************************************)
Outcome == {"ok", "unheard", "lost"} \cup Refusals[appendSupported]
Obeyed(out) == out \in {"ok", "unheard"}
Answered(out) == out \notin {"unheard", "lost"}

(* The value uploadFile returns.                                           *)
CurlIgnored(out) == TRUE                    \* mutant of Succeeded
Succeeded(out) ==
  IF appendSupported THEN out \in {"ok", "unparsed"} ELSE Answered(out)

(* The value beginUpload returns.                                          *)
BeginSucceeded(out) == IF appendSupported THEN out = "ok" ELSE Answered(out)

(* The pieces rdfu gives to curl, and the offset that goes with them.      *)
Sent(cache, size) == SubSeq(cache, 1, size)
OffsetFits(out) == Obeyed(out) => userData = Len(session)

-----------------------------------------------------------------------------
(***************************************************************************)
(* __write                                                                 *)
(***************************************************************************)
Pieces(n) == [i \in 1..n |-> accepted + i]

Answer(n, ok) == accepted' = IF ok THEN accepted + n ELSE accepted

(* beginUpload is tried by each write until the file has an id.  One that   *)
(* Google obeys unheard has made the file and leaves the handler without it. *)
BeginFails(n) ==
  /\ ~hasId
  /\ \E out \in Outcome \ {"ok"} :
       /\ Answer(n, BeginSucceeded(out))
       /\ remote' = IF out = "unheard" /\ ~appendSupported THEN "empty" ELSE remote
  /\ UNCHANGED <<open, hasId, cached, cachedSize, userData, session, content,
                 fileSize, failures>>

Begun ==
  /\ hasId' = TRUE
  /\ remote' = IF hasId \/ appendSupported THEN remote ELSE "empty"

(* storeData fails at one of the pieces and leaves those before it.        *)
StoreFails(n) ==
  /\ MemoryCanFail
  /\ Begun
  /\ \E k \in 0..n - 1 : cached' = cached \o SubSeq(Pieces(n), 1, k)
  /\ Answer(n, FALSE) /\ failures' = failures + 1
  /\ UNCHANGED <<open, cachedSize, userData, session, content, fileSize>>

PartIsFull(n) == appendSupported /\ cachedSize + n >= PartSize

StoreOnly(n) ==
  /\ ~PartIsFull(n)
  /\ Begun
  /\ cached' = cached \o Pieces(n) /\ cachedSize' = cachedSize + n
  /\ Answer(n, TRUE)
  /\ UNCHANGED <<open, userData, session, content, fileSize, failures>>

(* A full part is sent, and forgotten whether or not that succeeded.       *)
KeepPart(part) == cached' = part /\ UNCHANGED cachedSize  \* mutant of ForgetPart
KeepSize(part) == cached' = <<>> /\ UNCHANGED cachedSize  \* mutant of ForgetPart
ForgetPart(part) == cached' = <<>> /\ cachedSize' = 0

StoreAndSend(n) ==
  /\ PartIsFull(n)
  /\ Begun
  /\ \E out \in Outcome :
       LET part == Sent(cached \o Pieces(n), cachedSize + n) IN
         /\ OffsetFits(out)
         /\ session' = IF Obeyed(out) THEN session \o part ELSE session
         /\ userData' = IF Succeeded(out) THEN userData + Len(part) ELSE userData
         /\ ForgetPart(part)
         /\ Answer(n, Succeeded(out))
         /\ failures' = IF Succeeded(out) THEN failures ELSE failures + 1
  /\ UNCHANGED <<open, content, fileSize>>

Write(n) ==
  /\ open /\ accepted + n <= MaxFile /\ failures < MaxFailures
  /\ BeginFails(n) \/ StoreFails(n) \/ StoreOnly(n) \/ StoreAndSend(n)

-----------------------------------------------------------------------------
(***************************************************************************)
(* __close answers DOSTRUE whatever becomes of the upload.                 *)
(***************************************************************************)
NeedsCommit == appendSupported \/ (cachedSize # 0 /\ cached # <<>>)

CommitLastPart(part) == part                          \* mutant of Committed
Committed(part) == IF appendSupported THEN session \o part ELSE part

Commit(out) ==
  LET part == Sent(cached, cachedSize) IN
    /\ OffsetFits(out) /\ (Obeyed(out) => hasId)
    /\ IF Obeyed(out) THEN remote' = "whole" /\ content' = Committed(part)
                      ELSE UNCHANGED <<remote, content>>
    /\ fileSize' = IF ~Succeeded(out) THEN 0
                   ELSE IF ~appendSupported THEN cachedSize
                   ELSE IF out = "ok" THEN Len(content') ELSE 0

Close ==
  /\ open
  /\ open' = FALSE
  /\ IF NeedsCommit THEN \E out \in Outcome : Commit(out)
                    ELSE UNCHANGED <<remote, content, fileSize>>
  /\ UNCHANGED <<hasId, cached, cachedSize, userData, session, accepted, failures>>

Next ==
  /\ (\E n \in 1..MaxWrite : Write(n)) \/ Close
  /\ UNCHANGED appendSupported

Spec == Init /\ [][Next]_vars

-----------------------------------------------------------------------------
(***************************************************************************)
(* Properties.                                                             *)
(***************************************************************************)
Accepted == [i \in 1..accepted |-> i]

(* What a client was told is written is in the session or still cached, in *)
(* order and once, until a write fails on the way or the offset no longer  *)
(* fits and the session can only be given up (__write, uploadFile).        *)
NothingIsForgotten ==
  open /\ failures = 0 /\ userData = Len(session) => session \o cached = Accepted

(* A file whose writes all succeeded is in the cloud as it was written or  *)
(* not at all: no answer that was lost and no refusal leaves a part of it  *)
(* there under its name (__close, uploadFile).                             *)
WholeOrNothing ==
  ~open /\ failures = 0 /\ remote = "whole" => content = Accepted

(* "commit data & set final file length" says __close of uploadFile.       *)
LengthIsCommitted == fileSize # 0 => remote = "whole" /\ Len(content) = fileSize
=============================================================================
