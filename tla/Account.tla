------------------------------ MODULE Account ------------------------------
(***************************************************************************)
(* The tokens a handler works with: auth of both handlers, isAuthed and    *)
(* getExpirationData, the token files, and the start of the worker up to   *)
(* getAccountInfo (source/shared/dos_handler.cpp, source/*_handler/).      *)
(*                                                                         *)
(* Each request, each write of a file and each look at the clock is a      *)
(* step, so that time passes and the machine may stop in between.  A token *)
(* is named by the second until which the service takes it.                *)
(***************************************************************************)
EXTENDS Integers

CONSTANTS
  Services,  \* the handlers to follow: "google", "dropbox"
  Lifetime,  \* seconds a new access token of Google Drive is good for
  ClockHalf, \* 2^31: what an int counts up to, in seconds since 1978
  MaxTime,   \* bound: seconds that pass
  MaxDelay,  \* bound: seconds between an answer being given and read
  MaxStarts  \* bound: starts of the handler

ASSUME ServicesAssumption == Services \subseteq {"google", "dropbox"}
ASSUME TimesAssumption ==
  /\ Lifetime \in Nat /\ MaxDelay \in Nat /\ MaxDelay < Lifetime
  /\ ClockHalf \in Nat \ {0} /\ MaxTime \in Nat
ASSUME BoundsAssumption == MaxStarts \in Nat

None == -1                       \* a null pointer, or a file that is not there
Broken == 0                      \* part of a token
Forever == MaxTime + Lifetime + 1 \* an access token of Dropbox, or the refresh token

VARIABLES
  service,                  \* whose handler it is
  now,                      \* seconds since the beginning of 1978
  accessFile, refreshFile,  \* what the token files hold
  codeUsed,                 \* the service has taken the client code
  pc,                       \* where the worker is
  caller,                   \* who called auth or isAuthed
  accessToken, refreshToken, authed, expiresAt,
                            \* _accessToken, _refreshToken, _authed, _tokenExpiresAt
  reply,                    \* the answer to the request that is under way
  faults,                   \* what has failed since the start
  starts

files == <<accessFile, refreshFile>>
memory == <<accessToken, refreshToken, authed, expiresAt>>
vars == <<service, now, files, codeUsed, pc, caller, memory, reply, faults, starts>>

Tokens == None..Forever
Saving == {"saveAccess", "saveRefresh", "saveRenewed"}
Waiting == {"login", "examine", "renew", "verify"}
Resting == {"down", "up", "ended"}

Reply(kind, token, expires) ==
  [kind |-> kind, token |-> token, expires |-> expires, age |-> 0]
NoReply == Reply("none", None, 0)
Lost == Reply("lost", None, 0)
Page == Reply("page", None, 0)   \* anything that has none of the keys looked for
Invalid == Reply("invalid", None, 0)
Issued(token) == Reply("tokens", token, token - now)
Info(token) == Reply("info", token, token - now)

TypeOK ==
  /\ service \in Services
  /\ now \in 0..MaxTime
  /\ accessFile \in Tokens /\ refreshFile \in {None, Broken, Forever}
  /\ codeUsed \in BOOLEAN
  /\ pc \in Resting \cup Waiting \cup Saving
        \cup {"auth", "askRenew", "load", "gate", "check", "return", "send"}
  /\ caller \in {"start", "worker", "account", "request"}
  /\ accessToken \in Tokens /\ refreshToken \in {None, Broken, Forever}
  /\ authed \in BOOLEAN /\ expiresAt \in Int
  /\ reply \in [kind : {"none", "lost", "page", "invalid", "tokens", "info"},
                token : Tokens, expires : Nat, age : 0..MaxDelay]
  /\ reply.kind # "none" => pc \in Waiting \cup Saving
  /\ faults \subseteq {"request", "page", "file"}
  /\ starts \in 0..MaxStarts

Init ==
  /\ service \in Services
  /\ now = 0
  /\ accessFile = None /\ refreshFile = None /\ codeUsed = FALSE
  /\ pc = "down" /\ caller = "start"
  /\ accessToken = None /\ refreshToken = None /\ authed = FALSE /\ expiresAt = 0
  /\ reply = NoReply /\ faults = {} /\ starts = 0

-----------------------------------------------------------------------------
(***************************************************************************)
(* Time, and the machine.                                                  *)
(***************************************************************************)

(* 86400 * ds_Days + ... is an int.                                        *)
Seconds(t) == ((t + ClockHalf) % (2 * ClockHalf)) - ClockHalf

Tick ==
  /\ now < MaxTime /\ now' = now + 1
  /\ \/ pc \in Resting /\ UNCHANGED reply
     \/ /\ pc \in Waiting /\ reply.age < MaxDelay
        /\ reply' = [reply EXCEPT !.age = @ + 1]
  /\ UNCHANGED <<service, files, codeUsed, pc, caller, memory, faults, starts>>

(* A file that is open for writing loses its tail, or all it had.          *)
Torn(file) == {file, None, Broken}

Crash ==
  /\ pc # "down" /\ pc' = "down"
  /\ accessFile' \in IF pc \in {"saveAccess", "saveRenewed"} THEN Torn(accessFile) ELSE {accessFile}
  /\ refreshFile' \in IF pc = "saveRefresh" THEN Torn(refreshFile) ELSE {refreshFile}
  /\ accessToken' = None /\ refreshToken' = None /\ authed' = FALSE /\ expiresAt' = 0
  /\ caller' = "start" /\ reply' = NoReply /\ faults' = {}
  /\ UNCHANGED <<service, now, codeUsed, starts>>

-----------------------------------------------------------------------------
(***************************************************************************)
(* Files.  A file is not opened for reading, or read only in part, which   *)
(* leaves a buffer all the same; it is not opened for writing, or written  *)
(* only in part.                                                           *)
(***************************************************************************)
Loads(file) == IF file = None THEN {None} ELSE {file, None, Broken}
Writes(token, file) == {token} \cup Torn(file)
Fault(kind, happened) == IF happened THEN faults \cup {kind} ELSE faults

-----------------------------------------------------------------------------
(***************************************************************************)
(* auth                                                                    *)
(***************************************************************************)

LoadTokens ==
  /\ accessToken' \in Loads(accessFile)
  /\ refreshToken' \in IF service = "google" THEN Loads(refreshFile) ELSE {None}
  /\ faults' = Fault("file", accessToken' # accessFile
                               \/ (service = "google" /\ refreshToken' # refreshFile))

(* The constructor and the beginning of auth, which needs the client code, *)
(* Dropbox only when it has no token.                                      *)
Start ==
  /\ pc = "down" /\ starts < MaxStarts /\ starts' = starts + 1
  /\ \/ /\ LoadTokens
        /\ pc' = "auth" /\ UNCHANGED caller
     \/ /\ service = "google" \/ None \in Loads(accessFile)
        /\ pc' = "check" /\ caller' = "worker"
        /\ faults' = faults \cup {"file"}
        /\ UNCHANGED <<accessToken, refreshToken>>
  /\ UNCHANGED <<service, now, files, codeUsed, authed, expiresAt, reply>>

FirstTimeByAccess == accessToken = None                  \* mutant of FirstTime
FirstTime == accessToken = None /\ (service = "google" => refreshToken = None)

(* What becomes of a request that the service would answer with "answer":  *)
(* that, nothing, or a page.                                               *)
Replies(answer) == {answer, Lost, Page}
Request(answer, next) ==
  /\ reply' \in Replies(answer)
  /\ faults' = IF reply' = answer THEN faults
               ELSE faults \cup {IF reply' = Page THEN "page" ELSE "request"}
  /\ pc' = next

NewToken == IF service = "google" THEN now + Lifetime ELSE Forever

(* The client code is good for one login, heard of or not.                 *)
AskLogin ==
  /\ pc = "auth" /\ FirstTime
  /\ Request(IF codeUsed THEN Page ELSE Issued(NewToken), "login")
  /\ codeUsed' \in BOOLEAN /\ (codeUsed \/ reply'.kind = "tokens" => codeUsed')
  /\ UNCHANGED <<service, now, files, caller, memory, starts>>

(* Dropbox asks nobody whether its token is good.                          *)
TrustToken ==
  /\ pc = "auth" /\ ~FirstTime /\ service = "dropbox"
  /\ authed' = TRUE /\ pc' = "gate"
  /\ UNCHANGED <<service, now, files, codeUsed, caller, accessToken, refreshToken,
                 expiresAt, reply, faults, starts>>

(* tokeninfo, with the token or with "(null)".                             *)
InfoOn(token) == IF token > now THEN Info(token) ELSE Invalid

AskInfo ==
  /\ pc = "auth" /\ ~FirstTime /\ service = "google"
  /\ Request(InfoOn(accessToken), "examine")
  /\ UNCHANGED <<service, now, files, codeUsed, caller, memory, starts>>

HearLogin ==
  /\ pc = "login"
  /\ IF reply.kind = "tokens" THEN pc' = "saveAccess" /\ UNCHANGED reply
                              ELSE pc' = "gate" /\ reply' = NoReply
  /\ UNCHANGED <<service, now, files, codeUsed, caller, memory, faults, starts>>

SaveAccess ==
  /\ pc = "saveAccess"
  /\ accessFile' \in Writes(reply.token, accessFile)
  /\ faults' = Fault("file", accessFile' # reply.token)
  /\ IF service = "google" THEN pc' = "saveRefresh" /\ UNCHANGED reply
                           ELSE pc' = "load" /\ reply' = NoReply
  /\ UNCHANGED <<service, now, refreshFile, codeUsed, caller, memory, starts>>

SaveRefresh ==
  /\ pc = "saveRefresh" /\ pc' = "load" /\ reply' = NoReply
  /\ refreshFile' \in Writes(Forever, refreshFile)
  /\ faults' = Fault("file", refreshFile' # Forever)
  /\ UNCHANGED <<service, now, accessFile, codeUsed, caller, memory, starts>>

(* Dropbox is content whatever it has loaded.                              *)
LoadSaved ==
  /\ pc = "load" /\ pc' = "gate"
  /\ LoadTokens
  /\ authed' = (service = "dropbox")
  /\ UNCHANGED <<service, now, files, codeUsed, caller, expiresAt, reply, starts>>

(* getExpirationData; a page without "expires_in" gives zero.              *)
Expiry(r) == Seconds(now) + r.expires

Believed(kind) == kind \in {"info", "page"}

Unquestioned(kind) == kind # "lost"                      \* mutant of Verified
Verified(kind) == Believed(kind)

HearInfo ==
  /\ pc = "examine" /\ reply' = NoReply
  /\ pc' = IF reply.kind = "invalid" THEN "askRenew" ELSE "gate"
  /\ IF Believed(reply.kind) THEN authed' = TRUE /\ expiresAt' = Expiry(reply)
                             ELSE UNCHANGED <<authed, expiresAt>>
  /\ UNCHANGED <<service, now, files, codeUsed, caller, accessToken, refreshToken, faults, starts>>

AskRenew ==
  /\ pc = "askRenew"
  /\ Request(IF refreshToken = Forever THEN Issued(NewToken) ELSE Page, "renew")
  /\ UNCHANGED <<service, now, files, codeUsed, caller, memory, starts>>

HearRenew ==
  /\ pc = "renew"
  /\ IF reply.kind = "tokens"
       THEN pc' = "saveRenewed" /\ expiresAt' = Expiry(reply) /\ UNCHANGED reply
       ELSE pc' = "gate" /\ reply' = NoReply /\ UNCHANGED expiresAt
  /\ UNCHANGED <<service, now, files, codeUsed, caller, accessToken, refreshToken,
                 authed, faults, starts>>

SavedElsewhere(token) ==                                  \* mutant of SavedRenewed
  /\ refreshFile' \in Writes(token, refreshFile)
  /\ UNCHANGED accessFile
SavedBoth(token) ==                                       \* mutant of SavedRenewed
  /\ accessFile' \in Writes(token, accessFile)
  /\ refreshFile' = None
SavedRenewed(token) ==
  /\ accessFile' \in Writes(token, accessFile)
  /\ UNCHANGED refreshFile

KeptInMemory(token) == accessToken' = token                 \* mutant of Reloaded
Reloaded(token) == accessToken' \in Loads(accessFile')

SaveRenewed ==
  /\ pc = "saveRenewed" /\ pc' = "gate" /\ reply' = NoReply
  /\ SavedRenewed(reply.token)
  /\ Reloaded(reply.token)
  /\ faults' = Fault("file", accessFile' # reply.token \/ accessToken' # reply.token)
  /\ UNCHANGED <<service, now, codeUsed, caller, refreshToken, authed, expiresAt, starts>>

(* auth comes back to the start of the worker, or to isAuthed.             *)
Leave ==
  IF caller = "start" THEN pc' = "check" /\ caller' = "worker"
                      ELSE pc' = "return" /\ UNCHANGED caller

(* "ready to work?"                                                        *)
Ready == accessToken # None /\ refreshToken # None

AskVerify ==
  /\ pc = "gate" /\ Ready /\ ~authed
  /\ Request(InfoOn(accessToken), "verify")
  /\ UNCHANGED <<service, now, files, codeUsed, caller, memory, starts>>

NothingToVerify ==
  /\ pc = "gate" /\ ~(Ready /\ ~authed)
  /\ Leave
  /\ UNCHANGED <<service, now, files, codeUsed, memory, reply, faults, starts>>

HearVerify ==
  /\ pc = "verify" /\ reply' = NoReply
  /\ IF Verified(reply.kind) THEN authed' = TRUE /\ expiresAt' = Expiry(reply)
                             ELSE UNCHANGED <<authed, expiresAt>>
  /\ Leave
  /\ UNCHANGED <<service, now, files, codeUsed, accessToken, refreshToken, faults, starts>>

-----------------------------------------------------------------------------
(***************************************************************************)
(* isAuthed, which every request calls first.                              *)
(***************************************************************************)
Expired == service = "google" /\ expiresAt <= Seconds(now)

Again == pc' = "check" /\ UNCHANGED caller                  \* mutant of Unauthorised
Unauthorised ==
  pc' = (IF caller = "request" THEN "up" ELSE "ended") /\ UNCHANGED caller

Check ==
  /\ pc = "check"
  /\ IF authed /\ Expired THEN pc' = "auth" /\ authed' = FALSE
                          ELSE pc' = "return" /\ UNCHANGED authed
  /\ UNCHANGED <<service, now, files, codeUsed, caller, accessToken, refreshToken,
                 expiresAt, reply, faults, starts>>

(* The worker asks, then getAccountInfo asks again.  A later request       *)
(* fails, and so will all that follow; a worker that starts ends.          *)
Return ==
  /\ pc = "return"
  /\ \/ ~authed /\ Unauthorised
     \/ authed /\ caller = "worker" /\ caller' = "account" /\ pc' = "check"
     \/ authed /\ caller # "worker" /\ pc' = "send" /\ UNCHANGED caller
  /\ UNCHANGED <<service, now, files, codeUsed, memory, reply, faults, starts>>

(* getAccountInfo may also fail for the licence.                           *)
Send ==
  /\ pc = "send"
  /\ \/ pc' = "up" /\ UNCHANGED faults
     \/ caller = "account" /\ pc' = "ended" /\ faults' = faults \cup {"request"}
  /\ UNCHANGED <<service, now, files, codeUsed, caller, memory, reply, starts>>

NewRequest ==
  /\ pc = "up" /\ pc' = "check" /\ caller' = "request"
  /\ UNCHANGED <<service, now, files, codeUsed, memory, reply, faults, starts>>

-----------------------------------------------------------------------------
Auth ==
  \/ AskLogin \/ TrustToken \/ AskInfo \/ HearLogin \/ SaveAccess \/ SaveRefresh
  \/ LoadSaved \/ HearInfo \/ AskRenew \/ HearRenew \/ SaveRenewed
  \/ AskVerify \/ NothingToVerify \/ HearVerify
Worker == Auth \/ Check \/ Return \/ Send

Next == Start \/ Worker \/ NewRequest \/ Crash \/ Tick

(* The worker runs when it can, and a request ends: libcurl returns.       *)
Spec == Init /\ [][Next]_vars /\ WF_vars(Worker)

-----------------------------------------------------------------------------
(***************************************************************************)
(* Properties.                                                             *)
(***************************************************************************)

(* A request goes out with a token the service takes, or took within the   *)
(* delay of an answer: a token that was not renewed, not saved or not read *)
(* back is not used.  Not so when an error page was taken for an answer of *)
(* tokeninfo, after the 31 bits of seconds have run out, or on Dropbox     *)
(* when a file was refused (isAuthed, auth).                               *)
RequestsCarryAToken ==
  pc = "send" =>
    IF service = "google"
      THEN "page" \in faults \/ now >= ClockHalf \/ accessToken + MaxDelay > now
      ELSE "file" \in faults \/ accessToken # None

(* With its refresh token on the disk a handler comes up, and stays        *)
(* authorised however many access tokens expire, until something fails; a  *)
(* crash in the middle of a login or of a renewal is no reason (auth).     *)
AuthorisedUnlessFault ==
  pc \in {"up", "ended"} /\ refreshFile = Forever /\ faults = {} => authed

(* A token in memory is the one on the disk, which the next start will     *)
(* find: no token is used that could not be saved (auth).                  *)
TokenInUseIsSaved == accessToken \in {None, Broken, accessFile}

(* The refresh token is got once, for the client code is good for one      *)
(* login; no failure and no crash on a later path costs it (auth).         *)
RefreshTokenIsKept == [][refreshFile = Forever => refreshFile' = Forever]_vars

(* isAuthed comes back, with a renewal or without one: nothing that fails  *)
(* makes it try for ever.                                                  *)
RequestEnds == pc = "check" ~> pc \in Resting
=============================================================================
