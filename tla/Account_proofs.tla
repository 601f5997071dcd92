--------------------------- MODULE Account_proofs ---------------------------
(***************************************************************************)
(* Proofs about Account, for any lifetime of tokens, width of the clock    *)
(* and delay of answers.                                                   *)
(***************************************************************************)
EXTENDS Account, TLAPS

LoggingIn == {"login", "saveAccess", "saveRefresh"}
Renewing == {"examine", "askRenew", "renew", "saveRenewed", "verify"}

(* What waits in "reply", and for how long.                                *)
ReplyInv ==
  /\ pc \in Saving => reply.kind = "tokens"
  /\ reply.kind = "tokens" =>
       /\ pc \in {"login", "renew"} \cup Saving
       /\ reply.token > Broken
       /\ service = "google" => /\ reply.token = now - reply.age + Lifetime
                                /\ reply.expires = reply.token - (now - reply.age)
  /\ reply.kind = "info" =>
       /\ pc \in {"examine", "verify"}
       /\ reply.token = accessToken
       /\ reply.expires = reply.token - (now - reply.age)
       /\ reply.expires > 0
  /\ pc \in {"examine", "verify"} /\ reply.kind = "page" => "page" \in faults
  /\ pc \in {"examine", "verify", "renew"} /\ reply.kind = "lost" => faults # {}

(* What each service leaves out.                                           *)
ServiceInv ==
  /\ service = "dropbox" =>
       /\ refreshToken = None /\ refreshFile = None
       /\ pc \notin Renewing \cup {"saveRefresh"}
  /\ pc \in LoggingIn => FirstTime
  /\ pc = "down" => ~authed /\ faults = {}
  /\ service = "google" /\ pc \in LoggingIn \cup Renewing \cup {"auth", "load"} => ~authed
  /\ pc = "send" => authed

(* The client code is used before the refresh token is saved, and then     *)
(* there is no other login.                                                *)
CodeInv ==
  /\ refreshFile = Forever => codeUsed
  /\ pc \in {"saveAccess", "saveRefresh"} \/ (pc = "login" /\ reply.kind = "tokens")
       => codeUsed /\ refreshFile # Forever

(* The time of expiry is known, but for the delay of the answer; behind    *)
(* the look at the clock the token is good, but for the same delay.        *)
GoodInv ==
  /\ service = "google" /\ authed /\ "page" \notin faults /\ now < ClockHalf =>
       /\ expiresAt <= accessToken + MaxDelay
       /\ pc \in {"gate", "return", "send"} => accessToken + MaxDelay > now
  /\ service = "dropbox" /\ "file" \notin faults =>
       /\ authed => accessToken # None
       /\ pc = "load" => accessFile # None

(* While nothing fails: the refresh token is at hand, and brings a token   *)
(* that is accepted.                                                       *)
Undisturbed == service = "google" /\ refreshFile = Forever /\ faults = {}
UndisturbedInv ==
  /\ service = "google" /\ faults = {} /\ pc \in {"saveRefresh", "load"} =>
       accessFile > now
  /\ Undisturbed =>
       /\ pc \notin {"down", "load"} => refreshToken = Forever
       /\ pc = "renew" => reply.kind = "tokens"
       /\ pc = "verify" => reply.kind = "info"
       /\ pc = "examine" => reply.kind \in {"info", "invalid"}
       /\ pc = "gate" => authed \/ accessToken > now
       /\ pc \in {"check", "return", "send", "up", "ended"} => authed

IInv ==
  /\ TypeOK /\ ReplyInv /\ ServiceInv /\ CodeInv /\ GoodInv /\ UndisturbedInv
  /\ TokenInUseIsSaved
-----------------------------------------------------------------------------
(* Every step keeps the types.                                             *)
LEMMA TypeStep == ASSUME TypeOK, ReplyInv, [Next]_vars PROVE TypeOK'
<1> USE ServicesAssumption, TimesAssumption, BoundsAssumption
    DEF TypeOK, ReplyInv, None, Broken, Forever, Tokens, Waiting, Saving, Resting, Reply,
        NoReply, Lost, Page, Invalid, Issued, Info, NewToken, files, memory, vars
<1>1. CASE Start
  <2> USE <1>1 DEF Start, LoadTokens, Loads, Fault
  <2>1. /\ service' \in Services /\ now' \in 0..MaxTime
        /\ codeUsed' \in BOOLEAN /\ starts' \in 0..MaxStarts
    OBVIOUS
  <2>2. /\ accessFile' \in Tokens /\ refreshFile' \in {None, Broken, Forever}
        /\ accessToken' \in Tokens /\ refreshToken' \in {None, Broken, Forever}
    OBVIOUS
  <2>3. authed' \in BOOLEAN
    OBVIOUS
  <2>4. expiresAt' \in Int
    OBVIOUS
  <2>5. reply' \in [kind : {"none", "lost", "page", "invalid", "tokens", "info"},
                   token : Tokens, expires : Nat, age : 0..MaxDelay]
    OBVIOUS
  <2>6. /\ pc' \in Resting \cup Waiting \cup Saving
               \cup {"auth", "askRenew", "load", "gate", "check", "return", "send"}
        /\ caller' \in {"start", "worker", "account", "request"}
    OBVIOUS
  <2>7. (reply'.kind # "none" => pc' \in Waiting \cup Saving)
          /\ faults' \subseteq {"request", "page", "file"}
    OBVIOUS
  <2> QED
    BY <2>1, <2>2, <2>3, <2>4, <2>5, <2>6, <2>7
<1>2. CASE AskLogin
  <2> USE <1>2 DEF AskLogin, Request, Replies
  <2>1. /\ service' \in Services /\ now' \in 0..MaxTime
        /\ codeUsed' \in BOOLEAN /\ starts' \in 0..MaxStarts
    OBVIOUS
  <2>2. /\ accessFile' \in Tokens /\ refreshFile' \in {None, Broken, Forever}
        /\ accessToken' \in Tokens /\ refreshToken' \in {None, Broken, Forever}
    OBVIOUS
  <2>3. authed' \in BOOLEAN
    OBVIOUS
  <2>4. expiresAt' \in Int
    OBVIOUS
  <2>5. reply' \in [kind : {"none", "lost", "page", "invalid", "tokens", "info"},
                   token : Tokens, expires : Nat, age : 0..MaxDelay]
    OBVIOUS
  <2>6. /\ pc' \in Resting \cup Waiting \cup Saving
               \cup {"auth", "askRenew", "load", "gate", "check", "return", "send"}
        /\ caller' \in {"start", "worker", "account", "request"}
    OBVIOUS
  <2>7. (reply'.kind # "none" => pc' \in Waiting \cup Saving)
          /\ faults' \subseteq {"request", "page", "file"}
    OBVIOUS
  <2> QED
    BY <2>1, <2>2, <2>3, <2>4, <2>5, <2>6, <2>7
<1>3. CASE TrustToken
  BY <1>3, SMTT(30) DEF TrustToken
<1>4. CASE AskInfo
  BY <1>4, SMTT(30) DEF AskInfo, Request, Replies, InfoOn
<1>5. CASE HearLogin
  BY <1>5, SMTT(30) DEF HearLogin
<1>6. CASE SaveAccess
  BY <1>6, SMTT(30) DEF SaveAccess, Writes, Torn, Fault
<1>7. CASE SaveRefresh
  BY <1>7, SMTT(30) DEF SaveRefresh, Writes, Torn, Fault
<1>8. CASE LoadSaved
  BY <1>8, SMTT(30) DEF LoadSaved, LoadTokens, Loads, Fault
<1>9. CASE HearInfo
  <2> USE <1>9 DEF HearInfo, Believed, Expiry, Seconds
  <2>1. /\ service' \in Services /\ now' \in 0..MaxTime
        /\ codeUsed' \in BOOLEAN /\ starts' \in 0..MaxStarts
    OBVIOUS
  <2>2. /\ accessFile' \in Tokens /\ refreshFile' \in {None, Broken, Forever}
        /\ accessToken' \in Tokens /\ refreshToken' \in {None, Broken, Forever}
    OBVIOUS
  <2>3. authed' \in BOOLEAN
    OBVIOUS
  <2>4. expiresAt' \in Int
    OBVIOUS
  <2>5. reply' \in [kind : {"none", "lost", "page", "invalid", "tokens", "info"},
                   token : Tokens, expires : Nat, age : 0..MaxDelay]
    OBVIOUS
  <2>6. /\ pc' \in Resting \cup Waiting \cup Saving
               \cup {"auth", "askRenew", "load", "gate", "check", "return", "send"}
        /\ caller' \in {"start", "worker", "account", "request"}
    OBVIOUS
  <2>7. (reply'.kind # "none" => pc' \in Waiting \cup Saving)
          /\ faults' \subseteq {"request", "page", "file"}
    OBVIOUS
  <2> QED
    BY <2>1, <2>2, <2>3, <2>4, <2>5, <2>6, <2>7
<1>10. CASE AskRenew
  BY <1>10, SMTT(30) DEF AskRenew, Request, Replies
<1>11. CASE HearRenew
  BY <1>11, SMTT(30) DEF HearRenew, Expiry, Seconds
<1>12. CASE SaveRenewed
  BY <1>12, SMTT(30) DEF SaveRenewed, SavedRenewed, Reloaded, Writes, Torn, Loads, Fault
<1>13. CASE AskVerify
  BY <1>13, SMTT(30) DEF AskVerify, Request, Replies, InfoOn
<1>14. CASE NothingToVerify
  BY <1>14, SMTT(30) DEF NothingToVerify, Leave
<1>15. CASE HearVerify
  <2> USE <1>15 DEF HearVerify, Leave, Verified, Believed, Expiry, Seconds
  <2>1. /\ service' \in Services /\ now' \in 0..MaxTime
        /\ codeUsed' \in BOOLEAN /\ starts' \in 0..MaxStarts
    OBVIOUS
  <2>2. /\ accessFile' \in Tokens /\ refreshFile' \in {None, Broken, Forever}
        /\ accessToken' \in Tokens /\ refreshToken' \in {None, Broken, Forever}
    OBVIOUS
  <2>3. authed' \in BOOLEAN
    OBVIOUS
  <2>4. expiresAt' \in Int
    OBVIOUS
  <2>5. reply' \in [kind : {"none", "lost", "page", "invalid", "tokens", "info"},
                   token : Tokens, expires : Nat, age : 0..MaxDelay]
    OBVIOUS
  <2>6. /\ pc' \in Resting \cup Waiting \cup Saving
               \cup {"auth", "askRenew", "load", "gate", "check", "return", "send"}
        /\ caller' \in {"start", "worker", "account", "request"}
    OBVIOUS
  <2>7. (reply'.kind # "none" => pc' \in Waiting \cup Saving)
          /\ faults' \subseteq {"request", "page", "file"}
    OBVIOUS
  <2> QED
    BY <2>1, <2>2, <2>3, <2>4, <2>5, <2>6, <2>7
<1>16. CASE Check
  <2> USE <1>16 DEF Check
  <2>1. /\ service' \in Services /\ now' \in 0..MaxTime
        /\ codeUsed' \in BOOLEAN /\ starts' \in 0..MaxStarts
    OBVIOUS
  <2>2. /\ accessFile' \in Tokens /\ refreshFile' \in {None, Broken, Forever}
        /\ accessToken' \in Tokens /\ refreshToken' \in {None, Broken, Forever}
    OBVIOUS
  <2>3. authed' \in BOOLEAN
    OBVIOUS
  <2>4. expiresAt' \in Int
    OBVIOUS
  <2>5. reply' \in [kind : {"none", "lost", "page", "invalid", "tokens", "info"},
                   token : Tokens, expires : Nat, age : 0..MaxDelay]
    OBVIOUS
  <2>6. /\ pc' \in Resting \cup Waiting \cup Saving
               \cup {"auth", "askRenew", "load", "gate", "check", "return", "send"}
        /\ caller' \in {"start", "worker", "account", "request"}
    OBVIOUS
  <2>7. (reply'.kind # "none" => pc' \in Waiting \cup Saving)
          /\ faults' \subseteq {"request", "page", "file"}
    OBVIOUS
  <2> QED
    BY <2>1, <2>2, <2>3, <2>4, <2>5, <2>6, <2>7
<1>17. CASE Return
  BY <1>17, SMTT(30) DEF Return, Unauthorised
<1>18. CASE Send
  <2> USE <1>18 DEF Send
  <2>1. /\ service' \in Services /\ now' \in 0..MaxTime
        /\ codeUsed' \in BOOLEAN /\ starts' \in 0..MaxStarts
    OBVIOUS
  <2>2. /\ accessFile' \in Tokens /\ refreshFile' \in {None, Broken, Forever}
        /\ accessToken' \in Tokens /\ refreshToken' \in {None, Broken, Forever}
    OBVIOUS
  <2>3. authed' \in BOOLEAN
    OBVIOUS
  <2>4. expiresAt' \in Int
    OBVIOUS
  <2>5. reply' \in [kind : {"none", "lost", "page", "invalid", "tokens", "info"},
                   token : Tokens, expires : Nat, age : 0..MaxDelay]
    OBVIOUS
  <2>6. /\ pc' \in Resting \cup Waiting \cup Saving
               \cup {"auth", "askRenew", "load", "gate", "check", "return", "send"}
        /\ caller' \in {"start", "worker", "account", "request"}
    OBVIOUS
  <2>7. (reply'.kind # "none" => pc' \in Waiting \cup Saving)
          /\ faults' \subseteq {"request", "page", "file"}
    OBVIOUS
  <2> QED
    BY <2>1, <2>2, <2>3, <2>4, <2>5, <2>6, <2>7
<1>19. CASE NewRequest
  BY <1>19, SMTT(30) DEF NewRequest
<1>20. CASE Crash
  <2> USE <1>20 DEF Crash, Torn
  <2>1. /\ service' \in Services /\ now' \in 0..MaxTime
        /\ codeUsed' \in BOOLEAN /\ starts' \in 0..MaxStarts
    OBVIOUS
  <2>2. /\ accessFile' \in Tokens /\ refreshFile' \in {None, Broken, Forever}
        /\ accessToken' \in Tokens /\ refreshToken' \in {None, Broken, Forever}
    OBVIOUS
  <2>3. authed' \in BOOLEAN
    OBVIOUS
  <2>4. expiresAt' \in Int
    OBVIOUS
  <2>5. reply' \in [kind : {"none", "lost", "page", "invalid", "tokens", "info"},
                   token : Tokens, expires : Nat, age : 0..MaxDelay]
    OBVIOUS
  <2>6. /\ pc' \in Resting \cup Waiting \cup Saving
               \cup {"auth", "askRenew", "load", "gate", "check", "return", "send"}
        /\ caller' \in {"start", "worker", "account", "request"}
    OBVIOUS
  <2>7. (reply'.kind # "none" => pc' \in Waiting \cup Saving)
          /\ faults' \subseteq {"request", "page", "file"}
    OBVIOUS
  <2> QED
    BY <2>1, <2>2, <2>3, <2>4, <2>5, <2>6, <2>7
<1>21. CASE Tick
  BY <1>21, SMTT(30) DEF Tick
<1>22. CASE UNCHANGED vars
  BY <1>22
<1> QED
  BY <1>1, <1>2, <1>3, <1>4, <1>5, <1>6, <1>7, <1>8, <1>9, <1>10, <1>11, <1>12, <1>13, <1>14, <1>15, <1>16, <1>17, <1>18, <1>19, <1>20, <1>21, <1>22 DEF Next, Worker, Auth

(* Every step keeps the rest.                                              *)
LEMMA Step == ASSUME IInv, [Next]_vars PROVE IInv'
<1> USE TimesAssumption, ServicesAssumption
    DEF IInv, TypeOK, ReplyInv, ServiceInv, CodeInv, GoodInv, UndisturbedInv, TokenInUseIsSaved,
        Undisturbed, FirstTime, LoggingIn, Renewing, None, Broken, Forever, Tokens, Waiting,
        Saving, Resting, Reply, NoReply, Lost, Page, Invalid, Issued, Info, NewToken,
        files, memory, vars
<1>0. TypeOK'
  BY TypeStep
<1>1. CASE Start
  <2> USE <1>1, <1>0 DEF Start, LoadTokens, Loads, Fault
  <2>1. ReplyInv'
    BY SMTT(30)
  <2>2. ServiceInv'
    BY SMTT(30)
  <2>3. CodeInv'
    BY SMTT(30)
  <2>4. GoodInv'
    <3>1. ~authed' /\ pc' # "load"
      OBVIOUS
    <3> QED
      BY <3>1
  <2>5. UndisturbedInv'
    BY SMTT(30)
  <2>6. TokenInUseIsSaved'
    BY SMTT(30)
  <2> QED
    BY <2>1, <2>2, <2>3, <2>4, <2>5, <2>6
<1>2. CASE AskLogin
  <2> USE <1>2, <1>0 DEF AskLogin, Request, Replies
  <2>1. ReplyInv'
    BY SMTT(30)
  <2>2. ServiceInv'
    BY SMTT(30)
  <2>3. CodeInv'
    BY SMTT(30)
  <2>4. GoodInv'
    BY SMTT(30)
  <2>5. UndisturbedInv'
    BY SMTT(30)
  <2>6. TokenInUseIsSaved'
    BY SMTT(30)
  <2> QED
    BY <2>1, <2>2, <2>3, <2>4, <2>5, <2>6
<1>3. CASE TrustToken
  BY <1>3, <1>0, SMTT(60) DEF TrustToken
<1>4. CASE AskInfo
  BY <1>4, <1>0, SMTT(60) DEF AskInfo, Request, Replies, InfoOn
<1>5. CASE HearLogin
  BY <1>5, <1>0, SMTT(60) DEF HearLogin
<1>6. CASE SaveAccess
  BY <1>6, <1>0, SMTT(60) DEF SaveAccess, Writes, Torn, Fault
<1>7. CASE SaveRefresh
  BY <1>7, <1>0, SMTT(60) DEF SaveRefresh, Writes, Torn, Fault
<1>8. CASE LoadSaved
  <2> USE <1>8, <1>0 DEF LoadSaved, LoadTokens, Loads, Fault
  <2>1. ReplyInv'
    BY SMTT(30)
  <2>2. ServiceInv'
    BY SMTT(30)
  <2>3. CodeInv'
    BY SMTT(30)
  <2>4. GoodInv'
    <3>1. CASE service = "google"
      <4>1. ~authed'
        BY <3>1
      <4> QED
        BY <3>1, <4>1
    <3>2. CASE service = "dropbox"
      <4>1. "file" \notin faults' => accessFile # None /\ accessToken' = accessFile
        BY <3>2
      <4> QED
        BY <3>2, <4>1
    <3> QED
      BY <3>1, <3>2
  <2>5. UndisturbedInv'
    BY SMTT(30)
  <2>6. TokenInUseIsSaved'
    BY SMTT(30)
  <2> QED
    BY <2>1, <2>2, <2>3, <2>4, <2>5, <2>6
<1>9. CASE HearInfo
  BY <1>9, <1>0, SMTT(60) DEF HearInfo, Believed, Expiry, Seconds
<1>10. CASE AskRenew
  BY <1>10, <1>0, SMTT(60) DEF AskRenew, Request, Replies
<1>11. CASE HearRenew
  BY <1>11, <1>0, SMTT(60) DEF HearRenew, Expiry, Seconds
<1>12. CASE SaveRenewed
  <2> USE <1>12, <1>0 DEF SaveRenewed, SavedRenewed, Reloaded, Writes, Torn, Loads, Fault
  <2>1. ReplyInv'
    BY SMTT(30)
  <2>2. ServiceInv'
    BY SMTT(30)
  <2>3. CodeInv'
    BY SMTT(30)
  <2>4. GoodInv'
    <3>1. service = "google" /\ ~authed'
      OBVIOUS
    <3> QED
      BY <3>1
  <2>5. UndisturbedInv'
    BY SMTT(30)
  <2>6. TokenInUseIsSaved'
    BY SMTT(30)
  <2> QED
    BY <2>1, <2>2, <2>3, <2>4, <2>5, <2>6
<1>13. CASE AskVerify
  BY <1>13, <1>0, SMTT(60) DEF AskVerify, Request, Replies, InfoOn, Ready
<1>14. CASE NothingToVerify
  BY <1>14, <1>0, SMTT(60) DEF NothingToVerify, Leave, Ready
<1>15. CASE HearVerify
  BY <1>15, <1>0, SMTT(60) DEF HearVerify, Leave, Verified, Believed, Expiry, Seconds
<1>16. CASE Check
  BY <1>16, <1>0, SMTT(60) DEF Check, Expired, Seconds
<1>17. CASE Return
  BY <1>17, <1>0, SMTT(60) DEF Return, Unauthorised
<1>18. CASE Send
  BY <1>18, <1>0, SMTT(60) DEF Send
<1>19. CASE NewRequest
  BY <1>19, <1>0, SMTT(60) DEF NewRequest
<1>20. CASE Crash
  BY <1>20, <1>0, SMTT(60) DEF Crash, Torn
<1>21. CASE Tick
  BY <1>21, <1>0, SMTT(60) DEF Tick
<1>22. CASE UNCHANGED vars
  BY <1>22
<1> QED
  BY <1>0, <1>1, <1>2, <1>3, <1>4, <1>5, <1>6, <1>7, <1>8, <1>9, <1>10, <1>11, <1>12, <1>13, <1>14, <1>15, <1>16, <1>17, <1>18, <1>19, <1>20, <1>21, <1>22 DEF Next, Worker, Auth

THEOREM Invariant == Spec => []IInv
<1>1. Init => IInv
  <2> SUFFICES ASSUME Init PROVE IInv
    OBVIOUS
  <2> USE DEF Init, None, Reply, NoReply
  <2>1. TypeOK
    <3>1. /\ None \in Tokens /\ 0 \in 0..MaxTime /\ 0 \in 0..MaxStarts /\ 0 \in 0..MaxDelay
          /\ pc \in Resting
      BY TimesAssumption, BoundsAssumption DEF Tokens, Forever, Resting
    <3>2. reply \in [kind : {"none", "lost", "page", "invalid", "tokens", "info"},
                    token : Tokens, expires : Nat, age : 0..MaxDelay]
      BY <3>1
    <3>3. /\ accessFile \in Tokens /\ refreshFile \in {None, Broken, Forever}
          /\ accessToken \in Tokens /\ refreshToken \in {None, Broken, Forever}
      BY <3>1
    <3>4. faults \subseteq {"request", "page", "file"} /\ reply.kind = "none"
      OBVIOUS
    <3>5. now \in 0..MaxTime /\ expiresAt \in Int /\ starts \in 0..MaxStarts
      BY <3>1
    <3>6. codeUsed \in BOOLEAN /\ authed \in BOOLEAN
      OBVIOUS
    <3>7. service \in Services /\ caller \in {"start", "worker", "account", "request"}
      OBVIOUS
    <3> HIDE DEF Init, None, Reply, NoReply
    <3> QED
      BY <3>1, <3>2, <3>3, <3>4, <3>5, <3>6, <3>7 DEF TypeOK
  <2>2. ReplyInv /\ ServiceInv /\ TokenInUseIsSaved
    BY DEF ReplyInv, ServiceInv, TokenInUseIsSaved, FirstTime, LoggingIn, Renewing, Saving
  <2>3. CodeInv /\ GoodInv /\ UndisturbedInv
    BY TimesAssumption DEF CodeInv, GoodInv, UndisturbedInv, Undisturbed, Forever
  <2> QED
    BY <2>1, <2>2, <2>3 DEF IInv
<1>2. IInv /\ [Next]_vars => IInv'
  BY Step
<1> QED
  BY <1>1, <1>2, PTL DEF Spec

-----------------------------------------------------------------------------
(* Every variable keeps to its type.                                       *)
THEOREM TypeCorrect == Spec => []TypeOK
<1>1. IInv => TypeOK
  BY DEF IInv
<1> QED
  BY <1>1, Invariant, PTL

(* A request goes out with a token that is accepted, or was when the last  *)
(* answer was given (isAuthed, auth).                                      *)
THEOREM TokensAreGood == Spec => []RequestsCarryAToken
<1>1. ASSUME IInv, pc = "send", service = "google" PROVE RequestsCarryAToken
  <2>1. authed
    BY <1>1 DEF IInv, ServiceInv
  <2>2. now < ClockHalf \/ now >= ClockHalf
    BY <1>1, TimesAssumption DEF IInv, TypeOK
  <2> QED
    BY <1>1, <2>1, <2>2 DEF IInv, GoodInv, RequestsCarryAToken
<1>2. ASSUME IInv, pc = "send", service = "dropbox" PROVE RequestsCarryAToken
  BY <1>2 DEF IInv, ServiceInv, GoodInv, RequestsCarryAToken
<1>3. IInv => RequestsCarryAToken
  BY <1>1, <1>2, ServicesAssumption DEF IInv, TypeOK, RequestsCarryAToken
<1> QED
  BY <1>3, Invariant, PTL

(* Without a fault, and with a refresh token, the handler is authorised    *)
(* whenever it is at rest, through renewals and crashes (auth).            *)
THEOREM StaysAuthorised == Spec => []AuthorisedUnlessFault
<1>1. IInv => AuthorisedUnlessFault
  BY ServicesAssumption, TimesAssumption
  DEF IInv, AuthorisedUnlessFault, UndisturbedInv, Undisturbed, ServiceInv, TypeOK, None, Forever
<1> QED
  BY <1>1, Invariant, PTL

(* A token in memory is the one the next start will find (auth).           *)
THEOREM TokenIsSaved == Spec => []TokenInUseIsSaved
<1>1. IInv => TokenInUseIsSaved
  BY DEF IInv
<1> QED
  BY <1>1, Invariant, PTL

(* The refresh token is never written over, lost or torn (auth).           *)
THEOREM RefreshTokenStays == Spec => RefreshTokenIsKept
<1>1. IInv /\ [Next]_vars => [refreshFile = Forever => refreshFile' = Forever]_vars
  BY DEF IInv, CodeInv, Next, Worker, Auth, vars, files, Start, AskLogin, TrustToken, AskInfo,
         HearLogin, SaveAccess, SaveRefresh, LoadSaved, HearInfo, AskRenew, HearRenew,
         SaveRenewed, SavedRenewed, AskVerify, NothingToVerify, HearVerify, Check, Return,
         Send, NewRequest, Crash, Tick
<1> QED
  BY <1>1, Invariant, PTL DEF Spec, RefreshTokenIsKept
=============================================================================
