---------------------------- MODULE PacketService ----------------------------
(***************************************************************************)
(* What a handler promises to the programs that send it packets: each      *)
(* packet is answered at most once, by an answer to that packet; a lock    *)
(* belongs to the program it was given to; and the service closes only     *)
(* when no lock is granted.  There are no processes, signals or queues.    *)
(***************************************************************************)
CONSTANTS Client, Lock, Nothing

VARIABLES
  status,  \* "idle", "pending" or "answered", for each client
  request, \* the last packet of each client
  answer,  \* the last answer
  held,    \* locks a client has and has not sent back
  granted, \* locks given out and not taken back
  open     \* packets are being served

vars == <<status, request, answer, held, granted, open>>

Init ==
  /\ status = [c \in Client |-> "idle"]
  /\ request = [c \in Client |-> [type |-> "startup", lock |-> Nothing]]
  /\ answer = [c \in Client |-> "none"]
  /\ held = [c \in Client |-> {}]
  /\ granted = {}
  /\ open = TRUE

Send(c) ==
  /\ status[c] = "idle"
  /\ \E r \in {"current_volume", "ignored", "locate", "free_lock", "inhibit", "die"},
        l \in held[c] \cup {Nothing} :
       /\ (r = "free_lock") <=> (l # Nothing)
       /\ request' = [request EXCEPT ![c] = [type |-> r, lock |-> l]]
       /\ held' = [held EXCEPT ![c] = @ \ {l}]
  /\ status' = [status EXCEPT ![c] = "pending"]
  /\ UNCHANGED <<answer, granted, open>>

Receive(c) ==
  /\ status[c] = "answered"
  /\ status' = [status EXCEPT ![c] = "idle"]
  /\ held' = [held EXCEPT ![c] = @ \cup ({answer[c]} \cap Lock)]
  /\ UNCHANGED <<request, answer, granted, open>>

Answer(c, res) ==
  /\ status[c] = "pending"
  /\ status' = [status EXCEPT ![c] = "answered"]
  /\ answer' = [answer EXCEPT ![c] = res]
  /\ UNCHANGED <<request, held, open>>

(* The answers a packet can get while the service is open.                 *)
Serve(c) ==
  /\ open
  /\ CASE request[c].type = "locate" ->
            \/ \E l \in Lock \ granted : Answer(c, l) /\ granted' = granted \cup {l}
            \/ Answer(c, "none") /\ UNCHANGED granted
       [] request[c].type = "free_lock" ->
            Answer(c, "true") /\ granted' = granted \ {request[c].lock}
       [] request[c].type = "inhibit" ->
            /\ Answer(c, IF granted = {} THEN "true" ELSE "false")
            /\ UNCHANGED granted
       [] request[c].type = "die" ->
            granted # {} /\ Answer(c, "in_use") /\ UNCHANGED granted
       [] OTHER -> Answer(c, "true") /\ UNCHANGED granted

(* The service closes for a packet that asks it to, or because it could    *)
(* not start; it refuses what waits, and answers the packet that closed    *)
(* it.  A later start opens it again.                                      *)
Close == open /\ granted = {} /\ open' = FALSE
         /\ UNCHANGED <<status, request, answer, held, granted>>

Refuse ==
  /\ ~open
  /\ \E S \in SUBSET {c \in Client : status[c] = "pending"} :
       /\ status' = [c \in Client |-> IF c \in S THEN "answered" ELSE status[c]]
       /\ answer' = [c \in Client |-> IF c \in S THEN "false" ELSE answer[c]]
  /\ UNCHANGED <<request, held, granted, open>>

AnswerDie(c) ==
  ~open /\ request[c].type = "die" /\ Answer(c, "true") /\ UNCHANGED granted

Open == ~open /\ open' = TRUE
        /\ UNCHANGED <<status, request, answer, held, granted>>

Next ==
  \/ \E c \in Client : Send(c) \/ Receive(c) \/ Serve(c) \/ AnswerDie(c)
  \/ Close \/ Refuse \/ Open

Spec == Init /\ [][Next]_vars
=============================================================================
