---------------------------- MODULE TaskExchange ----------------------------
(***************************************************************************)
(* The two processes of a handler (source/shared/dos_handler.cpp).  The    *)
(* handler process, main(), takes packets from its message port and hands  *)
(* each of them, through the global gTask and a pair of signals, to the    *)
(* worker process, taskFunc(), which owns the file system.  The module     *)
(* covers the start of both processes, the exchange of a task, the answer  *)
(* of a packet and the shutdown on ACTION_DIE.                             *)
(*                                                                         *)
(* Packets are named by their senders: a program inside DoPkt() has one    *)
(* packet outstanding.  Tasks are abstracted to the ones the exchange can  *)
(* tell apart; a lock is the only object of the file system shown here,    *)
(* because shutting down depends on it.                                    *)
(***************************************************************************)
EXTENDS Naturals, Sequences

CONSTANTS
  Client,              \* programs that send packets to the volume
  Dos,                 \* dos.library, the sender of the startup packet
  Lock,                \* the locks the worker can hand out
  Nothing,             \* no lock, no packet
  Platforms,           \* the builds to follow: "os3" (and its kin) and "os4"
  WorkerCanFail,       \* auth() or getAccountInfo() may fail in taskFunc
  VolumeCanFail,       \* MyMakeDosEntry may return NULL in main
  MaxAttempts,         \* tries of ReallyRemoveDosEntry (100 in the code)
  MaxStarts            \* bound: how often DOS starts the handler

ASSUME NamesAssumption ==
  /\ Dos \notin Client
  /\ Nothing \notin Lock \cup Client \cup {Dos}
  /\ Lock \cap {"true", "false", "in_use", "none"} = {}
ASSUME BoundsAssumption ==
  /\ MaxAttempts \in Nat
  /\ MaxStarts \in Nat \ {0}
ASSUME SwitchesAssumption ==
  /\ WorkerCanFail \in BOOLEAN
  /\ VolumeCanFail \in BOOLEAN
\* A lock that outlives its handler is followed no further than that handler.
ASSUME PlatformAssumption ==
  Platforms \subseteq {"os3", "os4"} /\ ("os4" \in Platforms => MaxStarts = 1)

Sender == Client \cup {Dos}

(* What a packet asks for, and the tasks the handler passes for it: all    *)
(* but ACTION_CURRENT_VOLUME begin with a task that writes the log.        *)
Request == {"startup", "current_volume", "ignored", "locate", "free_lock",
            "inhibit", "die"}
TasksOf(r) ==
  CASE r = "current_volume"         -> <<>>
    [] r \in {"startup", "ignored"} -> <<"log">>
    [] OTHER                        -> <<"log", r>>

VARIABLES
  port,           \* packets queued at the handler's message port, by sender
  status,         \* what the sender knows of its packet
  request,        \* dp_Type and the lock in dp_Arg1
  answer,         \* dp_Res1 of the last answer
  replyTo,        \* dp_Port: the sender's port, or the handler's own
  held,           \* locks a client was given and has not sent back
  hpc,            \* program counter of the handler process
  cur,            \* sender of the packet main() is serving
  todo,           \* tasks still to be done for that packet
  handlerRunning, \* gHandlerIsRunning
  handlerSignal,  \* the bit gHandlerSignalMask of the handler's signals
  wpc,            \* program counter of the worker process
  workerRunning,  \* gWorkerIsRunning
  workerSignal,   \* the bit gWorkerSignalMask of the worker's signals
  shuttingDown,   \* gWorkerShuttingDown
  task,           \* gTask: _type, whose arguments, _int1, _result
  locks,          \* locks the worker counts in _lockCount
  volume,         \* the starts whose volume entry is in the DOS list
  deviceTask,     \* gDevNode->dn_Task is set
  attempts,       \* tries of ReallyRemoveDosEntry so far
  starts,         \* how often DOS started the handler
  platform        \* the build that runs

clientVars  == <<status, request, answer, replyTo, held>>
handlerVars == <<hpc, cur, todo, handlerRunning>>
workerVars  == <<wpc, workerRunning, shuttingDown, locks>>
signalVars  == <<handlerSignal, workerSignal>>
dosVars     == <<volume, deviceTask, attempts, starts, platform>>
vars == <<port, clientVars, handlerVars, workerVars, signalVars, task, dosVars>>

Result == Lock \cup {"true", "false", "in_use", "none"}
Task == [type : Request \cup {"log"}, from : Sender \cup {Nothing},
         lock : Lock \cup {Nothing}, result : Result]

NoTask == [type |-> "log", from |-> Nothing, lock |-> Nothing, result |-> "none"]

TypeOK ==
  /\ port \in Seq(Sender)
  /\ status \in [Sender -> {"idle", "pending", "answered"}]
  /\ request \in [Sender -> [type : Request, lock : Lock \cup {Nothing}]]
  /\ answer \in [Sender -> Result]
  /\ replyTo \in [Sender -> {"sender", "handler"}]
  /\ held \in [Sender -> SUBSET Lock]
  /\ hpc \in {"startup", "awaitWorker", "loop", "set", "signal", "wait", "reply",
              "closing", "removing", "lastReply", "gone"}
  /\ cur \in Sender \cup {Nothing}
  /\ todo \in Seq(Request \cup {"log"})
  /\ wpc \in {"none", "init", "wait", "run", "signal", "closing", "ended"}
  /\ \A b \in {handlerRunning, workerRunning, handlerSignal, workerSignal,
               shuttingDown, deviceTask} : b \in BOOLEAN
  /\ task \in Task
  /\ locks \subseteq Lock
  /\ volume \subseteq 1..MaxStarts
  /\ attempts \in 0..MaxAttempts
  /\ starts \in 1..MaxStarts
  /\ platform \in Platforms

(***************************************************************************)
(* DOS starts the handler with a packet of its own.                        *)
(***************************************************************************)
Init ==
  /\ port = <<Dos>>
  /\ status = [s \in Sender |-> IF s = Dos THEN "pending" ELSE "idle"]
  /\ request = [s \in Sender |-> [type |-> "startup", lock |-> Nothing]]
  /\ answer = [s \in Sender |-> "none"]
  /\ replyTo = [s \in Sender |-> "sender"]
  /\ held = [s \in Sender |-> {}]
  /\ hpc = "startup" /\ cur = Nothing /\ todo = <<>>
  /\ handlerRunning = TRUE /\ handlerSignal = FALSE
  /\ wpc = "none" /\ workerRunning = FALSE /\ workerSignal = FALSE
  /\ shuttingDown = FALSE /\ locks = {}
  /\ task = NoTask
  /\ volume = {} /\ deviceTask = FALSE /\ attempts = 0 /\ starts = 1
  /\ platform \in Platforms

-----------------------------------------------------------------------------
ShutdownChecksLocks == platform # "os4" \* __isShutdownPossible reads _lockCount

(***************************************************************************)
(* Clients.  A packet reaches the port through the volume entry, through   *)
(* the device node or through fl_Task of a lock; the port of a handler     *)
(* that is gone swallows it, and so does dos_lock_handler_port on OS4.     *)
(***************************************************************************)
OwnEntry == IF hpc = "gone" THEN {} ELSE {starts}
Send(c, r, l) ==
  /\ status[c] = "idle"
  /\ \/ /\ hpc # "gone"
        /\ deviceTask \/ starts \in volume \/ held[c] # {}
        /\ port' = Append(port, c)
     \/ /\ \/ volume \ OwnEntry # {}
           \/ hpc = "gone" /\ held[c] # {}
           \/ shuttingDown /\ ~ShutdownChecksLocks
        /\ UNCHANGED port
  /\ IF r = "free_lock" THEN l \in held[c] ELSE l = Nothing
  /\ status' = [status EXCEPT ![c] = "pending"]
  /\ request' = [request EXCEPT ![c] = [type |-> r, lock |-> l]]
  /\ replyTo' = [replyTo EXCEPT ![c] = "sender"]
  /\ held' = [held EXCEPT ![c] = @ \ {l}]
  /\ UNCHANGED <<answer, handlerVars, workerVars, signalVars, task, dosVars>>

Receive(c) ==
  /\ status[c] = "answered"
  /\ status' = [status EXCEPT ![c] = "idle"]
  /\ held' = [held EXCEPT ![c] = @ \cup ({answer[c]} \cap Lock)]
  /\ UNCHANGED <<port, request, answer, replyTo, handlerVars, workerVars,
                 signalVars, task, dosVars>>

(* dn_Task is NULL again, so the next access to the device starts a new    *)
(* process from the same loaded segment: gTask keeps its contents.         *)
Restart ==
  /\ hpc = "gone" /\ ~deviceTask
  /\ starts < MaxStarts
  /\ starts' = starts + 1
  /\ port' = <<Dos>>
  /\ status' = [status EXCEPT ![Dos] = "pending"]
  /\ replyTo' = [replyTo EXCEPT ![Dos] = "sender"]
  /\ hpc' = "startup" /\ cur' = Nothing /\ todo' = <<>>
  /\ handlerRunning' = TRUE /\ handlerSignal' = FALSE
  /\ attempts' = 0
  /\ UNCHANGED <<request, answer, held, workerVars, workerSignal, task, volume,
                 deviceTask, platform>>

-----------------------------------------------------------------------------
(***************************************************************************)
(* The handler process.                                                    *)
(***************************************************************************)

(* returnPacket: the message goes to dp_Port, which then names the         *)
(* handler's own port.  `queue' is the port before the answer.             *)
PortKept(s) == replyTo                                \* mutant of PortSwapped
PortSwapped(s) == [replyTo EXCEPT ![s] = "handler"]
ReturnPacket(s, res, queue) ==
  /\ replyTo' = PortSwapped(s)
  /\ IF replyTo[s] = "sender"
       THEN /\ status' = [status EXCEPT ![s] = "answered"]
            /\ answer' = [answer EXCEPT ![s] = res]
            /\ port' = queue
       ELSE /\ port' = Append(queue, s)
            /\ UNCHANGED <<status, answer>>

(* From getPacket to CreateNewProcTagList: the startup packet is answered  *)
(* whether or not there is a volume entry.                                 *)
Startup ==
  /\ hpc = "startup" /\ port # <<>>
  /\ cur' = Head(port)
  /\ ReturnPacket(Head(port), "true", Tail(port))
  /\ deviceTask' = TRUE
  /\ \/ /\ volume' = volume \cup {starts}
        /\ hpc' = "awaitWorker"
        /\ wpc' = "init" /\ workerSignal' = FALSE /\ shuttingDown' = FALSE
        /\ UNCHANGED handlerRunning
     \/ /\ VolumeCanFail
        /\ handlerRunning' = FALSE
        /\ hpc' = "loop"
        /\ UNCHANGED <<volume, wpc, workerSignal, shuttingDown>>
  /\ UNCHANGED <<request, held, todo, handlerSignal, workerRunning, locks, task,
                 attempts, starts, platform>>

(* while ( !gWorkerIsRunning ) Delay(1);                                   *)
WorkerIsUp ==
  /\ hpc = "awaitWorker" /\ workerRunning
  /\ hpc' = "set" /\ todo' = TasksOf("startup")
  /\ UNCHANGED <<port, clientVars, cur, handlerRunning, workerVars, signalVars,
                 task, dosVars>>

GetPacket ==
  /\ hpc = "loop" /\ handlerRunning /\ workerRunning
  /\ port # <<>>
  /\ cur' = Head(port) /\ port' = Tail(port)
  /\ todo' = TasksOf(request[Head(port)].type)
  /\ hpc' = IF todo' = <<>> THEN "reply" ELSE "set"
  /\ UNCHANGED <<clientVars, handlerRunning, workerVars, signalVars, task, dosVars>>

LeaveLoop ==
  /\ hpc = "loop" /\ ~(handlerRunning /\ workerRunning)
  /\ hpc' = "closing"
  /\ UNCHANGED <<port, clientVars, cur, todo, handlerRunning, workerVars,
                 signalVars, task, dosVars>>

(* doTask is three steps: gTask.set, Signal(worker), Wait.                 *)
StaleTask(t) ==                                       \* mutant of FreshTask
  [type |-> t, from |-> cur, lock |-> request[cur].lock, result |-> task.result]
FreshTask(t) ==
  [type |-> t, from |-> cur, lock |-> request[cur].lock, result |-> "none"]
SetTask ==
  /\ hpc = "set"
  /\ task' = FreshTask(Head(todo))
  /\ hpc' = "signal"
  /\ UNCHANGED <<port, clientVars, cur, todo, handlerRunning, workerVars,
                 signalVars, dosVars>>

SignalWorker ==
  /\ hpc = "signal"
  /\ workerSignal' = TRUE
  /\ hpc' = "wait"
  /\ UNCHANGED <<port, clientVars, cur, todo, handlerRunning, workerVars,
                 handlerSignal, task, dosVars>>

NoHandlerWait == handlerSignal' = FALSE                \* mutant of HandlerWait
HandlerWait == handlerSignal /\ handlerSignal' = FALSE
TaskDone ==
  /\ hpc = "wait" /\ HandlerWait
  /\ todo' = Tail(todo)
  /\ hpc' = IF todo' # <<>> THEN "set"
            ELSE IF request[cur].type = "startup" THEN "loop" ELSE "reply"
  /\ UNCHANGED <<port, clientVars, cur, handlerRunning, workerVars, workerSignal,
                 task, dosVars>>

(* The answer main() gives once the tasks of the packet are done.          *)
TaskResultOf(s) == task.result                        \* mutant of AnswerOf
AnswerOf(s) ==
  CASE request[s].type \in {"current_volume", "ignored", "free_lock"} -> "true"
    [] OTHER -> task.result

Reply ==
  /\ hpc = "reply"
  /\ ~(request[cur].type = "die" /\ task.result = "true")
  /\ ReturnPacket(cur, AnswerOf(cur), port)
  /\ hpc' = "loop"
  /\ UNCHANGED <<request, held, cur, todo, handlerRunning, workerVars, signalVars,
                 task, dosVars>>

(* ACTION_DIE accepted: the packet is kept and answered last of all.       *)
AcceptDie ==
  /\ hpc = "reply"
  /\ request[cur].type = "die" /\ task.result = "true"
  /\ handlerRunning' = FALSE
  /\ hpc' = "loop"
  /\ UNCHANGED <<port, clientVars, cur, todo, workerVars, signalVars, task, dosVars>>

(* while ( gWorkerIsRunning ) Delay(1);  Only a handler that could not     *)
(* make its volume entry comes here with the startup packet.               *)
AwaitWorkerEnd ==
  /\ hpc = "closing" /\ ~workerRunning
  /\ hpc' = IF request[cur].type = "startup" THEN "lastReply" ELSE "removing"
  /\ UNCHANGED <<port, clientVars, cur, todo, handlerRunning, workerVars,
                 signalVars, task, dosVars>>

(* ReallyRemoveDosEntry: AttemptLockDosList succeeds ...                   *)
OneTryTooMany == attempts <= MaxAttempts              \* mutant of TriesLeft
TriesLeft == attempts < MaxAttempts
RemoveEntry ==
  /\ hpc = "removing" /\ TriesLeft
  /\ volume' = volume \ {starts}
  /\ hpc' = "lastReply"
  /\ UNCHANGED <<port, clientVars, cur, todo, handlerRunning, workerVars,
                 signalVars, task, deviceTask, attempts, starts, platform>>

(* ... or it does not: the packets that wait are refused, and it tries     *)
(* again; after the last try the volume entry stays in the list.           *)
RefuseQueued ==
  /\ hpc = "removing" /\ TriesLeft
  /\ attempts' = attempts + 1
  /\ LET queued == {port[i] : i \in DOMAIN port} IN
       /\ status' = [s \in Sender |-> IF s \in queued THEN "answered" ELSE status[s]]
       /\ answer' = [s \in Sender |-> IF s \in queued THEN "false" ELSE answer[s]]
       /\ replyTo' = [s \in Sender |-> IF s \in queued THEN "handler" ELSE replyTo[s]]
  /\ port' = <<>>
  /\ UNCHANGED <<request, held, handlerVars, workerVars, signalVars, task, volume,
                 deviceTask, starts, platform>>

GiveUpEntry ==
  /\ hpc = "removing" /\ ~TriesLeft
  /\ hpc' = "lastReply"
  /\ UNCHANGED <<port, clientVars, cur, todo, handlerRunning, workerVars,
                 signalVars, task, dosVars>>

(* gDevNode->dn_Task = FALSE; returnPacket; return 0.                      *)
LastReply ==
  /\ hpc = "lastReply"
  /\ deviceTask' = FALSE
  /\ ReturnPacket(cur, "true", port)
  /\ hpc' = "gone"
  /\ UNCHANGED <<request, held, cur, todo, handlerRunning, workerVars, signalVars,
                 task, volume, attempts, starts, platform>>

Handler ==
  \/ Startup \/ WorkerIsUp \/ GetPacket \/ LeaveLoop
  \/ SetTask \/ SignalWorker \/ TaskDone \/ Reply \/ AcceptDie
  \/ AwaitWorkerEnd \/ RemoveEntry \/ RefuseQueued \/ GiveUpEntry \/ LastReply

-----------------------------------------------------------------------------
(***************************************************************************)
(* The worker process.                                                     *)
(***************************************************************************)
WorkerInit ==
  /\ wpc = "init"
  /\ \/ workerRunning' = TRUE /\ wpc' = "wait"
     \/ WorkerCanFail /\ wpc' = "closing" /\ UNCHANGED workerRunning
  /\ UNCHANGED <<port, clientVars, handlerVars, shuttingDown, locks, signalVars,
                 task, dosVars>>

WorkerWait ==
  /\ wpc = "wait" /\ workerSignal
  /\ workerSignal' = FALSE
  /\ wpc' = "run"
  /\ UNCHANGED <<port, clientVars, handlerVars, workerRunning, shuttingDown, locks,
                 handlerSignal, task, dosVars>>

Work(type, res) ==
  /\ wpc = "run" /\ task.type = type
  /\ wpc' = "signal"
  /\ task' = [task EXCEPT !.result = res]
  /\ UNCHANGED <<clientVars, handlerVars, workerRunning, signalVars>>
Finish(type, res) == Work(type, res) /\ UNCHANGED <<port, dosVars>>

RunLog == Finish("log", task.result) /\ UNCHANGED <<locks, shuttingDown>>

RunLocate ==
  \/ \E l \in Lock \ locks :
       Finish("locate", l) /\ locks' = locks \cup {l} /\ UNCHANGED shuttingDown
  \/ Finish("locate", task.result) /\ UNCHANGED <<locks, shuttingDown>>

RunFreeLock ==
  Finish("free_lock", task.result) /\ locks' = locks \ {task.lock}
  /\ UNCHANGED shuttingDown

RunInhibit ==
  Finish("inhibit", IF locks = {} THEN "true" ELSE "false")
  /\ UNCHANGED <<locks, shuttingDown>>

ShutdownAlwaysPossible == TRUE                        \* mutant of IsShutdownPossible
IsShutdownPossible == ShutdownChecksLocks => locks = {}

(* __shutdown: on OS4 the device node is handed to dos_lock_handler_port,  *)
(* which is not part of this program, with the packets that wait.          *)
ShutDown ==
  IF ShutdownChecksLocks THEN UNCHANGED <<port, deviceTask>>
                         ELSE port' = <<>> /\ deviceTask' = FALSE

RunDieKeepsRunning ==                                 \* mutant of RunDie
  /\ Finish("die", IF IsShutdownPossible THEN "true" ELSE "in_use")
  /\ UNCHANGED <<locks, shuttingDown>>
RunDie ==
  /\ Work("die", IF IsShutdownPossible THEN "true" ELSE "in_use")
  /\ shuttingDown' = IsShutdownPossible
  /\ IF IsShutdownPossible THEN ShutDown ELSE UNCHANGED <<port, deviceTask>>
  /\ UNCHANGED <<locks, volume, attempts, starts, platform>>

WakeUnlessLocate ==                                   \* mutant of WakeHandler
  handlerSignal' = (handlerSignal \/ task.type # "locate")
WakeHandler == handlerSignal' = TRUE
WorkerSignals ==
  /\ wpc = "signal"
  /\ WakeHandler
  /\ wpc' = IF shuttingDown THEN "closing" ELSE "wait"
  /\ UNCHANGED <<port, clientVars, handlerVars, workerRunning, shuttingDown, locks,
                 workerSignal, task, dosVars>>

(* delete gdh; ... gWorkerIsRunning = false;                               *)
WorkerEnds ==
  /\ wpc = "closing"
  /\ wpc' = "ended"
  /\ workerRunning' = FALSE /\ locks' = {}
  /\ UNCHANGED <<port, clientVars, handlerVars, shuttingDown, signalVars, task,
                 dosVars>>

Worker ==
  \/ WorkerInit \/ WorkerWait \/ RunLog \/ RunLocate \/ RunFreeLock
  \/ RunInhibit \/ RunDie \/ WorkerSignals \/ WorkerEnds

-----------------------------------------------------------------------------
Clients ==
  \/ \E c \in Client, r \in Request \ {"startup"}, l \in Lock \cup {Nothing} :
       Send(c, r, l)
  \/ \E s \in Sender : Receive(s)

Next == Clients \/ Restart \/ Handler \/ Worker

(* Exec schedules both processes; nothing obliges a program to send.       *)
Spec == Init /\ [][Next]_vars /\ WF_vars(Handler) /\ WF_vars(Worker)

-----------------------------------------------------------------------------
(***************************************************************************)
(* Properties.                                                             *)
(***************************************************************************)

(* gTask has no lock: between doTask's set() and the answer the handler    *)
(* reads and writes it only while the worker is parked in Wait() (doTask,  *)
(* taskFunc).                                                              *)
TaskOwnership ==
  hpc \in {"set", "signal", "reply"} => wpc \notin {"run", "signal"}

(* Locks a sender can name: those it was given and the one in an answer    *)
(* it has not read yet.                                                    *)
Outstanding(s) ==
  held[s] \cup (IF status[s] = "answered" THEN {answer[s]} \cap Lock ELSE {})

(* No two programs are ever given the same lock: an answer never carries   *)
(* the result of another packet's task (sTask::set, returnPacket).         *)
LocksHaveOneOwner ==
  \A s, t \in Sender : s # t => Outstanding(s) \cap Outstanding(t) = {}

(* The worker counts every lock a program can still send back, so that it  *)
(* cannot end under one (__isShutdownPossible, ttDie).                     *)
LocksAreCounted == \A s \in Sender : Outstanding(s) \subseteq locks

(* A packet is answered only while its sender waits for the answer: never  *)
(* twice, and never before it is sent (returnPacket, main).                *)
AnsweredOnce ==
  [][\A s \in Sender : status'[s] = "answered" /\ status[s] # "answered"
                         => status[s] = "pending"]_vars

(* A packet at the port of a handler that runs is answered, unless the     *)
(* handler accepts an ACTION_DIE first (main, doTask, taskFunc).           *)
AnsweredWhileUp ==
  \A c \in Client :
    (status[c] = "pending" /\ c \in {port[i] : i \in DOMAIN port})
      ~> (status[c] # "pending" \/ ~handlerRunning)

(* Once the main loop is told to stop, the handler waits for the worker's  *)
(* end, and neither waits for the other forever (main after its loop,      *)
(* taskFunc): the ACTION_DIE is answered and the process returns.          *)
ShutdownCompletes == ~handlerRunning ~> hpc = "gone"

(***************************************************************************)
(* The exchange implements a service that answers each packet by itself.   *)
(* What the worker has done takes effect when the answer leaves: until     *)
(* then a new lock is not yet granted, and a freed one is.                 *)
(***************************************************************************)
Unanswered(type) ==
  hpc \in {"signal", "wait", "reply"} /\ task.type = type /\ request[cur].type = type
Granted ==
  (locks \ {l \in Lock : Unanswered("locate") /\ l = task.result})
    \cup {l \in Lock : Unanswered("free_lock") /\ l = task.lock}

Service == INSTANCE PacketService WITH
  status  <- [c \in Client |-> status[c]],
  request <- [c \in Client |-> request[c]],
  answer  <- [c \in Client |-> answer[c]],
  held    <- [c \in Client |-> held[c]],
  granted <- Granted,
  open    <- handlerRunning

ImplementsService == Service!Spec
=============================================================================
