------------------------- MODULE TaskExchange_proofs -------------------------
(***************************************************************************)
(* Proofs about TaskExchange, for any sets of clients and locks.           *)
(***************************************************************************)
EXTENDS TaskExchange, TLAPS

(***************************************************************************)
(* Type correctness.  A handler past its startup packet has a packet in    *)
(* its hands, and one inside doTask a task, which the type invariant alone *)
(* does not say.                                                           *)
(***************************************************************************)
TypeInv ==
  /\ TypeOK
  /\ hpc # "startup" => cur \in Sender
  /\ hpc \in {"set", "signal", "wait"} => todo # <<>>

LEMMA TasksOfType ==
  ASSUME NEW r \in Request
  PROVE  /\ TasksOf(r) \in Seq(Request \cup {"log"})
         /\ r # "current_volume" => TasksOf(r) # <<>>
<1>1. CASE r = "current_volume"
  BY <1>1 DEF TasksOf
<1>2. CASE r \in {"startup", "ignored"}
  <2>1. TasksOf(r) = <<"log">>  BY <1>2 DEF TasksOf
  <2> QED  BY <1>2, <2>1
<1>3. CASE r \notin {"current_volume", "startup", "ignored"}
  <2>1. TasksOf(r) = <<"log", r>>  BY <1>3 DEF TasksOf
  <2> QED  BY <1>3, <2>1
<1> QED  BY <1>1, <1>2, <1>3

LEMMA ReturnPacketType ==
  ASSUME NEW s \in Sender, NEW res \in Result, NEW queue \in Seq(Sender),
         TypeOK, ReturnPacket(s, res, queue)
  PROVE  /\ port' \in Seq(Sender)
         /\ status' \in [Sender -> {"idle", "pending", "answered"}]
         /\ answer' \in [Sender -> Result]
         /\ replyTo' \in [Sender -> {"sender", "handler"}]
<1>1. replyTo' \in [Sender -> {"sender", "handler"}]
  BY DEF TypeOK, ReturnPacket, PortSwapped
<1>2. CASE replyTo[s] = "sender"  BY <1>1, <1>2 DEF TypeOK, ReturnPacket
<1>3. CASE replyTo[s] # "sender"
  <2>1. Append(queue, s) \in Seq(Sender)  OBVIOUS
  <2> QED  BY <1>1, <1>3, <2>1 DEF TypeOK, ReturnPacket
<1> QED  BY <1>2, <1>3

LEMMA InitType == Init => TypeInv
<1> SUFFICES ASSUME Init PROVE TypeInv  OBVIOUS
<1>1. port \in Seq(Sender) /\ todo \in Seq(Request \cup {"log"})
  BY DEF Init, Sender
<1>2. /\ status \in [Sender -> {"idle", "pending", "answered"}]
      /\ request \in [Sender -> [type : Request, lock : Lock \cup {Nothing}]]
      /\ answer \in [Sender -> Result]
      /\ replyTo \in [Sender -> {"sender", "handler"}]
      /\ held \in [Sender -> SUBSET Lock]
  BY DEF Init, Request, Result
<1>3. task \in Task
  BY DEF Init, NoTask, Task, Result
<1>4. attempts \in 0..MaxAttempts /\ starts \in 1..MaxStarts /\ volume \subseteq 1..MaxStarts
  BY BoundsAssumption DEF Init
<1> QED
  BY <1>1, <1>2, <1>3, <1>4 DEF Init, TypeInv, TypeOK

LEMMA NextType == TypeInv /\ [Next]_vars => TypeInv'
<1> SUFFICES ASSUME TypeInv, [Next]_vars PROVE TypeInv'  OBVIOUS
<1> USE DEF TypeInv
<1>1. ASSUME NEW c \in Client, NEW r \in Request \ {"startup"},
             NEW l \in Lock \cup {Nothing}, Send(c, r, l)
      PROVE  TypeInv'
  <2>1. c \in Sender  BY DEF Sender
  <2>2. port \in Seq(Sender) /\ Append(port, c) \in Seq(Sender)  BY <2>1 DEF TypeOK
  <2>3. port' \in Seq(Sender)  BY <1>1, <2>2 DEF Send
  <2> QED
    BY <1>1, <2>1, <2>3 DEF Send, TypeOK, handlerVars, workerVars, signalVars, dosVars
<1>2. ASSUME NEW s \in Sender, Receive(s) PROVE TypeInv'
  BY <1>2 DEF Receive, TypeOK, handlerVars, workerVars, signalVars, dosVars
<1>3. ASSUME Restart PROVE TypeInv'
  <2>1. port' \in Seq(Sender) /\ todo' \in Seq(Request \cup {"log"})
    BY <1>3 DEF Restart, Sender
  <2>2. Dos \in Sender  BY DEF Sender
  <2>3. starts' \in 1..MaxStarts /\ attempts' \in 0..MaxAttempts
    BY <1>3, BoundsAssumption DEF Restart, TypeOK
  <2> QED
    BY <1>3, <2>1, <2>2, <2>3 DEF Restart, TypeOK, workerVars
<1>4. ASSUME Startup PROVE TypeInv'
  <2>1. Head(port) \in Sender /\ Tail(port) \in Seq(Sender)
    BY <1>4 DEF Startup, TypeOK
  <2>2. "true" \in Result  BY DEF Result
  <2>3. ReturnPacket(Head(port), "true", Tail(port))  BY <1>4 DEF Startup
  <2> QED
    BY <1>4, <2>1, <2>2, <2>3, ReturnPacketType DEF Startup, TypeOK
<1>5. ASSUME WorkerIsUp PROVE TypeInv'
  <2>1. todo' \in Seq(Request \cup {"log"}) /\ todo' # <<>>
    BY <1>5, TasksOfType DEF WorkerIsUp, Request
  <2> QED
    BY <1>5, <2>1 DEF WorkerIsUp, TypeOK, clientVars, workerVars, signalVars, dosVars
<1>6. ASSUME GetPacket PROVE TypeInv'
  <2>1. cur' \in Sender /\ port' \in Seq(Sender)
    BY <1>6 DEF GetPacket, TypeOK
  <2>2. todo' \in Seq(Request \cup {"log"})
    BY <1>6, <2>1, TasksOfType DEF GetPacket, TypeOK
  <2> QED
    BY <1>6, <2>1, <2>2 DEF GetPacket, TypeOK, clientVars, workerVars, signalVars, dosVars
<1>7. ASSUME SetTask PROVE TypeInv'
  <2>1. Head(todo) \in Request \cup {"log"}  BY <1>7 DEF SetTask, TypeOK
  <2>2. cur \in Sender  BY <1>7 DEF SetTask
  <2>3. task' \in Task
    BY <1>7, <2>1, <2>2 DEF SetTask, FreshTask, TypeOK, Task, Result
  <2> QED
    BY <1>7, <2>3
    DEF SetTask, TypeOK, clientVars, workerVars, signalVars, dosVars
<1>8. ASSUME TaskDone PROVE TypeInv'
  <2>1. todo' \in Seq(Request \cup {"log"})  BY <1>8 DEF TaskDone, TypeOK
  <2> QED
    BY <1>8, <2>1 DEF TaskDone, HandlerWait, TypeOK, clientVars, workerVars, dosVars
<1>9. ASSUME Reply PROVE TypeInv'
  <2>1. cur \in Sender /\ AnswerOf(cur) \in Result
    BY <1>9 DEF Reply, AnswerOf, TypeOK, Task, Result
  <2> QED
    BY <1>9, <2>1, ReturnPacketType
    DEF Reply, TypeOK, workerVars, signalVars, dosVars
<1>10. ASSUME LastReply PROVE TypeInv'
  <2>1. cur \in Sender /\ "true" \in Result
    BY <1>10 DEF LastReply, Result
  <2> QED
    BY <1>10, <2>1, ReturnPacketType
    DEF LastReply, TypeOK, workerVars, signalVars, dosVars
<1>11. ASSUME RefuseQueued PROVE TypeInv'
  <2>1. port' \in Seq(Sender) /\ "false" \in Result
    BY <1>11 DEF RefuseQueued, Result
  <2>2. attempts' \in 0..MaxAttempts
    BY <1>11, BoundsAssumption DEF RefuseQueued, TriesLeft, TypeOK
  <2> QED
    BY <1>11, <2>1, <2>2
    DEF RefuseQueued, TypeOK, handlerVars, workerVars, signalVars, dosVars
<1>12. ASSUME LeaveLoop \/ SignalWorker \/ AcceptDie \/ AwaitWorkerEnd
              \/ RemoveEntry \/ GiveUpEntry
       PROVE  TypeInv'
  BY <1>12
  DEF LeaveLoop, SignalWorker, AcceptDie, AwaitWorkerEnd, RemoveEntry, GiveUpEntry,
      TypeOK, clientVars, workerVars, signalVars, dosVars
<1>13. ASSUME NEW type \in Request \cup {"log"}, NEW res \in Result, Work(type, res),
              locks' \subseteq Lock, shuttingDown' \in BOOLEAN,
              port' \in Seq(Sender), deviceTask' \in BOOLEAN,
              UNCHANGED <<volume, attempts, starts, platform>>
       PROVE  TypeInv'
  <2>1. task' \in Task  BY <1>13 DEF Work, TypeOK, Task
  <2> QED
    BY <1>13, <2>1 DEF Work, TypeOK, clientVars, handlerVars, signalVars
<1>14. ASSUME RunLog \/ RunLocate \/ RunFreeLock \/ RunInhibit \/ RunDie
       PROVE  TypeInv'
  <2>1. /\ task.result \in Result /\ locks \subseteq Lock /\ shuttingDown \in BOOLEAN
        /\ port \in Seq(Sender) /\ deviceTask \in BOOLEAN
    BY DEF TypeOK, Task
  <2>2. IsShutdownPossible \in BOOLEAN  BY DEF IsShutdownPossible, ShutdownChecksLocks
  <2>3. Lock \cup {"true", "false", "in_use"} \subseteq Result  BY DEF Result
  <2>4. {"locate", "free_lock", "inhibit", "die", "log"} \subseteq Request \cup {"log"}
    BY DEF Request
  <2>5. CASE RunLog  BY <2>1, <2>4, <2>5, <1>13
    DEF RunLog, Finish, dosVars
  <2>6. CASE RunLocate  BY <2>1, <2>3, <2>4, <2>6, <1>13
    DEF RunLocate, Finish, dosVars
  <2>7. CASE RunFreeLock  BY <2>1, <2>4, <2>7, <1>13
    DEF RunFreeLock, Finish, dosVars
  <2>8. CASE RunInhibit  BY <2>1, <2>3, <2>4, <2>8, <1>13
    DEF RunInhibit, Finish, dosVars
  <2>9. CASE RunDie
    <3>1. port' \in Seq(Sender) /\ deviceTask' \in BOOLEAN
      <4>1. CASE UNCHANGED <<port, deviceTask>>
        BY <2>1, <4>1
      <4>2. CASE port' = <<>> /\ deviceTask' = FALSE
        <5>1. port' \in Seq(Sender)  BY <4>2
        <5>2. deviceTask' \in BOOLEAN  BY <4>2, Zenon
        <5> QED  BY <5>1, <5>2
      <4>3. IF IsShutdownPossible THEN ShutDown ELSE UNCHANGED <<port, deviceTask>>
        BY <2>9 DEF RunDie
      <4>4. CASE ShutDown  BY <4>1, <4>2, <4>4 DEF ShutDown
      <4> QED  BY <4>1, <4>3, <4>4
    <3>2. /\ Work("die", IF IsShutdownPossible THEN "true" ELSE "in_use")
          /\ (IF IsShutdownPossible THEN "true" ELSE "in_use") \in Result
      BY <2>3, <2>9 DEF RunDie
    <3>3. /\ locks' \subseteq Lock /\ shuttingDown' \in BOOLEAN
          /\ UNCHANGED <<volume, attempts, starts, platform>>
      BY <2>1, <2>2, <2>9 DEF RunDie
    <3> QED  BY <2>4, <3>1, <3>2, <3>3, <1>13
  <2> QED  BY <1>14, <2>5, <2>6, <2>7, <2>8, <2>9
<1>15. ASSUME WorkerInit \/ WorkerWait \/ WorkerSignals \/ WorkerEnds PROVE TypeInv'
  BY <1>15
  DEF WorkerInit, WorkerWait, WorkerSignals, WakeHandler, WorkerEnds, TypeOK,
      clientVars, handlerVars, signalVars, dosVars
<1>16. ASSUME UNCHANGED vars PROVE TypeInv'
  BY <1>16 DEF vars, TypeOK, clientVars, handlerVars, workerVars, signalVars, dosVars
<1> QED
  BY <1>1, <1>2, <1>3, <1>4, <1>5, <1>6, <1>7, <1>8, <1>9, <1>10, <1>11, <1>12, <1>14,
     <1>15, <1>16
  DEF Next, Clients, Handler, Worker

(* The variables of both processes, the port and the clients' packets keep *)
(* their types in every reachable state.                                   *)
THEOREM TypeCorrect == Spec => []TypeOK
<1>1. TypeInv => TypeOK  BY DEF TypeInv
<1> QED  BY <1>1, InitType, NextType, PTL DEF Spec

-----------------------------------------------------------------------------
(***************************************************************************)
(* The rendezvous.  Control of gTask is a token: the handler has it, or it *)
(* lies in the worker's signal, or the worker has it, or it lies in the    *)
(* handler's signal.  The signal bits are sticky, so a token is never lost *)
(* when Signal() comes before the other side's Wait().                     *)
(***************************************************************************)
WorkerBusy == wpc \in {"run", "signal"}

Rendezvous ==
  /\ hpc # "wait" => ~workerSignal /\ ~handlerSignal /\ ~WorkerBusy
  /\ hpc = "wait" => \/ workerSignal /\ ~handlerSignal /\ ~WorkerBusy
                     \/ ~workerSignal /\ ~handlerSignal /\ WorkerBusy
                     \/ ~workerSignal /\ handlerSignal /\ ~WorkerBusy

LEMMA InitRendezvous == Init => Rendezvous
BY DEF Init, Rendezvous, WorkerBusy

LEMMA HandlerRendezvous == TypeOK /\ Rendezvous /\ Handler => Rendezvous'
<1> SUFFICES ASSUME TypeOK, Rendezvous, Handler PROVE Rendezvous'  OBVIOUS
<1> USE DEF Rendezvous, WorkerBusy
<1>1. CASE Startup  BY <1>1 DEF Startup
<1>2. CASE WorkerIsUp  BY <1>2 DEF WorkerIsUp, workerVars, signalVars
<1>3. CASE GetPacket  BY <1>3 DEF GetPacket, workerVars, signalVars
<1>4. CASE LeaveLoop  BY <1>4 DEF LeaveLoop, workerVars, signalVars
<1>5. CASE SetTask  BY <1>5 DEF SetTask, workerVars, signalVars
<1>6. CASE SignalWorker  BY <1>6 DEF SignalWorker, workerVars
<1>7. CASE TaskDone  BY <1>7 DEF TaskDone, HandlerWait, workerVars
<1>8. CASE Reply  BY <1>8 DEF Reply, workerVars, signalVars
<1>9. CASE AcceptDie  BY <1>9 DEF AcceptDie, workerVars, signalVars
<1>10. CASE AwaitWorkerEnd  BY <1>10 DEF AwaitWorkerEnd, workerVars, signalVars
<1>11. CASE RemoveEntry \/ GiveUpEntry
  BY <1>11 DEF RemoveEntry, GiveUpEntry, workerVars, signalVars
<1>12. CASE RefuseQueued
  BY <1>12 DEF RefuseQueued, handlerVars, workerVars, signalVars
<1>13. CASE LastReply  BY <1>13 DEF LastReply, workerVars, signalVars
<1> QED
  BY <1>1, <1>2, <1>3, <1>4, <1>5, <1>6, <1>7, <1>8, <1>9, <1>10, <1>11, <1>12, <1>13
  DEF Handler

LEMMA WorkerRendezvous == TypeOK /\ Rendezvous /\ Worker => Rendezvous'
<1> SUFFICES ASSUME TypeOK, Rendezvous, Worker PROVE Rendezvous'  OBVIOUS
<1> USE DEF Rendezvous, WorkerBusy
<1>1. CASE WorkerInit  BY <1>1 DEF WorkerInit, handlerVars, signalVars
<1>2. CASE WorkerWait  BY <1>2 DEF WorkerWait, handlerVars
<1>3. CASE RunLog \/ RunLocate \/ RunFreeLock \/ RunInhibit \/ RunDie
  <2>1. wpc = "run" /\ wpc' = "signal" /\ UNCHANGED <<hpc, signalVars>>
    BY <1>3
    DEF RunLog, RunLocate, RunFreeLock, RunInhibit, RunDie, Work, Finish, handlerVars
  <2> QED  BY <2>1 DEF signalVars
<1>4. CASE WorkerSignals  BY <1>4 DEF WorkerSignals, WakeHandler, handlerVars
<1>5. CASE WorkerEnds  BY <1>5 DEF WorkerEnds, handlerVars, signalVars
<1> QED  BY <1>1, <1>2, <1>3, <1>4, <1>5 DEF Worker

LEMMA NextRendezvous == TypeOK /\ Rendezvous /\ [Next]_vars => Rendezvous'
<1> SUFFICES ASSUME TypeOK, Rendezvous, [Next]_vars PROVE Rendezvous'  OBVIOUS
<1>1. CASE Clients
  BY <1>1
  DEF Clients, Send, Receive, Rendezvous, WorkerBusy, handlerVars, workerVars, signalVars
<1>2. CASE Restart
  BY <1>2 DEF Restart, Rendezvous, WorkerBusy, workerVars
<1>3. CASE Handler  BY <1>3, HandlerRendezvous
<1>4. CASE Worker  BY <1>4, WorkerRendezvous
<1>5. CASE UNCHANGED vars
  BY <1>5 DEF vars, Rendezvous, WorkerBusy, handlerVars, workerVars, signalVars
<1> QED  BY <1>1, <1>2, <1>3, <1>4, <1>5 DEF Next

(* gTask is shared without a lock and is never touched by both processes,  *)
(* whatever the number of clients, failures and restarts.                  *)
THEOREM TaskIsOwned == Spec => []TaskOwnership
<1>1. Rendezvous => TaskOwnership
  BY DEF Rendezvous, TaskOwnership, WorkerBusy
<1> QED
  BY <1>1, TypeCorrect, InitRendezvous, NextRendezvous, PTL DEF Spec

-----------------------------------------------------------------------------
(***************************************************************************)
(* Packets.  A packet that was sent is in the port, once, or in the hands  *)
(* of the handler, or swallowed; the first two are pending.  The startup   *)
(* packet alone is answered before it is served.                           *)
(***************************************************************************)
InPort == {port[i] : i \in DOMAIN port}
OnceInPort == \A i, j \in DOMAIN port : port[i] = port[j] => i = j

Serving ==
  \/ hpc \in {"set", "signal", "wait", "reply", "lastReply"}
  \/ hpc \in {"loop", "closing", "removing"} /\ ~handlerRunning

PacketInv ==
  /\ request[Dos].type = "startup"
  /\ \A c \in Client : status[c] = "pending" => request[c].type # "startup"
  /\ hpc # "startup" => replyTo[Dos] = "handler"
  /\ hpc = "startup" => port # <<>> /\ Head(port) = Dos
  /\ hpc # "gone" => /\ OnceInPort
                     /\ \A s \in InPort : status[s] = "pending" /\ replyTo[s] = "sender"
                     /\ Dos \in InPort => hpc = "startup"
  /\ Serving /\ cur # Dos => cur \notin InPort /\ status[cur] = "pending" /\ replyTo[cur] = "sender"
  /\ hpc \in {"reply", "removing"} => cur # Dos
  /\ hpc = "awaitWorker" => cur = Dos

(***************************************************************************)
(* Phases.  The worker waits for a signal whenever the handler takes a     *)
(* packet, unless it has accepted to end.                                  *)
(***************************************************************************)
DieAccepted ==
  request[cur].type = "die" /\ task.type = "die" /\ task.result = "true"

PhaseInv ==
  /\ hpc \in {"startup", "awaitWorker", "set", "signal", "wait", "reply"} => handlerRunning
  /\ hpc \in {"closing", "removing", "lastReply", "gone"} => ~handlerRunning
  /\ wpc \in {"wait", "run", "signal"} => workerRunning
  /\ wpc \in {"none", "init", "ended"} => ~workerRunning
  /\ wpc = "closing" => (workerRunning <=> hpc # "awaitWorker")
  /\ hpc \in {"startup", "removing", "lastReply", "gone"} => ~workerRunning
  /\ wpc = "init" => hpc = "awaitWorker"
  /\ hpc \in {"loop", "set", "signal"} /\ handlerRunning => wpc = "wait"
  /\ hpc = "reply" => wpc = "wait" \/ DieAccepted
  /\ hpc = "wait" /\ workerSignal => wpc = "wait"
  /\ hpc = "wait" /\ handlerSignal => wpc = "wait" \/ DieAccepted
  /\ shuttingDown => wpc \in {"signal", "closing", "ended"}
  /\ wpc = "signal" /\ shuttingDown => DieAccepted
  /\ hpc = "awaitWorker" => ~shuttingDown /\ wpc # "run" /\ wpc # "signal"

(***************************************************************************)
(* Tasks.  What is in gTask belongs to the packet that is served.          *)
(***************************************************************************)
Done == hpc = "wait" /\ (wpc = "signal" \/ handlerSignal)

TaskInv ==
  /\ hpc \in {"set", "signal", "wait"} =>
       IF request[cur].type \in {"startup", "ignored"}
         THEN todo = <<"log">>
         ELSE /\ request[cur].type # "current_volume"
              /\ todo \in {<<"log", request[cur].type>>, <<request[cur].type>>}
  /\ hpc \in {"signal", "wait"} => task.type = Head(todo) /\ task.lock = request[cur].lock
  /\ hpc = "reply" => \/ request[cur].type \in {"current_volume", "ignored"}
                      \/ task.type = request[cur].type /\ task.lock = request[cur].lock
  /\ hpc = "signal" \/ (hpc = "wait" /\ ~Done) => task.result = "none"
  /\ Done /\ task.type # "locate" => task.result \notin Lock
  /\ hpc = "reply" /\ request[cur].type \notin {"current_volume", "ignored", "locate"}
       => task.result \notin Lock

FlowInv == TypeInv /\ Rendezvous /\ PacketInv /\ PhaseInv /\ TaskInv

LEMMA ReturnPacketFlow ==
  ASSUME TypeOK, NEW s \in Sender, NEW res, NEW queue, ReturnPacket(s, res, queue)
  PROVE  /\ replyTo' = [replyTo EXCEPT ![s] = "handler"]
         /\ replyTo[s] = "sender" => /\ status' = [status EXCEPT ![s] = "answered"]
                                     /\ answer' = [answer EXCEPT ![s] = res]
                                     /\ port' = queue
         /\ replyTo[s] # "sender" => UNCHANGED <<status, answer>> /\ port' = Append(queue, s)
BY DEF ReturnPacket, PortSwapped

LEMMA HeadAndTail ==
  ASSUME TypeOK, port # <<>>
  PROVE  /\ Head(port) \in InPort
         /\ {Tail(port)[i] : i \in DOMAIN Tail(port)} \subseteq InPort
         /\ OnceInPort => /\ \A i, j \in DOMAIN Tail(port) : Tail(port)[i] = Tail(port)[j] => i = j
                          /\ Head(port) \notin {Tail(port)[i] : i \in DOMAIN Tail(port)}
<1>1. port \in Seq(Sender)
  BY DEF TypeOK
<1>2. /\ Len(port) \in Nat /\ DOMAIN port = 1..Len(port) /\ Len(port) # 0
      /\ Head(port) = port[1] /\ Len(Tail(port)) = Len(port) - 1
      /\ DOMAIN Tail(port) = 1..(Len(port) - 1)
      /\ \A i \in 1..(Len(port) - 1) : Tail(port)[i] = port[i + 1]
  BY <1>1
<1>3. 1 \in DOMAIN port /\ \A i \in 1..(Len(port) - 1) : i + 1 \in DOMAIN port /\ i + 1 # 1
  BY <1>2
<1>4. \A i, j \in 1..(Len(port) - 1) : i + 1 = j + 1 => i = j
  BY <1>2
<1> QED
  BY <1>2, <1>3, <1>4 DEF InPort, OnceInPort

LEMMA Queued ==
  ASSUME TypeOK, NEW s \in Sender, port' = Append(port, s)
  PROVE  /\ InPort' = InPort \cup {s}
         /\ OnceInPort /\ s \notin InPort => OnceInPort'
         /\ port # <<>> => Head(port') = Head(port) /\ port' # <<>>
<1>1. port \in Seq(Sender)
  BY DEF TypeOK
<1>2. /\ Len(port) \in Nat /\ DOMAIN port = 1..Len(port)
      /\ DOMAIN port' = 1..(Len(port) + 1) /\ Len(port) + 1 \notin 1..Len(port)
      /\ \A i \in 1..Len(port) : port'[i] = port[i]
      /\ port'[Len(port) + 1] = s
  BY <1>1
<1>3. \A i \in 1..(Len(port) + 1) : i \in 1..Len(port) \/ i = Len(port) + 1
  BY <1>2
<1>4. Len(port) + 1 \in DOMAIN port' /\ \A i \in 1..Len(port) : i \in DOMAIN port'
  BY <1>2
<1>5. InPort' = InPort \cup {s}
  BY <1>2, <1>3, <1>4 DEF InPort
<1>6. OnceInPort /\ s \notin InPort => OnceInPort'
  BY <1>2, <1>3 DEF InPort, OnceInPort
<1>7. port # <<>> => Head(port') = Head(port) /\ port' # <<>>
  BY <1>1
<1> QED
  BY <1>5, <1>6, <1>7

LEMMA InitFlow == Init => FlowInv
<1> SUFFICES ASSUME Init PROVE FlowInv
  OBVIOUS
<1>1. TypeInv /\ Rendezvous
  BY InitType, InitRendezvous
<1>2. Dos \in Sender /\ port = <<Dos>> /\ Head(port) = Dos /\ port # <<>> /\ InPort = {Dos} /\ OnceInPort
  BY DEF Init, Sender, InPort, OnceInPort
<1>3. PacketInv
  BY <1>2, NamesAssumption DEF Init, PacketInv, Serving, Sender
<1>4. PhaseInv /\ TaskInv
  BY <1>2 DEF Init, PhaseInv, TaskInv, Done
<1> QED
  BY <1>1, <1>3, <1>4 DEF FlowInv

LEMMA ClientsFlow == ASSUME FlowInv, Clients PROVE PacketInv' /\ PhaseInv' /\ TaskInv'
<1>1. ASSUME NEW c \in Client, NEW r \in Request \ {"startup"}, NEW l \in Lock \cup {Nothing},
             Send(c, r, l)
      PROVE  PacketInv' /\ PhaseInv' /\ TaskInv'
  <2>1. c \in Sender /\ c # Dos /\ status[c] = "idle"
    BY <1>1, NamesAssumption DEF Send, Sender
  <2>2. /\ UNCHANGED <<answer, hpc, cur, todo, handlerRunning, wpc, workerRunning, shuttingDown,
                       handlerSignal, workerSignal, task>>
        /\ status' = [status EXCEPT ![c] = "pending"]
        /\ request' = [request EXCEPT ![c] = [type |-> r, lock |-> l]]
        /\ replyTo' = [replyTo EXCEPT ![c] = "sender"]
    BY <1>1 DEF Send, handlerVars, workerVars, signalVars
  <2>3. TypeOK
    BY DEF FlowInv, TypeInv
  <2>4. Serving => c # cur
    BY <2>1 DEF FlowInv, PacketInv
  <2>5. Serving' <=> Serving
    BY <2>2 DEF Serving
  <2>6. hpc # "gone" => c \notin InPort
    BY <2>1 DEF FlowInv, PacketInv
  <2>7. \/ hpc # "gone" /\ port' = Append(port, c)
        \/ UNCHANGED port
    BY <1>1 DEF Send
  <2>8. /\ InPort' \subseteq InPort \cup {c}
        /\ hpc # "gone" /\ OnceInPort => OnceInPort'
        /\ port # <<>> => Head(port') = Head(port) /\ port' # <<>>
    BY <2>1, <2>3, <2>6, <2>7, Queued DEF InPort, OnceInPort
  <2>9. PacketInv'
    <3>1. request'[Dos].type = "startup" /\ (\A d \in Client : status'[d] = "pending" => request'[d].type # "startup")
      BY <2>1, <2>2, <2>3 DEF FlowInv, PacketInv, TypeOK, Sender
    <3>2. hpc # "startup" => replyTo'[Dos] = "handler"
      BY <2>1, <2>2, <2>3 DEF FlowInv, PacketInv, TypeOK
    <3>3. hpc = "startup" => port' # <<>> /\ Head(port') = Dos
      BY <2>8 DEF FlowInv, PacketInv
    <3>4. hpc # "gone" => /\ OnceInPort'
                          /\ \A s \in InPort' : status'[s] = "pending" /\ replyTo'[s] = "sender"
                          /\ Dos \in InPort' => hpc = "startup"
      <4>1. status'[c] = "pending" /\ replyTo'[c] = "sender"
        BY <2>1, <2>2, <2>3 DEF TypeOK
      <4>2. \A s \in InPort : s # c /\ s \in Sender => status'[s] = status[s] /\ replyTo'[s] = replyTo[s]
        BY <2>2, <2>3 DEF TypeOK
      <4>3. InPort \subseteq Sender
        BY <2>3 DEF InPort, TypeOK
      <4> QED
        BY <2>1, <2>6, <2>8, <4>1, <4>2, <4>3 DEF FlowInv, PacketInv
    <3>5. Serving /\ cur # Dos => cur \notin InPort' /\ status'[cur] = "pending" /\ replyTo'[cur] = "sender"
      <4>1. Serving => cur \in Sender
        BY DEF Serving, FlowInv, TypeInv, PhaseInv
      <4> QED
        BY <2>2, <2>3, <2>4, <2>8, <4>1 DEF FlowInv, PacketInv, TypeOK
    <3> QED
      BY <2>2, <2>5, <3>1, <3>2, <3>3, <3>4, <3>5 DEF FlowInv, PacketInv
  <2>10. hpc \in {"set", "signal", "wait", "reply"} => request'[cur] = request[cur]
    <3>1. hpc \in {"set", "signal", "wait", "reply"} => c # cur /\ cur \in Sender
      BY <2>4 DEF Serving, FlowInv, TypeInv
    <3> QED
      BY <2>2, <2>3, <3>1 DEF TypeOK
  <2>11. PhaseInv'
    <3>1. wpc = "signal" => hpc = "wait"
      BY DEF FlowInv, Rendezvous, WorkerBusy
    <3> QED
      BY <2>2, <2>10, <3>1 DEF FlowInv, PhaseInv, DieAccepted
  <2>12. TaskInv'
    BY <2>2, <2>10 DEF FlowInv, TaskInv, Done
  <2> QED
    BY <2>9, <2>11, <2>12
<1>2. ASSUME NEW s \in Sender, Receive(s)
      PROVE  PacketInv' /\ PhaseInv' /\ TaskInv'
  <2>1. /\ UNCHANGED <<port, request, answer, replyTo, hpc, cur, todo, handlerRunning, wpc, workerRunning,
                       shuttingDown, handlerSignal, workerSignal, task>>
        /\ status[s] = "answered" /\ status' = [status EXCEPT ![s] = "idle"]
    BY <1>2 DEF Receive, handlerVars, workerVars, signalVars
  <2>2. TypeOK
    BY DEF FlowInv, TypeInv
  <2>3. \A t \in Sender : status'[t] = "pending" <=> status[t] = "pending"
    BY <2>1, <2>2 DEF TypeOK
  <2>4. InPort \subseteq Sender /\ (Serving => cur \in Sender)
    BY <2>2 DEF InPort, TypeOK, Serving, FlowInv, TypeInv, PhaseInv
  <2>5. PacketInv'
    BY <2>1, <2>3, <2>4 DEF FlowInv, PacketInv, Sender, InPort, OnceInPort, Serving
  <2>6. PhaseInv'
    BY <2>1 DEF FlowInv, PhaseInv, DieAccepted
  <2>7. TaskInv'
    BY <2>1 DEF FlowInv, TaskInv, Done
  <2> QED
    BY <2>5, <2>6, <2>7
<1> QED
  BY <1>1, <1>2 DEF Clients

LEMMA RestartFlow == ASSUME FlowInv, Restart PROVE PacketInv' /\ PhaseInv' /\ TaskInv'
<1>1. /\ hpc = "gone" /\ port' = <<Dos>> /\ hpc' = "startup" /\ handlerRunning' = TRUE
      /\ status' = [status EXCEPT ![Dos] = "pending"]
      /\ replyTo' = [replyTo EXCEPT ![Dos] = "sender"]
      /\ handlerSignal' = FALSE
      /\ UNCHANGED <<request, wpc, workerRunning, shuttingDown, task>>
  BY DEF Restart, workerVars
<1>2. Dos \in Sender /\ \A c \in Client : c # Dos
  BY NamesAssumption DEF Sender
<1>3. InPort' = {Dos} /\ OnceInPort' /\ Head(port') = Dos /\ port' # <<>>
  BY <1>1 DEF InPort, OnceInPort
<1>4. status'[Dos] = "pending" /\ replyTo'[Dos] = "sender"
        /\ \A c \in Client : status'[c] = status[c]
  BY <1>1, <1>2 DEF FlowInv, TypeInv, TypeOK, Sender
<1>5. PacketInv'
  BY <1>1, <1>2, <1>3, <1>4 DEF FlowInv, PacketInv, Serving
<1>6. PhaseInv'
  <2>1. wpc # "signal" /\ wpc # "run"
    BY <1>1 DEF FlowInv, Rendezvous, WorkerBusy
  <2> QED
    BY <1>1, <2>1 DEF FlowInv, PhaseInv
<1>7. TaskInv'
  BY <1>1 DEF TaskInv, Done
<1> QED
  BY <1>5, <1>6, <1>7

LEMMA StartupFlow == ASSUME FlowInv, Startup PROVE PacketInv' /\ PhaseInv' /\ TaskInv'
<1>1. TypeOK /\ Dos \in Sender /\ (\A c \in Client : c # Dos) /\ InPort \subseteq Sender
  BY NamesAssumption DEF FlowInv, TypeInv, TypeOK, InPort, Sender
<1>2. hpc = "startup" /\ port # <<>> /\ Head(port) = Dos /\ cur' = Dos
  BY DEF Startup, FlowInv, PacketInv
<1>3. Dos \in InPort /\ replyTo[Dos] = "sender" /\ status[Dos] = "pending"
  BY <1>1, <1>2, HeadAndTail DEF FlowInv, PacketInv
<1>4. /\ replyTo' = [replyTo EXCEPT ![Dos] = "handler"]
      /\ status' = [status EXCEPT ![Dos] = "answered"] /\ port' = Tail(port)
  BY <1>1, <1>2, <1>3, ReturnPacketFlow DEF Startup
<1>5. InPort' \subseteq InPort /\ OnceInPort' /\ Dos \notin InPort'
  BY <1>1, <1>2, <1>4, HeadAndTail DEF FlowInv, PacketInv, InPort, OnceInPort
<1>6. request' = request
  BY DEF Startup
<1>7. \A s \in InPort' : status'[s] = status[s] /\ replyTo'[s] = replyTo[s]
  BY <1>1, <1>4, <1>5 DEF TypeOK
<1>8. replyTo'[Dos] = "handler" /\ \A c \in Client : status'[c] = status[c]
  BY <1>1, <1>4 DEF TypeOK, Sender
<1>9. hpc' \in {"awaitWorker", "loop"}
  BY DEF Startup
<1>10. PacketInv'
  BY <1>2, <1>5, <1>6, <1>7, <1>8, <1>9 DEF FlowInv, PacketInv
<1>11. PhaseInv'
  <2>1. ~workerSignal /\ ~handlerSignal /\ wpc \notin {"run", "signal"} /\ ~workerRunning /\ wpc # "init"
    BY <1>2 DEF FlowInv, Rendezvous, WorkerBusy, PhaseInv
  <2>2. workerRunning' = workerRunning
    BY DEF Startup
  <2>3. CASE /\ hpc' = "awaitWorker" /\ wpc' = "init" /\ shuttingDown' = FALSE /\ UNCHANGED handlerRunning
    BY <1>2, <2>1, <2>2, <2>3 DEF FlowInv, PhaseInv
  <2>4. CASE handlerRunning' = FALSE /\ hpc' = "loop" /\ UNCHANGED <<wpc, shuttingDown>>
    BY <1>2, <2>1, <2>2, <2>4 DEF FlowInv, PhaseInv
  <2> QED
    BY <2>3, <2>4 DEF Startup
<1>12. TaskInv'
  BY <1>9 DEF TaskInv, Done
<1> QED
  BY <1>10, <1>11, <1>12

(* A step of the handler that touches neither packets nor the worker.      *)
LEMMA HandlerPackets ==
  ASSUME FlowInv, UNCHANGED <<port, status, request, replyTo, cur>>,
         hpc # "startup", hpc' # "startup", hpc # "gone", Serving' /\ cur # Dos => Serving,
         hpc' \in {"reply", "removing"} => cur # Dos, hpc' = "awaitWorker" => cur = Dos
  PROVE  PacketInv'
BY DEF FlowInv, PacketInv, InPort, OnceInPort

LEMMA GetPacketFlow == ASSUME FlowInv, GetPacket PROVE PacketInv' /\ PhaseInv' /\ TaskInv'
<1>1. /\ hpc = "loop" /\ handlerRunning /\ port # <<>>
      /\ cur' = Head(port) /\ port' = Tail(port) /\ todo' = TasksOf(request[Head(port)].type)
      /\ hpc' = (IF todo' = <<>> THEN "reply" ELSE "set")
      /\ UNCHANGED <<status, request, answer, replyTo, handlerRunning, wpc, workerRunning,
                     shuttingDown, handlerSignal, workerSignal, task>>
  BY DEF GetPacket, clientVars, workerVars, signalVars
<1>2. TypeOK
  BY DEF FlowInv, TypeInv
<1>3. cur' \in InPort /\ cur' \notin InPort' /\ InPort' \subseteq InPort /\ OnceInPort' /\ cur' # Dos
  BY <1>1, <1>2, HeadAndTail DEF FlowInv, PacketInv, InPort, OnceInPort
<1>4. PacketInv'
  BY <1>1, <1>3 DEF FlowInv, PacketInv
<1>5. PhaseInv'
  BY <1>1 DEF FlowInv, PhaseInv
<1>6. TaskInv'
  <2> DEFINE r == request[Head(port)].type
  <2>1. Head(port) \in Client
    BY <1>1, <1>2, <1>3 DEF TypeOK, Sender
  <2>2. r \in Request /\ r # "startup"
    BY <1>1, <1>2, <1>3, <2>1 DEF FlowInv, PacketInv, TypeOK, Sender
  <2>3. todo' = (IF r = "current_volume" THEN <<>> ELSE IF r = "ignored" THEN <<"log">> ELSE <<"log", r>>)
    BY <1>1, <2>2 DEF TasksOf
  <2>4. /\ hpc' \in {"set", "reply"} /\ request'[cur'].type = r
        /\ hpc' = "reply" => r = "current_volume"
        /\ hpc' = "set" => r # "current_volume"
    BY <1>1, <2>3
  <2> HIDE DEF r
  <2> QED
    BY <2>2, <2>3, <2>4 DEF TaskInv, Done
<1> QED
  BY <1>4, <1>5, <1>6

LEMMA SetTaskFlow == ASSUME FlowInv, SetTask PROVE PacketInv' /\ PhaseInv' /\ TaskInv'
<1>1. /\ hpc = "set" /\ hpc' = "signal" /\ task' = FreshTask(Head(todo))
      /\ UNCHANGED <<port, status, request, replyTo, cur, todo, handlerRunning, wpc, workerRunning,
                     shuttingDown, handlerSignal, workerSignal>>
  BY DEF SetTask, clientVars, workerVars, signalVars
<1>2. task'.type = Head(todo) /\ task'.lock = request[cur].lock /\ task'.result = "none"
  BY <1>1 DEF FreshTask
<1>3. PacketInv'
  BY <1>1, HandlerPackets DEF Serving
<1>4. PhaseInv'
  BY <1>1 DEF FlowInv, PhaseInv
<1>5. TaskInv'
  BY <1>1, <1>2 DEF FlowInv, TaskInv, Done
<1> QED
  BY <1>3, <1>4, <1>5

LEMMA SignalWorkerFlow == ASSUME FlowInv, SignalWorker PROVE PacketInv' /\ PhaseInv' /\ TaskInv'
<1>1. /\ hpc = "signal" /\ hpc' = "wait" /\ workerSignal' = TRUE
      /\ UNCHANGED <<port, status, request, replyTo, cur, todo, handlerRunning, wpc, workerRunning,
                     shuttingDown, handlerSignal, task>>
  BY DEF SignalWorker, clientVars, workerVars
<1>2. PacketInv'
  BY <1>1, HandlerPackets DEF Serving
<1>3. ~handlerSignal /\ wpc # "signal"
  BY <1>1 DEF FlowInv, Rendezvous, WorkerBusy
<1>4. PhaseInv'
  BY <1>1, <1>3 DEF FlowInv, PhaseInv
<1>5. TaskInv'
  BY <1>1, <1>3 DEF FlowInv, TaskInv, Done
<1> QED
  BY <1>2, <1>4, <1>5

LEMMA TaskDoneFlow == ASSUME FlowInv, TaskDone PROVE PacketInv' /\ PhaseInv' /\ TaskInv'
<1>1. /\ hpc = "wait" /\ handlerSignal /\ handlerSignal' = FALSE /\ todo' = Tail(todo)
      /\ hpc' = IF todo' # <<>> THEN "set" ELSE IF request[cur].type = "startup" THEN "loop" ELSE "reply"
      /\ UNCHANGED <<port, status, request, replyTo, cur, handlerRunning, wpc, workerRunning,
                     shuttingDown, workerSignal, task>>
  BY DEF TaskDone, HandlerWait, clientVars, workerVars
<1> DEFINE r == request[cur].type
<1>2. /\ task.type = Head(todo) /\ task.lock = request[cur].lock
      /\ IF r \in {"startup", "ignored"} THEN todo = <<"log">>
           ELSE r # "current_volume" /\ todo \in {<<"log", r>>, <<r>>}
      /\ task.type # "locate" => task.result \notin Lock
  BY <1>1 DEF FlowInv, TaskInv, Done
<1>3. handlerRunning /\ ~workerSignal /\ wpc \notin {"run", "signal"}
  BY <1>1 DEF FlowInv, PhaseInv, Rendezvous, WorkerBusy
<1>4. wpc = "wait" \/ (r = "die" /\ task.type = "die" /\ task.result = "true")
  BY <1>1 DEF FlowInv, PhaseInv, DieAccepted
<1> HIDE DEF r
<1>5. CASE todo = <<"log", r>>
  <2>1. hpc' = "set" /\ todo' = <<r>> /\ r \notin {"startup", "ignored", "current_volume"} /\ task.type = "log"
    BY <1>1, <1>2, <1>5
  <2>2. PacketInv'
    BY <1>1, <2>1, HandlerPackets DEF Serving
  <2>3. PhaseInv'
    BY <1>1, <1>3, <1>4, <2>1 DEF FlowInv, PhaseInv
  <2>4. TaskInv'
    BY <1>1, <2>1 DEF TaskInv, Done, r
  <2> QED
    BY <2>2, <2>3, <2>4
<1>6. CASE todo = <<"log">> /\ r \in {"startup", "ignored"}
  <2>1. todo' = <<>> /\ task.type = "log" /\ wpc = "wait" /\ hpc' = (IF r = "startup" THEN "loop" ELSE "reply")
    BY <1>1, <1>2, <1>4, <1>6 DEF r
  <2>2. r = "ignored" => cur # Dos
    BY DEF FlowInv, PacketInv, r
  <2>3. PacketInv'
    BY <1>1, <1>3, <1>6, <2>1, <2>2, HandlerPackets DEF Serving
  <2>4. PhaseInv'
    BY <1>1, <1>3, <2>1 DEF FlowInv, PhaseInv
  <2>5. TaskInv'
    BY <1>1, <1>6, <2>1 DEF TaskInv, Done, r
  <2> QED
    BY <2>3, <2>4, <2>5
<1>7. CASE todo = <<r>> /\ r \notin {"startup", "ignored", "current_volume"}
  <2>1. todo' = <<>> /\ task.type = r /\ hpc' = "reply"
    BY <1>1, <1>2, <1>7 DEF r
  <2>2. cur # Dos
    BY <1>7 DEF FlowInv, PacketInv, r
  <2>3. PacketInv'
    BY <1>1, <2>1, <2>2, HandlerPackets DEF Serving
  <2>4. PhaseInv'
    BY <1>1, <1>3, <1>4, <2>1 DEF FlowInv, PhaseInv, DieAccepted, r
  <2>5. TaskInv'
    BY <1>1, <1>2, <2>1 DEF TaskInv, Done, r
  <2> QED
    BY <2>3, <2>4, <2>5
<1> QED
  BY <1>2, <1>5, <1>6, <1>7

LEMMA ReplyFlow == ASSUME FlowInv, Reply PROVE PacketInv' /\ PhaseInv' /\ TaskInv'
<1>1. /\ hpc = "reply" /\ hpc' = "loop" /\ ReturnPacket(cur, AnswerOf(cur), port)
      /\ ~(request[cur].type = "die" /\ task.result = "true")
      /\ UNCHANGED <<request, cur, todo, handlerRunning, wpc, workerRunning, shuttingDown,
                     handlerSignal, workerSignal, task>>
  BY DEF Reply, workerVars, signalVars
<1>2. /\ TypeOK /\ cur \in Sender /\ cur # Dos /\ handlerRunning /\ replyTo[cur] = "sender"
      /\ cur \notin InPort /\ InPort \subseteq Sender
  BY <1>1 DEF FlowInv, TypeInv, TypeOK, PacketInv, PhaseInv, Serving, InPort
<1>3. /\ replyTo' = [replyTo EXCEPT ![cur] = "handler"]
      /\ status' = [status EXCEPT ![cur] = "answered"] /\ port' = port
  BY <1>1, <1>2, ReturnPacketFlow
<1>4. \A s \in Sender : s # cur => status'[s] = status[s] /\ replyTo'[s] = replyTo[s]
  BY <1>2, <1>3 DEF TypeOK
<1>5. status'[cur] = "answered"
  BY <1>2, <1>3 DEF TypeOK
<1>6. PacketInv'
  <2>1. InPort' = InPort /\ OnceInPort' = OnceInPort
    BY <1>3 DEF InPort, OnceInPort
  <2>2. \A c \in Client : status'[c] = "pending" => request'[c].type # "startup"
    BY <1>1, <1>4, <1>5 DEF FlowInv, PacketInv, Sender
  <2>3. replyTo'[Dos] = "handler"
    BY <1>1, <1>2, <1>4 DEF FlowInv, PacketInv, Sender
  <2> QED
    BY <1>1, <1>2, <1>4, <2>1, <2>2, <2>3 DEF FlowInv, PacketInv, Serving
<1>7. PhaseInv'
  <2>1. wpc = "wait"
    BY <1>1 DEF FlowInv, PhaseInv, DieAccepted
  <2> QED
    BY <1>1, <1>2, <2>1 DEF FlowInv, PhaseInv
<1>8. TaskInv'
  BY <1>1 DEF TaskInv, Done
<1> QED
  BY <1>6, <1>7, <1>8

LEMMA RefuseQueuedFlow == ASSUME FlowInv, RefuseQueued PROVE PacketInv' /\ PhaseInv' /\ TaskInv'
<1>1. /\ hpc = "removing" /\ port' = <<>>
      /\ status' = [s \in Sender |-> IF s \in InPort THEN "answered" ELSE status[s]]
      /\ replyTo' = [s \in Sender |-> IF s \in InPort THEN "handler" ELSE replyTo[s]]
      /\ UNCHANGED <<request, hpc, cur, todo, handlerRunning, wpc, workerRunning, shuttingDown,
                     handlerSignal, workerSignal, task>>
  BY DEF RefuseQueued, InPort, handlerVars, workerVars, signalVars
<1>2. TypeOK /\ cur \in Sender /\ ~handlerRunning /\ Dos \in Sender
  BY <1>1 DEF FlowInv, TypeInv, PhaseInv, Sender
<1>3. InPort' = {} /\ OnceInPort'
  BY <1>1 DEF InPort, OnceInPort
<1>4. PacketInv'
  <2>1. \A c \in Client : status'[c] = "pending" => request'[c].type # "startup"
    BY <1>1 DEF FlowInv, PacketInv, Sender
  <2>2. replyTo'[Dos] = "handler"
    BY <1>1, <1>2 DEF FlowInv, PacketInv
  <2>3. status'[cur] = status[cur] /\ replyTo'[cur] = replyTo[cur]
    BY <1>1, <1>2 DEF FlowInv, PacketInv, Serving
  <2> QED
    BY <1>1, <1>2, <1>3, <2>1, <2>2, <2>3 DEF FlowInv, PacketInv, Serving
<1>5. PhaseInv'
  BY <1>1 DEF FlowInv, PhaseInv, DieAccepted
<1>6. TaskInv'
  BY <1>1 DEF FlowInv, TaskInv, Done
<1> QED
  BY <1>4, <1>5, <1>6

LEMMA LastReplyFlow == ASSUME FlowInv, LastReply PROVE PacketInv' /\ PhaseInv' /\ TaskInv'
<1>1. /\ hpc = "lastReply" /\ hpc' = "gone" /\ ReturnPacket(cur, "true", port)
      /\ UNCHANGED <<request, cur, todo, handlerRunning, wpc, workerRunning, shuttingDown,
                     handlerSignal, workerSignal, task>>
  BY DEF LastReply, workerVars, signalVars
<1>2. TypeOK /\ cur \in Sender /\ Dos \in Sender
  BY <1>1 DEF FlowInv, TypeInv, Sender
<1>3. replyTo' = [replyTo EXCEPT ![cur] = "handler"]
        /\ (status' = status \/ status' = [status EXCEPT ![cur] = "answered"])
  BY <1>1, <1>2, ReturnPacketFlow
<1>4. replyTo'[Dos] = "handler" /\ \A c \in Client : status'[c] = "pending" => status[c] = "pending"
  BY <1>1, <1>2, <1>3 DEF FlowInv, PacketInv, TypeOK, Sender
<1>5. PacketInv'
  BY <1>1, <1>4 DEF FlowInv, PacketInv, Serving
<1>6. PhaseInv'
  BY <1>1 DEF FlowInv, PhaseInv, DieAccepted, Rendezvous, WorkerBusy
<1>7. TaskInv'
  BY <1>1 DEF TaskInv, Done
<1> QED
  BY <1>5, <1>6, <1>7

LEMMA HandlerFlow == ASSUME FlowInv, Handler PROVE PacketInv' /\ PhaseInv' /\ TaskInv'
<1>1. CASE WorkerIsUp
  <2>1. /\ hpc = "awaitWorker" /\ workerRunning /\ hpc' = "set" /\ todo' = TasksOf("startup")
        /\ UNCHANGED <<port, status, request, replyTo, cur, handlerRunning, wpc, workerRunning,
                       shuttingDown, handlerSignal, workerSignal, task>>
    BY <1>1 DEF WorkerIsUp, clientVars, workerVars, signalVars
  <2>2. cur = Dos /\ todo' = <<"log">> /\ wpc = "wait"
    BY <2>1 DEF FlowInv, PacketInv, PhaseInv, TasksOf, TypeInv, TypeOK
  <2>3. PacketInv'
    BY <2>1, <2>2, HandlerPackets DEF Serving
  <2>4. PhaseInv'
    BY <2>1, <2>2 DEF FlowInv, PhaseInv
  <2>5. TaskInv'
    BY <2>1, <2>2 DEF FlowInv, PacketInv, TaskInv, Done
  <2> QED
    BY <2>3, <2>4, <2>5
<1>2. CASE LeaveLoop
  <2>1. /\ hpc = "loop" /\ hpc' = "closing" /\ ~(handlerRunning /\ workerRunning)
        /\ UNCHANGED <<port, status, request, replyTo, cur, todo, handlerRunning, wpc, workerRunning,
                       shuttingDown, handlerSignal, workerSignal, task>>
    BY <1>2 DEF LeaveLoop, clientVars, workerVars, signalVars
  <2>2. ~handlerRunning
    BY <2>1 DEF FlowInv, PhaseInv
  <2>3. PacketInv'
    BY <2>1, <2>2, HandlerPackets DEF Serving
  <2>4. PhaseInv' /\ TaskInv'
    BY <2>1, <2>2 DEF FlowInv, PhaseInv, TaskInv, Done, DieAccepted, Rendezvous, WorkerBusy
  <2> QED
    BY <2>3, <2>4
<1>3. CASE AcceptDie
  <2>1. /\ hpc = "reply" /\ hpc' = "loop" /\ handlerRunning' = FALSE
        /\ UNCHANGED <<port, status, request, replyTo, cur, todo, wpc, workerRunning,
                       shuttingDown, handlerSignal, workerSignal, task>>
    BY <1>3 DEF AcceptDie, clientVars, workerVars, signalVars
  <2>2. PacketInv'
    BY <2>1, HandlerPackets DEF Serving
  <2>3. PhaseInv' /\ TaskInv'
    BY <2>1 DEF FlowInv, PhaseInv, TaskInv, Done, DieAccepted, Rendezvous, WorkerBusy
  <2> QED
    BY <2>2, <2>3
<1>4. CASE AwaitWorkerEnd
  <2>1. /\ hpc = "closing" /\ ~workerRunning
        /\ hpc' = IF request[cur].type = "startup" THEN "lastReply" ELSE "removing"
        /\ UNCHANGED <<port, status, request, replyTo, cur, todo, handlerRunning, wpc, workerRunning,
                       shuttingDown, handlerSignal, workerSignal, task>>
    BY <1>4 DEF AwaitWorkerEnd, clientVars, workerVars, signalVars
  <2>2. ~handlerRunning /\ hpc' \in {"lastReply", "removing"} /\ (hpc' = "removing" => cur # Dos)
    BY <2>1 DEF FlowInv, PhaseInv, PacketInv
  <2>3. PacketInv'
    BY <2>1, <2>2, HandlerPackets DEF Serving
  <2>4. PhaseInv' /\ TaskInv'
    BY <2>1, <2>2 DEF FlowInv, PhaseInv, TaskInv, Done, DieAccepted, Rendezvous, WorkerBusy
  <2> QED
    BY <2>3, <2>4
<1>5. CASE RemoveEntry \/ GiveUpEntry
  <2>1. /\ hpc = "removing" /\ hpc' = "lastReply"
        /\ UNCHANGED <<port, status, request, replyTo, cur, todo, handlerRunning, wpc, workerRunning,
                       shuttingDown, handlerSignal, workerSignal, task>>
    BY <1>5 DEF RemoveEntry, GiveUpEntry, clientVars, workerVars, signalVars
  <2>2. ~handlerRunning
    BY <2>1 DEF FlowInv, PhaseInv
  <2>3. PacketInv'
    BY <2>1, <2>2, HandlerPackets DEF Serving
  <2>4. PhaseInv' /\ TaskInv'
    BY <2>1, <2>2 DEF FlowInv, PhaseInv, TaskInv, Done, DieAccepted, Rendezvous, WorkerBusy
  <2> QED
    BY <2>3, <2>4
<1> QED
  BY <1>1, <1>2, <1>3, <1>4, <1>5, StartupFlow, GetPacketFlow, SetTaskFlow, SignalWorkerFlow,
     TaskDoneFlow, ReplyFlow, RefuseQueuedFlow, LastReplyFlow DEF Handler

LEMMA WorkerPackets ==
  ASSUME FlowInv, UNCHANGED <<status, request, replyTo, cur, hpc, handlerRunning>>,
         port' = port \/ (port' = <<>> /\ hpc = "wait")
  PROVE  PacketInv'
<1>1. CASE port' = port
  BY <1>1 DEF FlowInv, PacketInv, InPort, OnceInPort, Serving
<1>2. CASE port' = <<>> /\ hpc = "wait"
  <2>1. InPort' = {} /\ OnceInPort'
    BY <1>2 DEF InPort, OnceInPort
  <2> QED
    BY <1>2, <2>1 DEF FlowInv, PacketInv, Serving
<1> QED
  BY <1>1, <1>2

LEMMA RunFlow ==
  ASSUME FlowInv, NEW type, NEW res, Work(type, res),
         port' = port \/ port' = <<>>,
         res \in Lock => type = "locate",
         shuttingDown' => type = "die" /\ res = "true"
  PROVE  PacketInv' /\ PhaseInv' /\ TaskInv'
<1>1. /\ wpc = "run" /\ wpc' = "signal" /\ task.type = type
      /\ UNCHANGED <<status, request, answer, replyTo, hpc, cur, todo, handlerRunning, workerRunning,
                     handlerSignal, workerSignal>>
  BY DEF Work, clientVars, handlerVars, signalVars
<1>2. task'.type = type /\ task'.lock = task.lock /\ task'.result = res
  BY DEF Work, FlowInv, TypeInv, TypeOK, Task
<1>3. hpc = "wait" /\ ~handlerSignal /\ ~workerSignal /\ handlerRunning
  BY <1>1 DEF FlowInv, Rendezvous, WorkerBusy, PhaseInv
<1>4. /\ IF request[cur].type \in {"startup", "ignored"}
           THEN todo = <<"log">>
           ELSE /\ request[cur].type # "current_volume"
                /\ todo \in {<<"log", request[cur].type>>, <<request[cur].type>>}
      /\ task.type = Head(todo) /\ task.lock = request[cur].lock
  BY <1>3 DEF FlowInv, TaskInv
<1>5. PacketInv'
  BY <1>1, <1>3, WorkerPackets
<1>6. TaskInv'
  BY <1>1, <1>2, <1>3, <1>4 DEF TaskInv, Done
<1>7. type = "die" => request[cur].type = "die"
  <2> DEFINE r == request[cur].type
  <2>1. \/ todo = <<"log">> \/ todo = <<"log", r>> \/ todo = <<r>>
    BY <1>4
  <2> HIDE DEF r
  <2>2. Head(todo) \in {"log", r}
    BY <2>1
  <2> QED
    BY <1>1, <1>4, <2>2 DEF r
<1>8. PhaseInv'
  BY <1>1, <1>2, <1>3, <1>7 DEF FlowInv, PhaseInv, DieAccepted
<1> QED
  BY <1>5, <1>6, <1>8

LEMMA WorkerFlow == ASSUME FlowInv, Worker PROVE PacketInv' /\ PhaseInv' /\ TaskInv'
<1> USE NamesAssumption
<1>1. CASE WorkerInit
  <2>1. /\ wpc = "init" /\ ((workerRunning' = TRUE /\ wpc' = "wait") \/ (wpc' = "closing" /\ UNCHANGED workerRunning))
        /\ UNCHANGED <<port, status, request, replyTo, hpc, cur, todo, handlerRunning, shuttingDown,
                       handlerSignal, workerSignal, task>>
    BY <1>1 DEF WorkerInit, clientVars, handlerVars, signalVars
  <2>2. hpc = "awaitWorker" /\ ~workerRunning /\ ~shuttingDown
    BY <2>1 DEF FlowInv, PhaseInv
  <2>3. PacketInv'
    BY <2>1, WorkerPackets
  <2>4. PhaseInv' /\ TaskInv'
    BY <2>1, <2>2 DEF FlowInv, PhaseInv, TaskInv, Done
  <2> QED
    BY <2>3, <2>4
<1>2. CASE WorkerWait
  <2>1. /\ wpc = "wait" /\ workerSignal /\ workerSignal' = FALSE /\ wpc' = "run"
        /\ UNCHANGED <<port, status, request, replyTo, hpc, cur, todo, handlerRunning, workerRunning,
                       shuttingDown, handlerSignal, task>>
    BY <1>2 DEF WorkerWait, clientVars, handlerVars
  <2>2. hpc = "wait" /\ ~handlerSignal
    BY <2>1 DEF FlowInv, Rendezvous
  <2>3. PacketInv'
    BY <2>1, WorkerPackets
  <2>4. PhaseInv' /\ TaskInv'
    BY <2>1, <2>2 DEF FlowInv, PhaseInv, TaskInv, Done
  <2> QED
    BY <2>3, <2>4
<1>3. ASSUME wpc = "run"
      PROVE  task.result = "none" /\ ~shuttingDown /\ hpc = "wait"
  BY <1>3 DEF FlowInv, Rendezvous, WorkerBusy, PhaseInv, TaskInv, Done
<1>4. CASE RunLog \/ RunLocate \/ RunFreeLock \/ RunInhibit
  <2>1. ~shuttingDown' /\ port' = port /\ task.result \notin Lock
    BY <1>3, <1>4 DEF RunLog, RunLocate, RunFreeLock, RunInhibit, Finish, Work
  <2>2. PICK type, res : Work(type, res) /\ (res \in Lock => type = "locate")
    BY <1>4, <2>1 DEF RunLog, RunLocate, RunFreeLock, RunInhibit, Finish
  <2> QED
    BY <2>1, <2>2, RunFlow
<1>5. CASE RunDie
  <2>1. /\ Work("die", IF IsShutdownPossible THEN "true" ELSE "in_use")
        /\ shuttingDown' = IsShutdownPossible
    BY <1>5 DEF RunDie
  <2>2. port' = port \/ port' = <<>>
    BY <1>5 DEF RunDie, ShutDown
  <2> QED
    BY <2>1, <2>2, RunFlow
<1>6. CASE WorkerSignals
  <2>1. /\ wpc = "signal" /\ handlerSignal' = TRUE /\ wpc' = (IF shuttingDown THEN "closing" ELSE "wait")
        /\ UNCHANGED <<port, status, request, replyTo, hpc, cur, todo, handlerRunning, workerRunning,
                       shuttingDown, workerSignal, task>>
    BY <1>6 DEF WorkerSignals, WakeHandler, clientVars, handlerVars
  <2>2. hpc = "wait" /\ ~workerSignal /\ workerRunning
    BY <2>1 DEF FlowInv, Rendezvous, WorkerBusy, PhaseInv
  <2>3. PacketInv'
    BY <2>1, WorkerPackets
  <2>4. PhaseInv'
    <3>1. shuttingDown => DieAccepted /\ DieAccepted'
      BY <2>1 DEF FlowInv, PhaseInv, DieAccepted
    <3>2. CASE shuttingDown
      BY <2>1, <2>2, <3>1, <3>2 DEF FlowInv, PhaseInv
    <3>3. CASE ~shuttingDown
      BY <2>1, <2>2, <3>3 DEF FlowInv, PhaseInv
    <3> QED
      BY <3>2, <3>3
  <2>5. TaskInv'
    BY <2>1, <2>2 DEF FlowInv, TaskInv, Done
  <2> QED
    BY <2>3, <2>4, <2>5
<1>7. CASE WorkerEnds
  <2>1. /\ wpc = "closing" /\ wpc' = "ended" /\ workerRunning' = FALSE
        /\ UNCHANGED <<port, status, request, replyTo, hpc, cur, todo, handlerRunning,
                       shuttingDown, handlerSignal, workerSignal, task>>
    BY <1>7 DEF WorkerEnds, clientVars, handlerVars, signalVars
  <2>2. PacketInv'
    BY <2>1, WorkerPackets
  <2>3. PhaseInv'
    BY <2>1 DEF FlowInv, PhaseInv, DieAccepted
  <2>4. TaskInv'
    BY <2>1 DEF FlowInv, TaskInv, Done
  <2> QED
    BY <2>2, <2>3, <2>4
<1> QED
  BY <1>1, <1>2, <1>4, <1>5, <1>6, <1>7 DEF Worker

LEMMA NextFlow == FlowInv /\ [Next]_vars => FlowInv'
<1> SUFFICES ASSUME FlowInv, [Next]_vars PROVE FlowInv'
  OBVIOUS
<1>1. TypeInv' /\ Rendezvous'
  BY NextType, NextRendezvous DEF FlowInv, TypeInv
<1>2. CASE UNCHANGED vars
  <2>1. /\ UNCHANGED <<port, status, request, replyTo, hpc, cur, todo, handlerRunning, workerRunning,
                       shuttingDown, handlerSignal, workerSignal, task>>
        /\ UNCHANGED wpc
    BY <1>2 DEF vars, clientVars, handlerVars, workerVars, signalVars
  <2>2. PacketInv'
    BY <2>1, WorkerPackets
  <2>3. PhaseInv' /\ TaskInv'
    BY <2>1 DEF FlowInv, PhaseInv, DieAccepted, TaskInv, Done
  <2> QED
    BY <1>1, <2>2, <2>3 DEF FlowInv
<1> QED
  BY <1>1, <1>2, ClientsFlow, RestartFlow, HandlerFlow, WorkerFlow DEF Next, FlowInv

THEOREM Flow == Spec => []FlowInv
  BY InitFlow, NextFlow, PTL DEF Spec

(* No packet is answered twice or before it is sent: the swap of dp_Port   *)
(* in returnPacket never meets a packet that was answered already.         *)
THEOREM AnswersAreSingle == Spec => AnsweredOnce
<1>1. FlowInv /\ [Next]_vars =>
        [\A s \in Sender : status'[s] = "answered" /\ status[s] # "answered" => status[s] = "pending"]_vars
  <2> SUFFICES ASSUME FlowInv, Next, NEW s \in Sender,
                      status'[s] = "answered", status[s] # "answered"
               PROVE  status[s] = "pending"
    OBVIOUS
  <2>1. TypeOK /\ InPort \subseteq Sender
    BY DEF FlowInv, TypeInv, TypeOK, InPort
  <2>2. CASE Clients \/ Restart
    BY <2>1, <2>2 DEF Clients, Send, Receive, Restart, TypeOK
  <2>3. ASSUME NEW r \in Sender, NEW res, NEW queue, ReturnPacket(r, res, queue),
               replyTo[r] = "sender" => status[r] = "pending"
        PROVE  status[s] = "pending"
    BY <2>1, <2>3, ReturnPacketFlow DEF TypeOK
  <2>4. CASE Startup
    <3>1. port # <<>> /\ Head(port) \in InPort /\ ReturnPacket(Head(port), "true", Tail(port))
      BY <2>1, <2>4, HeadAndTail DEF Startup
    <3>2. status[Head(port)] = "pending"
      BY <2>4, <3>1 DEF Startup, FlowInv, PacketInv
    <3> QED
      BY <2>1, <2>3, <3>1, <3>2
  <2>5. CASE Reply
    <3>1. cur \in Sender /\ status[cur] = "pending"
      BY <2>5 DEF Reply, FlowInv, TypeInv, PacketInv, Serving
    <3> QED
      BY <2>3, <2>5, <3>1 DEF Reply
  <2>6. CASE LastReply
    <3>1. cur \in Sender /\ (replyTo[cur] = "sender" => status[cur] = "pending")
      BY <2>6 DEF LastReply, FlowInv, TypeInv, PacketInv, Serving
    <3> QED
      BY <2>3, <2>6, <3>1 DEF LastReply
  <2>7. CASE RefuseQueued
    BY <2>1, <2>7 DEF RefuseQueued, FlowInv, PacketInv, InPort
  <2>8. CASE WorkerIsUp \/ GetPacket \/ LeaveLoop \/ SetTask \/ SignalWorker \/ TaskDone
             \/ AcceptDie \/ AwaitWorkerEnd \/ RemoveEntry \/ GiveUpEntry
    BY <2>8 DEF WorkerIsUp, GetPacket, LeaveLoop, SetTask, SignalWorker, TaskDone, AcceptDie,
       AwaitWorkerEnd, RemoveEntry, GiveUpEntry, clientVars
  <2>9. CASE Worker
    BY <2>9 DEF Worker, WorkerInit, WorkerWait, RunLog, RunLocate, RunFreeLock, RunInhibit, RunDie,
       Finish, Work, WorkerSignals, WorkerEnds, clientVars
  <2> QED
    BY <2>2, <2>4, <2>5, <2>6, <2>7, <2>8, <2>9 DEF Next, Handler
<1> QED
  BY <1>1, Flow, PTL DEF Spec, AnsweredOnce

-----------------------------------------------------------------------------
(***************************************************************************)
(* Locks.  A lock is with the program it was given to, or on its way back  *)
(* in a packet that is not served yet, or on its way out in gTask.         *)
(***************************************************************************)
ToFree(s) ==
  IF request[s].type = "free_lock"
     /\ \/ s \in InPort
        \/ s = cur /\ hpc \in {"set", "signal", "wait"} /\ ~(Done /\ task.type = "free_lock")
    THEN {request[s].lock} ELSE {}

ToGrant(s) ==
  IF /\ s = cur /\ request[s].type = "locate" /\ task.type = "locate"
     /\ Done \/ hpc = "reply"
    THEN {task.result} \cap Lock ELSE {}

Uses(s) == Outstanding(s) \cup ToFree(s) \cup ToGrant(s)

Abandoned == platform = "os4" /\ shuttingDown   \* the worker ends under its locks

LocksInv ==
  /\ \A s, t \in Sender : s # t => Uses(s) \cap Uses(t) = {}
  /\ \A s \in Sender : ToFree(s) \cap Outstanding(s) = {}
  /\ ~Abandoned => \A s \in Sender : Uses(s) \subseteq locks
  /\ wpc \in {"none", "init", "closing", "ended"} /\ ~Abandoned => locks = {}
  /\ shuttingDown /\ ~Abandoned => locks = {}
  /\ Abandoned => hpc # "startup"

IInv == FlowInv /\ LocksInv

LEMMA InitLocks == Init => LocksInv
<1> SUFFICES ASSUME Init PROVE LocksInv
  OBVIOUS
<1>1. \A s \in Sender : request[s].type = "startup" /\ held[s] = {} /\ status[s] # "answered"
  BY DEF Init
<1>2. \A s \in Sender : Uses(s) = {}
  BY <1>1 DEF Uses, Outstanding, ToFree, ToGrant
<1>3. \A s \in Sender : ToFree(s) = {}
  BY <1>2 DEF Uses
<1> QED
  BY <1>2, <1>3 DEF Init, LocksInv, Abandoned

(* While no lock is made or freed the three kinds of use only shrink, and  *)
(* a lock on its way out becomes one that its program has.                 *)
Shrinks ==
  \A s \in Sender : /\ Outstanding(s)' \subseteq Outstanding(s) \cup ToGrant(s)
                    /\ ToFree(s)' \subseteq ToFree(s)
                    /\ ToGrant(s)' \subseteq ToGrant(s)

LEMMA Shrunk ==
  ASSUME LocksInv, Shrinks
  PROVE  /\ \A s, t \in Sender : s # t => Uses(s)' \cap Uses(t)' = {}
         /\ \A s \in Sender : ToFree(s)' \cap Outstanding(s)' = {}
         /\ \A s \in Sender : Uses(s)' \subseteq Uses(s)
<1>1. \A s \in Sender : Uses(s)' \subseteq Uses(s)
  BY DEF Shrinks, Uses
<1>2. \A s \in Sender : ToFree(s) # {} => ToGrant(s) = {}
  BY DEF ToFree, ToGrant
<1>3. \A s \in Sender : ToFree(s)' \cap Outstanding(s)' = {}
  BY <1>2 DEF Shrinks, LocksInv
<1> QED
  BY <1>1, <1>3 DEF LocksInv

LEMMA ShrunkLocks ==
  ASSUME LocksInv, Shrinks, UNCHANGED <<locks, wpc, shuttingDown, platform>>,
         hpc' = "startup" => hpc = "startup"
  PROVE  LocksInv'
<1>1. Abandoned' = Abandoned
  BY DEF Abandoned
<1>2. /\ \A s, t \in Sender : s # t => Uses(s)' \cap Uses(t)' = {}
      /\ \A s \in Sender : ToFree(s)' \cap Outstanding(s)' = {}
      /\ \A s \in Sender : Uses(s)' \subseteq Uses(s)
  BY Shrunk
<1> QED
  BY <1>1, <1>2 DEF LocksInv

LEMMA ClientsLocks == ASSUME IInv, Clients PROVE LocksInv'
<1>1. TypeOK /\ InPort \subseteq Sender
  BY DEF IInv, FlowInv, TypeInv, TypeOK, InPort
<1>2. ASSUME NEW c \in Client, NEW r \in Request \ {"startup"}, NEW l \in Lock \cup {Nothing},
             Send(c, r, l)
      PROVE  LocksInv'
  <2>1. c \in Sender /\ c # Dos /\ status[c] = "idle"
    BY <1>2, NamesAssumption DEF Send, Sender
  <2>2. /\ UNCHANGED <<answer, hpc, cur, todo, handlerRunning, wpc, workerRunning, shuttingDown, locks,
                       handlerSignal, workerSignal, task, platform>>
        /\ status' = [status EXCEPT ![c] = "pending"]
        /\ request' = [request EXCEPT ![c] = [type |-> r, lock |-> l]]
        /\ held' = [held EXCEPT ![c] = @ \ {l}]
        /\ IF r = "free_lock" THEN l \in held[c] ELSE l = Nothing
        /\ port' = port \/ port' = Append(port, c)
    BY <1>2 DEF Send, handlerVars, workerVars, signalVars, dosVars
  <2>3. InPort' \subseteq InPort \cup {c}
    BY <1>1, <2>1, <2>2, Queued DEF InPort
  <2>4. c # cur \/ hpc \notin {"set", "signal", "wait", "reply"}
    BY <2>1 DEF IInv, FlowInv, PacketInv, Serving
  <2>5. Done' = Done /\ (Done => hpc = "wait")
    BY <2>2 DEF Done
  <2>6. ASSUME NEW s \in Sender, s # c
        PROVE  /\ Outstanding(s)' = Outstanding(s) /\ ToFree(s)' \subseteq ToFree(s)
               /\ ToGrant(s)' = ToGrant(s)
    <3>1. request'[s] = request[s] /\ status'[s] = status[s] /\ held'[s] = held[s] /\ answer'[s] = answer[s]
      BY <1>1, <2>2, <2>6 DEF TypeOK
    <3>2. s \in InPort' => s \in InPort
      BY <2>3, <2>6
    <3> QED
      BY <2>2, <2>5, <3>1, <3>2 DEF Outstanding, ToFree, ToGrant
  <2>7. /\ held'[c] = held[c] \ {l} /\ status'[c] = "pending"
        /\ request'[c] = [type |-> r, lock |-> l]
    BY <1>1, <2>1, <2>2 DEF TypeOK
  <2>8. Outstanding(c) = held[c] /\ Outstanding(c)' = held[c] \ {l}
    BY <2>1, <2>7 DEF Outstanding
  <2>9. ToGrant(c)' = {}
    BY <2>2, <2>4, <2>5 DEF ToGrant
  <2>10. ToFree(c)' \subseteq {l} \cap held[c]
    BY <2>2, <2>7 DEF ToFree
  <2>11. \A s \in Sender : Uses(s)' \subseteq Uses(s)
    BY <2>6, <2>8, <2>9, <2>10 DEF Uses
  <2>12. \A s \in Sender : ToFree(s)' \cap Outstanding(s)' = {}
    BY <2>6, <2>8, <2>10 DEF IInv, LocksInv
  <2> QED
    BY <2>2, <2>11, <2>12 DEF IInv, LocksInv, Abandoned
<1>3. ASSUME NEW r \in Sender, Receive(r) PROVE LocksInv'
  <2>1. /\ UNCHANGED <<port, request, answer, hpc, cur, todo, handlerRunning, wpc, workerRunning,
                       shuttingDown, locks, handlerSignal, workerSignal, task, platform>>
        /\ status[r] = "answered" /\ status' = [status EXCEPT ![r] = "idle"]
        /\ held' = [held EXCEPT ![r] = @ \cup ({answer[r]} \cap Lock)]
    BY <1>3 DEF Receive, handlerVars, workerVars, signalVars, dosVars
  <2>2. \A s \in Sender : Outstanding(s)' = Outstanding(s)
    BY <1>1, <2>1 DEF TypeOK, Outstanding
  <2>3. \A s \in Sender : ToFree(s)' = ToFree(s) /\ ToGrant(s)' = ToGrant(s)
    BY <2>1 DEF ToFree, ToGrant, Done, InPort
  <2> QED
    BY <2>1, <2>2, <2>3, ShrunkLocks DEF IInv, Shrinks
<1> QED
  BY <1>2, <1>3 DEF Clients

LEMMA RestartLocks == ASSUME IInv, Restart PROVE LocksInv'
<1>1. /\ hpc = "gone" /\ port' = <<Dos>> /\ hpc' = "startup" /\ cur' = Nothing /\ starts < MaxStarts
      /\ status' = [status EXCEPT ![Dos] = "pending"]
      /\ UNCHANGED <<request, answer, held, wpc, shuttingDown, locks, task, platform>>
  BY DEF Restart, workerVars
<1>2. TypeOK /\ Dos \in Sender /\ request[Dos].type = "startup"
  BY DEF IInv, FlowInv, TypeInv, PacketInv, Sender
<1>3. InPort' = {Dos}
  BY <1>1 DEF InPort
<1>4. \A s \in Sender : ToFree(s)' = {} /\ ToGrant(s)' = {}
  BY <1>1, <1>2, <1>3 DEF ToFree, ToGrant, Done
<1>5. \A s \in Sender : Outstanding(s)' \subseteq Outstanding(s)
  BY <1>1, <1>2 DEF Outstanding, TypeOK
<1>6. Shrinks
  BY <1>4, <1>5 DEF Shrinks
<1>7. platform # "os4"
  BY <1>1, <1>2, PlatformAssumption, BoundsAssumption DEF TypeOK
<1>8. Abandoned' = Abandoned /\ ~Abandoned
  BY <1>1, <1>7 DEF Abandoned
<1> QED
  BY <1>1, <1>6, <1>8, Shrunk DEF IInv, LocksInv

LEMMA HandlerLocks == ASSUME IInv, Handler, PacketInv' PROVE LocksInv'
<1>1. TypeOK /\ InPort \subseteq Sender
  BY DEF IInv, FlowInv, TypeInv, TypeOK, InPort
<1>2. CASE Startup
  <2>1. /\ hpc = "startup" /\ port # <<>> /\ Head(port) = Dos /\ cur' = Dos /\ Dos \in Sender
        /\ request[Dos].type = "startup" /\ hpc' \in {"awaitWorker", "loop"}
        /\ UNCHANGED <<request, held, locks, task, platform>>
    BY <1>2 DEF Startup, IInv, FlowInv, PacketInv, Sender
  <2>2. Dos \in InPort /\ replyTo[Dos] = "sender"
    BY <1>1, <2>1, HeadAndTail DEF IInv, FlowInv, PacketInv
  <2>3. /\ status' = [status EXCEPT ![Dos] = "answered"] /\ answer' = [answer EXCEPT ![Dos] = "true"]
        /\ port' = Tail(port)
    BY <1>1, <1>2, <2>1, <2>2, ReturnPacketFlow DEF Startup
  <2>4. InPort' \subseteq InPort
    BY <1>1, <2>1, <2>3, HeadAndTail DEF InPort
  <2>5. \A s \in Sender : ToFree(s)' \subseteq ToFree(s) /\ ToGrant(s)' = {}
    BY <2>1, <2>4 DEF ToFree, ToGrant, Done
  <2>6. \A s \in Sender : Outstanding(s)' \subseteq Outstanding(s)
    BY <1>1, <2>1, <2>3, NamesAssumption DEF Outstanding, TypeOK
  <2>7. Shrinks
    BY <2>5, <2>6 DEF Shrinks
  <2>8. ~Abandoned /\ wpc \in {"none", "ended"} /\ locks = {}
    <3>1. ~Abandoned
      BY <2>1 DEF IInv, LocksInv
    <3>2. wpc \in {"none", "ended"}
      BY <1>1, <2>1 DEF IInv, FlowInv, PhaseInv, Rendezvous, WorkerBusy, TypeOK
    <3> QED
      BY <3>1, <3>2 DEF IInv, LocksInv
  <2>9. /\ \A s, t \in Sender : s # t => Uses(s)' \cap Uses(t)' = {}
        /\ \A s \in Sender : ToFree(s)' \cap Outstanding(s)' = {}
        /\ \A s \in Sender : Uses(s)' \subseteq {}
    BY <2>7, <2>8, Shrunk DEF IInv, LocksInv
  <2>10. hpc' # "startup"
    BY <2>1
  <2> QED
    BY <2>1, <2>8, <2>9, <2>10 DEF LocksInv
<1>3. CASE GetPacket
  <2>1. /\ hpc = "loop" /\ port # <<>> /\ cur' = Head(port) /\ port' = Tail(port) /\ hpc' \in {"set", "reply"}
        /\ UNCHANGED <<status, request, answer, held, wpc, shuttingDown, locks, task, platform>>
        /\ todo' = TasksOf(request[cur'].type) /\ (hpc' = "reply" => todo' = <<>>)
    BY <1>3 DEF GetPacket, clientVars, workerVars, signalVars, dosVars
  <2>2. cur' \in InPort /\ InPort' \subseteq InPort
    BY <1>1, <2>1, HeadAndTail DEF InPort
  <2>3. hpc' = "reply" => request[cur'].type # "locate"
    BY <2>1 DEF TasksOf
  <2>4. Shrinks
    BY <2>1, <2>2, <2>3 DEF Shrinks, Outstanding, ToFree, ToGrant, Done
  <2> QED
    BY <2>1, <2>4, ShrunkLocks DEF IInv
<1>4. CASE SetTask
  <2>1. /\ hpc = "set" /\ hpc' = "signal"
        /\ UNCHANGED <<port, status, request, answer, held, cur, wpc, shuttingDown, locks, platform>>
    BY <1>4 DEF SetTask, clientVars, workerVars, signalVars, dosVars
  <2>2. Shrinks
    BY <2>1 DEF Shrinks, Outstanding, ToFree, ToGrant, Done, InPort
  <2> QED
    BY <2>1, <2>2, ShrunkLocks DEF IInv
<1>5. CASE SignalWorker
  <2>1. /\ hpc = "signal" /\ hpc' = "wait"
        /\ UNCHANGED <<port, status, request, answer, held, cur, wpc, shuttingDown, locks, platform,
                       handlerSignal, task>>
    BY <1>5 DEF SignalWorker, clientVars, workerVars, signalVars, dosVars
  <2>2. wpc # "signal" /\ ~handlerSignal
    BY <2>1 DEF IInv, FlowInv, Rendezvous, WorkerBusy
  <2>3. Shrinks
    BY <2>1, <2>2 DEF Shrinks, Outstanding, ToFree, ToGrant, Done, InPort
  <2> QED
    BY <2>1, <2>3, ShrunkLocks DEF IInv
<1>6. CASE TaskDone
  <2>1. /\ hpc = "wait" /\ handlerSignal /\ todo' = Tail(todo)
        /\ hpc' = IF todo' # <<>> THEN "set" ELSE IF request[cur].type = "startup" THEN "loop" ELSE "reply"
        /\ UNCHANGED <<port, status, request, answer, held, cur, wpc, shuttingDown, locks, platform, task>>
    BY <1>6 DEF TaskDone, HandlerWait, clientVars, workerVars, dosVars
  <2>2. Done
    BY <2>1 DEF Done
  <2>3. request[cur].type = "free_lock" /\ hpc' = "set" => task.type # "free_lock"
    <3> DEFINE r == request[cur].type
    <3>1. /\ task.type = Head(todo)
          /\ r = "free_lock" => todo \in {<<"log", r>>, <<r>>}
      BY <2>1 DEF IInv, FlowInv, TaskInv
    <3> HIDE DEF r
    <3>2. ASSUME r = "free_lock", hpc' = "set" PROVE Head(todo) = "log"
      <4>1. todo' # <<>>
        <5>1. todo' = <<>> => hpc' \in {"loop", "reply"}
          BY <2>1
        <5> QED
          BY <3>2, <5>1
      <4>2. CASE todo = <<"log", r>>
        BY <4>2
      <4>3. CASE todo = <<r>>
        BY <2>1, <4>1, <4>3
      <4> QED
        BY <3>1, <3>2, <4>2, <4>3
    <3> QED
      BY <3>1, <3>2 DEF r
  <2>4. \A s \in Sender : ToFree(s)' \subseteq ToFree(s)
    BY <2>1, <2>2, <2>3 DEF ToFree, Done, InPort
  <2>5. \A s \in Sender : ToGrant(s)' \subseteq ToGrant(s)
    BY <2>1, <2>2 DEF ToGrant, Done
  <2>6. \A s \in Sender : Outstanding(s)' = Outstanding(s)
    BY <2>1 DEF Outstanding
  <2>7. Shrinks
    BY <2>4, <2>5, <2>6 DEF Shrinks
  <2> QED
    BY <2>1, <2>7, ShrunkLocks DEF IInv
<1>7. CASE Reply
  <2>1. /\ hpc = "reply" /\ hpc' = "loop" /\ ReturnPacket(cur, AnswerOf(cur), port)
        /\ UNCHANGED <<request, held, cur, wpc, shuttingDown, locks, task, platform>>
    BY <1>7 DEF Reply, workerVars, signalVars, dosVars
  <2>2. cur \in Sender /\ status[cur] = "pending" /\ replyTo[cur] = "sender"
    BY <2>1 DEF IInv, FlowInv, TypeInv, PacketInv, Serving
  <2>3. /\ status' = [status EXCEPT ![cur] = "answered"] /\ port' = port
        /\ answer' = [answer EXCEPT ![cur] = AnswerOf(cur)]
    BY <1>1, <2>1, <2>2, ReturnPacketFlow
  <2>4. {AnswerOf(cur)} \cap Lock \subseteq ToGrant(cur)
    <3>1. CASE request[cur].type = "locate"
      <4>1. task.type = "locate" /\ AnswerOf(cur) = task.result
        BY <2>1, <3>1 DEF IInv, FlowInv, TaskInv, AnswerOf
      <4> QED
        BY <2>1, <3>1, <4>1 DEF ToGrant
    <3>2. CASE request[cur].type # "locate"
      BY <2>1, <3>2, NamesAssumption DEF IInv, FlowInv, TaskInv, AnswerOf
    <3> QED
      BY <3>1, <3>2
  <2>5. ASSUME NEW s \in Sender, s = cur PROVE Outstanding(s)' \subseteq Outstanding(s) \cup ToGrant(s)
    <3>1. held'[s] = held[s] /\ answer'[s] = AnswerOf(cur) /\ status[s] = "pending"
      BY <1>1, <2>1, <2>2, <2>3, <2>5 DEF TypeOK
    <3>2. Outstanding(s)' \subseteq held[s] \cup ({AnswerOf(cur)} \cap Lock)
      BY <3>1 DEF Outstanding
    <3> QED
      BY <2>4, <2>5, <3>1, <3>2 DEF Outstanding
  <2>6. \A s \in Sender : s # cur => Outstanding(s)' = Outstanding(s)
    BY <1>1, <2>1, <2>3 DEF Outstanding, TypeOK
  <2>7. \A s \in Sender : ToFree(s)' \subseteq ToFree(s) /\ ToGrant(s)' = {}
    BY <2>1, <2>3 DEF ToFree, ToGrant, Done, InPort
  <2>8. Shrinks
    <3>1. \A s \in Sender : Outstanding(s)' \subseteq Outstanding(s) \cup ToGrant(s)
      <4> SUFFICES ASSUME NEW s \in Sender
                   PROVE  Outstanding(s)' \subseteq Outstanding(s) \cup ToGrant(s)
        OBVIOUS
      <4>1. CASE s = cur
        BY <2>5, <4>1
      <4>2. CASE s # cur
        BY <2>6, <4>2
      <4> QED
        BY <4>1, <4>2
    <3> QED
      BY <2>7, <3>1 DEF Shrinks
  <2> QED
    BY <2>1, <2>8, ShrunkLocks DEF IInv
<1>8. CASE RefuseQueued
  <2>1. /\ hpc = "removing" /\ port' = <<>>
        /\ status' = [s \in Sender |-> IF s \in InPort THEN "answered" ELSE status[s]]
        /\ answer' = [s \in Sender |-> IF s \in InPort THEN "false" ELSE answer[s]]
        /\ UNCHANGED <<request, held, hpc, cur, wpc, shuttingDown, locks, task, platform>>
    BY <1>8 DEF RefuseQueued, InPort, handlerVars, workerVars, signalVars, dosVars
  <2>2. InPort' = {}
    BY <2>1 DEF InPort
  <2>3. Shrinks
    BY <1>1, <2>1, <2>2, NamesAssumption DEF Shrinks, Outstanding, ToFree, ToGrant, Done
  <2> QED
    BY <2>1, <2>3, ShrunkLocks DEF IInv
<1>9. CASE LastReply
  <2>1. /\ hpc = "lastReply" /\ hpc' = "gone" /\ ReturnPacket(cur, "true", port)
        /\ UNCHANGED <<request, held, cur, wpc, shuttingDown, locks, task, platform>>
    BY <1>9 DEF LastReply, workerVars, signalVars, dosVars
  <2>2. cur \in Sender /\ (cur # Dos => replyTo[cur] = "sender") /\ request[Dos].type = "startup"
    BY <2>1 DEF IInv, FlowInv, TypeInv, PacketInv, Serving
  <2>3. \A s \in Sender : ToFree(s)' \subseteq ToFree(s)
    <3>1. CASE replyTo[cur] = "sender"
      <4>1. port' = port
        BY <1>1, <2>1, <2>2, <3>1, ReturnPacketFlow
      <4> QED
        BY <2>1, <4>1 DEF ToFree, InPort, Done
    <3>2. CASE replyTo[cur] # "sender"
      <4>1. port' = Append(port, cur) /\ cur = Dos
        BY <1>1, <2>1, <2>2, <3>2, ReturnPacketFlow
      <4>2. InPort' = InPort \cup {Dos}
        BY <1>1, <2>2, <4>1, Queued
      <4> QED
        BY <2>1, <2>2, <4>2 DEF ToFree
    <3> QED
      BY <3>1, <3>2
  <2>4. \A s \in Sender : ToGrant(s)' = {}
    BY <2>1 DEF ToGrant, Done
  <2>5. \A s \in Sender : Outstanding(s)' \subseteq Outstanding(s)
    <3>1. \/ UNCHANGED <<status, answer>>
          \/ /\ status' = [status EXCEPT ![cur] = "answered"]
             /\ answer' = [answer EXCEPT ![cur] = "true"]
      BY <1>1, <2>1, <2>2, ReturnPacketFlow
    <3> QED
      BY <1>1, <2>1, <3>1, NamesAssumption DEF Outstanding, TypeOK
  <2>6. Shrinks
    BY <2>3, <2>4, <2>5 DEF Shrinks
  <2> QED
    BY <2>1, <2>6, ShrunkLocks DEF IInv
<1>10. CASE WorkerIsUp \/ LeaveLoop \/ AcceptDie \/ AwaitWorkerEnd \/ RemoveEntry \/ GiveUpEntry
  <2>1. /\ UNCHANGED <<port, status, request, answer, held, cur, wpc, shuttingDown, locks, platform,
                       handlerSignal, task>>
        /\ hpc \notin {"wait", "startup"} /\ hpc' \notin {"wait", "startup", "reply"}
        /\ hpc' \in {"set", "signal"} => hpc = "awaitWorker"
    BY <1>10 DEF WorkerIsUp, LeaveLoop, AcceptDie, AwaitWorkerEnd, RemoveEntry, GiveUpEntry,
       clientVars, workerVars, signalVars, dosVars
  <2>2. hpc = "awaitWorker" => request[cur].type = "startup"
    BY DEF IInv, FlowInv, PacketInv
  <2>3. Shrinks
    BY <2>1, <2>2 DEF Shrinks, Outstanding, ToFree, ToGrant, Done, InPort
  <2> QED
    BY <2>1, <2>3, ShrunkLocks DEF IInv
<1> QED
  BY <1>2, <1>3, <1>4, <1>5, <1>6, <1>7, <1>8, <1>9, <1>10 DEF Handler

LEMMA WorkerLocks == ASSUME IInv, Worker PROVE LocksInv'
<1>1. TypeOK /\ InPort \subseteq Sender
  BY DEF IInv, FlowInv, TypeInv, TypeOK, InPort
<1>2. CASE WorkerInit
  <2>1. /\ wpc = "init" /\ wpc' \in {"wait", "closing"}
        /\ UNCHANGED <<port, status, request, answer, held, hpc, cur, shuttingDown, locks, platform,
                       handlerSignal, task>>
    BY <1>2 DEF WorkerInit, clientVars, handlerVars, signalVars, dosVars
  <2>2. Shrinks
    BY <2>1 DEF Shrinks, Outstanding, ToFree, ToGrant, Done, InPort
  <2> QED
    BY <2>1, <2>2, Shrunk DEF IInv, LocksInv, Abandoned
<1>3. CASE WorkerWait
  <2>1. /\ wpc = "wait" /\ wpc' = "run"
        /\ UNCHANGED <<port, status, request, answer, held, hpc, cur, shuttingDown, locks, platform,
                       handlerSignal, task>>
    BY <1>3 DEF WorkerWait, clientVars, handlerVars, dosVars
  <2>2. Shrinks
    BY <2>1 DEF Shrinks, Outstanding, ToFree, ToGrant, Done, InPort
  <2> QED
    BY <2>1, <2>2, Shrunk DEF IInv, LocksInv, Abandoned
<1>4. ASSUME wpc = "run"
      PROVE  /\ hpc = "wait" /\ ~handlerSignal /\ ~Done /\ ~shuttingDown /\ ~Abandoned
             /\ task.result = "none" /\ task.lock = request[cur].lock /\ cur \in Sender
             /\ task.type \in {"log", request[cur].type}
  <2>1. hpc = "wait" /\ ~handlerSignal /\ ~shuttingDown /\ cur \in Sender
    BY <1>4 DEF IInv, FlowInv, Rendezvous, WorkerBusy, PhaseInv, TypeInv
  <2>2. ~Done /\ task.result = "none" /\ task.lock = request[cur].lock /\ task.type = Head(todo)
    BY <1>4, <2>1 DEF IInv, FlowInv, TaskInv, Done
  <2>3. Head(todo) \in {"log", request[cur].type}
    <3> DEFINE r == request[cur].type
    <3>1. todo \in {<<"log">>, <<"log", r>>, <<r>>}
      BY <2>1 DEF IInv, FlowInv, TaskInv
    <3> HIDE DEF r
    <3>2. Head(todo) \in {"log", r}
      BY <3>1
    <3> QED
      BY <3>2 DEF r
  <2> QED
    BY <2>1, <2>2, <2>3 DEF Abandoned
<1>5. ASSUME NEW type, NEW res, Work(type, res), port' = port \/ port' = <<>>, platform' = platform
      PROVE  /\ wpc = "run" /\ wpc' = "signal" /\ task.type = type /\ task'.type = type /\ task'.result = res
             /\ Done' /\ hpc' = "wait" /\ InPort' \subseteq InPort
             /\ UNCHANGED <<status, request, answer, held, hpc, cur>>
             /\ \A s \in Sender : Outstanding(s)' = Outstanding(s)
             /\ \A s \in Sender : ToFree(s)' \subseteq ToFree(s)
             /\ \A s \in Sender : ToGrant(s)' \subseteq IF s = cur /\ type = "locate" THEN {res} \cap Lock ELSE {}
  <2>1. /\ wpc = "run" /\ wpc' = "signal" /\ task.type = type
        /\ UNCHANGED <<status, request, answer, held, hpc, cur>>
        /\ task'.type = type /\ task'.result = res
    BY <1>1, <1>5 DEF Work, clientVars, handlerVars, TypeOK, Task
  <2>2. hpc = "wait" /\ ~Done /\ Done' /\ hpc' = "wait"
    BY <1>4, <2>1 DEF Done
  <2>3. InPort' \subseteq InPort
    BY <1>5 DEF InPort
  <2>4. \A s \in Sender : Outstanding(s)' = Outstanding(s)
    BY <2>1 DEF Outstanding
  <2>5. \A s \in Sender : ToFree(s)' \subseteq ToFree(s)
    BY <2>1, <2>2, <2>3 DEF ToFree
  <2>6. \A s \in Sender : ToGrant(s)' \subseteq IF s = cur /\ type = "locate" THEN {res} \cap Lock ELSE {}
    BY <2>1 DEF ToGrant
  <2> QED
    BY <2>1, <2>2, <2>3, <2>4, <2>5, <2>6
<1>6. ASSUME NEW type, NEW res, Work(type, res), port' = port \/ port' = <<>>, platform' = platform,
             res \notin Lock, locks' = locks, shuttingDown' => platform = "os4" \/ locks = {}
      PROVE  LocksInv'
  <2>1. ~Abandoned /\ wpc = "run" /\ wpc' = "signal" /\ hpc' = "wait"
    BY <1>4, <1>5, <1>6
  <2>2. Shrinks
    BY <1>5, <1>6 DEF Shrinks
  <2>3. Abandoned' => hpc' # "startup"
    BY <2>1
  <2>4. shuttingDown' /\ ~Abandoned' => locks' = {}
    BY <1>6 DEF Abandoned
  <2> QED
    BY <1>6, <2>1, <2>2, <2>3, <2>4, Shrunk DEF IInv, LocksInv
<1>7. CASE RunLog \/ RunInhibit
  <2>1. /\ wpc = "run" /\ UNCHANGED <<locks, shuttingDown, port, platform>>
        /\ \E type, res : Work(type, res) /\ res \in {task.result, "true", "false"}
    BY <1>7 DEF RunLog, RunInhibit, Finish, Work, dosVars
  <2>2. {task.result, "true", "false"} \cap Lock = {} /\ ~shuttingDown
    BY <1>4, <2>1, NamesAssumption
  <2> QED
    BY <1>6, <2>1, <2>2
<1>8. CASE RunDie
  <2>1. /\ Work("die", IF IsShutdownPossible THEN "true" ELSE "in_use")
        /\ shuttingDown' = IsShutdownPossible
        /\ UNCHANGED <<locks, platform>>
        /\ port' = port \/ port' = <<>>
    BY <1>8 DEF RunDie, ShutDown
  <2>2. IsShutdownPossible => platform = "os4" \/ locks = {}
    BY DEF IsShutdownPossible, ShutdownChecksLocks
  <2> QED
    BY <1>6, <2>1, <2>2, NamesAssumption
<1>9. CASE RunLocate
  <2>1. CASE Finish("locate", task.result) /\ UNCHANGED <<locks, shuttingDown>>
    <3>1. wpc = "run" /\ Work("locate", task.result) /\ UNCHANGED <<port, platform>>
      BY <2>1 DEF Finish, Work, dosVars
    <3>2. task.result \notin Lock /\ ~shuttingDown
      BY <1>4, <3>1, NamesAssumption
    <3> QED
      BY <1>6, <2>1, <3>1, <3>2
  <2>2. ASSUME NEW l \in Lock \ locks, Finish("locate", l), locks' = locks \cup {l}, UNCHANGED shuttingDown
        PROVE  LocksInv'
    <3>1. Work("locate", l) /\ UNCHANGED <<port, platform>>
      BY <2>2 DEF Finish, dosVars
    <3>2. /\ wpc = "run" /\ wpc' = "signal" /\ hpc' = "wait"
          /\ \A s \in Sender : Outstanding(s)' = Outstanding(s) /\ ToFree(s)' \subseteq ToFree(s)
                                 /\ ToGrant(s)' \subseteq IF s = cur THEN {l} ELSE {}
      BY <1>5, <3>1
    <3>3. ~Abandoned /\ ~shuttingDown /\ ~Abandoned' /\ ~shuttingDown'
      BY <1>4, <2>2, <3>1, <3>2 DEF Abandoned
    <3>4. \A s \in Sender : Uses(s)' \subseteq Uses(s) \cup (IF s = cur THEN {l} ELSE {})
      BY <3>2 DEF Uses
    <3>5. \A s \in Sender : l \notin Uses(s) /\ Uses(s) \subseteq locks
      BY <3>3 DEF IInv, LocksInv
    <3>6. \A s, t \in Sender : s # t => Uses(s)' \cap Uses(t)' = {}
      BY <3>4, <3>5 DEF IInv, LocksInv
    <3>7. \A s \in Sender : ToFree(s)' \cap Outstanding(s)' = {}
      BY <3>2 DEF IInv, LocksInv
    <3>8. \A s \in Sender : Uses(s)' \subseteq locks'
      BY <2>2, <3>4, <3>5
    <3> QED
      BY <3>2, <3>3, <3>6, <3>7, <3>8 DEF LocksInv
  <2> QED
    BY <1>9, <2>1, <2>2 DEF RunLocate
<1>10. CASE RunFreeLock
  <2>1. /\ Work("free_lock", task.result) /\ UNCHANGED <<port, platform, shuttingDown>>
        /\ locks' = locks \ {task.lock}
    BY <1>10 DEF RunFreeLock, Finish, dosVars
  <2>2. /\ wpc = "run" /\ wpc' = "signal" /\ task.type = "free_lock" /\ task'.type = "free_lock"
        /\ Done' /\ hpc' = "wait" /\ UNCHANGED <<request, cur, hpc>>
        /\ \A s \in Sender : Outstanding(s)' = Outstanding(s) /\ ToFree(s)' \subseteq ToFree(s)
        /\ \A s \in Sender : ToGrant(s)' = {}
    BY <1>5, <2>1
  <2>3. /\ ~Abandoned /\ ~shuttingDown /\ ~Abandoned' /\ ~shuttingDown'
        /\ hpc = "wait" /\ ~Done /\ request[cur].type = "free_lock" /\ task.lock = request[cur].lock
        /\ cur \in Sender
    BY <1>4, <2>1, <2>2 DEF Abandoned
  <2>4. \A s \in Sender : s = cur => ToFree(s) = {task.lock}
    BY <2>3 DEF ToFree
  <2>5. \A s \in Sender : s = cur => ToFree(s)' = {}
    <3>1. cur # Dos
      BY <2>3 DEF IInv, FlowInv, PacketInv
    <3>2. cur \notin InPort /\ InPort' = InPort
      BY <2>1, <2>3, <3>1 DEF IInv, FlowInv, PacketInv, Serving, InPort
    <3> QED
      BY <2>2, <2>3, <3>2 DEF ToFree
  <2>6. Shrinks
    BY <2>2 DEF Shrinks
  <2>7. \A s \in Sender : task.lock \notin Uses(s)'
    <3> SUFFICES ASSUME NEW s \in Sender PROVE task.lock \notin Uses(s)'
      OBVIOUS
    <3>1. CASE s = cur
      <4>1. ToFree(s) \cap Outstanding(s) = {} /\ Outstanding(s)' = Outstanding(s) /\ ToGrant(s)' = {}
        BY <2>2, <2>3 DEF IInv, LocksInv
      <4>2. ToFree(s) = {task.lock} /\ ToFree(s)' = {}
        BY <2>4, <2>5, <3>1
      <4> QED
        BY <4>1, <4>2 DEF Uses
    <3>2. CASE s # cur
      <4>1. task.lock \in Uses(cur)
        BY <2>3, <2>4 DEF Uses
      <4>2. task.lock \notin Uses(s)
        BY <2>3, <3>2, <4>1 DEF IInv, LocksInv
      <4> QED
        BY <2>6, <4>2, Shrunk DEF IInv
    <3> QED
      BY <3>1, <3>2
  <2>8. \A s \in Sender : Uses(s)' \subseteq locks'
    <3>1. \A s \in Sender : Uses(s)' \subseteq Uses(s) /\ Uses(s) \subseteq locks
      BY <2>3, <2>6, Shrunk DEF IInv, LocksInv
    <3> QED
      BY <2>1, <2>7, <3>1
  <2> QED
    BY <2>2, <2>3, <2>6, <2>8, Shrunk DEF IInv, LocksInv
<1>11. CASE WorkerSignals
  <2>1. /\ wpc = "signal" /\ wpc' = (IF shuttingDown THEN "closing" ELSE "wait") /\ handlerSignal' = TRUE
        /\ UNCHANGED <<port, status, request, answer, held, hpc, cur, shuttingDown, locks, platform, task>>
    BY <1>11 DEF WorkerSignals, WakeHandler, clientVars, handlerVars, dosVars
  <2>2. hpc = "wait" /\ Done /\ Done'
    BY <2>1 DEF IInv, FlowInv, Rendezvous, WorkerBusy, Done
  <2>3. Shrinks
    BY <2>1, <2>2 DEF Shrinks, Outstanding, ToFree, ToGrant, InPort
  <2> QED
    BY <2>1, <2>3, Shrunk DEF IInv, LocksInv, Abandoned
<1>12. CASE WorkerEnds
  <2>1. /\ wpc = "closing" /\ wpc' = "ended" /\ locks' = {}
        /\ UNCHANGED <<port, status, request, answer, held, hpc, cur, shuttingDown, platform, handlerSignal, task>>
    BY <1>12 DEF WorkerEnds, clientVars, handlerVars, signalVars, dosVars
  <2>2. Shrinks
    BY <2>1 DEF Shrinks, Outstanding, ToFree, ToGrant, Done, InPort
  <2>3. ~Abandoned => locks = {}
    BY <2>1 DEF IInv, LocksInv
  <2> QED
    BY <2>1, <2>2, <2>3, Shrunk DEF IInv, LocksInv, Abandoned
<1> QED
  BY <1>2, <1>3, <1>7, <1>8, <1>9, <1>10, <1>11, <1>12 DEF Worker

LEMMA NextLocks == IInv /\ [Next]_vars => IInv'
<1> SUFFICES ASSUME IInv, [Next]_vars PROVE IInv'
  OBVIOUS
<1>1. FlowInv'
  BY NextFlow DEF IInv
<1>2. CASE UNCHANGED vars
  <2>1. /\ UNCHANGED <<port, status, request, answer, held, hpc, cur, task, handlerSignal>>
        /\ UNCHANGED <<wpc, shuttingDown, locks, platform>>
    BY <1>2 DEF vars, clientVars, handlerVars, workerVars, signalVars, dosVars
  <2>2. Shrinks
    BY <2>1 DEF Shrinks, Outstanding, ToFree, ToGrant, Done, InPort
  <2> QED
    BY <1>1, <2>1, <2>2, ShrunkLocks DEF IInv
<1> QED
  BY <1>1, <1>2, ClientsLocks, RestartLocks, HandlerLocks, WorkerLocks DEF Next, IInv, FlowInv

THEOREM Invariant == Spec => []IInv
<1>1. Init => IInv
  BY InitFlow, InitLocks DEF IInv
<1> QED
  BY <1>1, NextLocks, PTL DEF Spec

(* No two programs can name the same lock, on either platform: no answer   *)
(* carries the lock of another packet's task (sTask::set, returnPacket).   *)
THEOREM OwnersAreApart == Spec => []LocksHaveOneOwner
<1>1. IInv => LocksHaveOneOwner
  BY DEF IInv, LocksInv, LocksHaveOneOwner, Uses
<1> QED
  BY Invariant, <1>1, PTL

(* Where ACTION_DIE asks for the lock count, no program has a lock that    *)
(* the worker does not count, across any number of restarts.               *)
THEOREM CountIsTrue == Platforms = {"os3"} => (Spec => []LocksAreCounted)
<1>1. IInv /\ Platforms = {"os3"} => LocksAreCounted
  <2> SUFFICES ASSUME IInv, Platforms = {"os3"} PROVE LocksAreCounted
    OBVIOUS
  <2>1. ~Abandoned
    BY DEF IInv, FlowInv, TypeInv, TypeOK, Abandoned
  <2> QED
    BY <2>1 DEF IInv, LocksInv, LocksAreCounted, Uses
<1>2. CASE Platforms = {"os3"}
  BY Invariant, <1>1, <1>2, PTL
<1> QED
  BY <1>2

-----------------------------------------------------------------------------
(***************************************************************************)
(* TaskExchange implements PacketService, where the handler does not end   *)
(* under locks (all builds but the one for AmigaOS 4).                     *)
(***************************************************************************)


(* What the worker has done for the packet that is served still holds when *)
(* the packet is answered; the packet answered last is an ACTION_DIE.      *)
Worked(type) ==
  (Done \/ hpc = "reply") /\ task.type = type /\ request[cur].type = type

ResultInv ==
  /\ Worked("locate") => task.result \in Lock \cup {"none"}
  /\ Worked("free_lock") => task.lock \notin locks
  /\ Worked("inhibit") => task.result = IF locks = {} THEN "true" ELSE "false"
  /\ Worked("die") => task.result = IF locks = {} THEN "true" ELSE "in_use"
  /\ hpc \in {"loop", "closing", "removing", "lastReply"} /\ ~handlerRunning /\ cur # Dos
       => request[cur].type = "die"

RInv == IInv /\ ResultInv /\ platform = "os3"

LEMMA SameResults ==
  ASSUME ResultInv, UNCHANGED <<task, locks>>,
         Done' \/ hpc' = "reply" => (Done \/ hpc = "reply") /\ request'[cur'] = request[cur],
         hpc' \in {"loop", "closing", "removing", "lastReply"} /\ ~handlerRunning' /\ cur' # Dos
           => request'[cur'].type = "die"
  PROVE  ResultInv'
<1>1. \A type : Worked(type)' => Worked(type)
  BY DEF Worked
<1>2. task' = task /\ locks' = locks
  OBVIOUS
<1> QED
  BY <1>1, <1>2 DEF ResultInv

LEMMA ClientsResults == ASSUME RInv, Clients PROVE ResultInv'
<1>1. TypeOK
  BY DEF RInv, IInv, FlowInv, TypeInv
<1>2. ASSUME NEW c \in Client, NEW r \in Request \ {"startup"}, NEW l \in Lock \cup {Nothing},
             Send(c, r, l)
      PROVE  ResultInv'
  <2>1. /\ c \in Sender /\ c # Dos /\ status[c] = "idle"
        /\ request' = [request EXCEPT ![c] = [type |-> r, lock |-> l]]
        /\ UNCHANGED <<hpc, cur, handlerRunning, wpc, locks, task, handlerSignal>>
    BY <1>2, NamesAssumption DEF Send, Sender, handlerVars, workerVars, signalVars
  <2>2. Done' = Done
    BY <2>1 DEF Done
  <2>3. Serving => cur # c /\ request'[cur] = request[cur]
    <3>1. Serving => cur \in Sender /\ (cur # Dos => status[cur] = "pending")
      BY DEF RInv, IInv, FlowInv, TypeInv, PacketInv, Serving
    <3> QED
      BY <1>1, <2>1, <3>1 DEF TypeOK
  <2>4. Done \/ hpc = "reply" => Serving
    BY DEF Done, Serving
  <2>5. hpc \in {"loop", "closing", "removing", "lastReply"} /\ ~handlerRunning => Serving
    BY DEF Serving
  <2>6. hpc \in {"loop", "closing", "removing", "lastReply"} /\ ~handlerRunning /\ cur # Dos
          => request[cur].type = "die"
    BY DEF RInv, ResultInv
  <2> QED
    BY <2>1, <2>2, <2>3, <2>4, <2>5, <2>6, SameResults DEF RInv
<1>3. ASSUME NEW s \in Sender, Receive(s) PROVE ResultInv'
  <2>1. UNCHANGED <<request, hpc, cur, handlerRunning, wpc, locks, task, handlerSignal>>
    BY <1>3 DEF Receive, handlerVars, workerVars, signalVars
  <2>2. Done' = Done
    BY <2>1 DEF Done
  <2> QED
    BY <2>1, <2>2, SameResults DEF RInv, ResultInv
<1> QED
  BY <1>2, <1>3 DEF Clients

LEMMA HandlerResults == ASSUME RInv, Restart \/ Handler PROVE ResultInv'
<1>1. FlowInv /\ ResultInv
  BY DEF RInv, IInv
<1>2. CASE Restart \/ Startup
  <2>1. /\ UNCHANGED <<task, locks>> /\ hpc' \in {"startup", "awaitWorker", "loop"}
        /\ hpc' # "startup" => cur' = Dos
    BY <1>1, <1>2 DEF Restart, Startup, workerVars, FlowInv, PacketInv
  <2> QED
    BY <1>1, <2>1, SameResults DEF Done
<1>3. CASE WorkerIsUp \/ SetTask \/ SignalWorker
  <2>1. /\ hpc' \in {"set", "signal", "wait"} /\ handlerSignal' = handlerSignal /\ wpc' = wpc /\ locks' = locks
        /\ hpc' = "wait" => hpc = "signal"
    BY <1>3 DEF WorkerIsUp, SetTask, SignalWorker, workerVars, signalVars
  <2>2. hpc = "signal" => wpc # "signal" /\ ~handlerSignal
    BY <1>1 DEF FlowInv, Rendezvous, WorkerBusy
  <2>3. ~Done' /\ hpc' # "reply"
    BY <2>1, <2>2 DEF Done
  <2> QED
    BY <2>1, <2>3 DEF ResultInv, Worked
<1>4. CASE GetPacket
  <2>1. /\ handlerRunning' /\ hpc' \in {"set", "reply"}
        /\ request' = request /\ cur' = Head(port) /\ todo' = TasksOf(request[cur'].type)
        /\ hpc' = "reply" => todo' = <<>>
    BY <1>4 DEF GetPacket, clientVars
  <2>2. hpc' = "reply" => request'[cur'].type \notin {"locate", "free_lock", "inhibit", "die"}
    BY <2>1 DEF TasksOf
  <2>3. ~Done' /\ hpc' \notin {"loop", "closing", "removing", "lastReply"}
    BY <2>1 DEF Done
  <2> QED
    BY <2>2, <2>3 DEF ResultInv, Worked
<1>5. CASE TaskDone
  <2>1. /\ hpc = "wait" /\ handlerSignal /\ hpc' \in {"set", "loop", "reply"}
        /\ UNCHANGED <<request, cur, task, locks, handlerRunning>>
    BY <1>5 DEF TaskDone, HandlerWait, clientVars, workerVars
  <2>2. Done /\ handlerRunning /\ ~Done'
    BY <1>1, <2>1 DEF Done, FlowInv, PhaseInv
  <2> QED
    BY <1>1, <2>1, <2>2, SameResults
<1>6. CASE Reply
  <2>1. /\ hpc = "reply" /\ hpc' = "loop" /\ UNCHANGED <<request, cur, task, locks, handlerRunning>>
    BY <1>6 DEF Reply, workerVars
  <2>2. handlerRunning /\ ~Done'
    BY <1>1, <2>1 DEF Done, FlowInv, PhaseInv
  <2> QED
    BY <1>1, <2>1, <2>2, SameResults
<1>7. CASE AcceptDie
  <2>1. /\ hpc' = "loop" /\ UNCHANGED <<request, cur, task, locks>> /\ request[cur].type = "die"
    BY <1>7 DEF AcceptDie, clientVars, workerVars
  <2>2. ~Done'
    BY <2>1 DEF Done
  <2> QED
    BY <1>1, <2>1, <2>2, SameResults
<1>8. CASE LeaveLoop \/ AwaitWorkerEnd \/ RemoveEntry \/ RefuseQueued \/ GiveUpEntry \/ LastReply
  <2>1. /\ UNCHANGED <<request, cur, task, locks, handlerRunning>>
        /\ hpc \in {"loop", "closing", "removing", "lastReply"}
        /\ hpc' \in {"closing", "removing", "lastReply", "gone"}
        /\ handlerRunning => hpc = "loop" /\ hpc' = "closing" /\ ~workerRunning
    BY <1>1, <1>8 DEF LeaveLoop, AwaitWorkerEnd, RemoveEntry, RefuseQueued, GiveUpEntry, LastReply,
       clientVars, handlerVars, workerVars, FlowInv, PhaseInv
  <2>2. ~Done'
    BY <2>1 DEF Done
  <2>3. ~handlerRunning
    BY <1>1, <2>1 DEF FlowInv, PhaseInv
  <2>4. cur # Dos => request[cur].type = "die"
    BY <1>1, <2>1, <2>3 DEF ResultInv
  <2> QED
    BY <1>1, <2>1, <2>2, <2>3, <2>4, SameResults
<1> QED
  BY <1>2, <1>3, <1>4, <1>5, <1>6, <1>7, <1>8 DEF Handler

LEMMA WorkerResults == ASSUME RInv, Worker PROVE ResultInv'
<1>1. TypeOK /\ FlowInv /\ ResultInv /\ platform = "os3"
  BY DEF RInv, IInv, FlowInv, TypeInv
<1>2. UNCHANGED <<request, cur, hpc, handlerRunning>>
  BY DEF Worker, WorkerInit, WorkerWait, RunLog, RunLocate, RunFreeLock, RunInhibit, RunDie,
     Finish, Work, WorkerSignals, WorkerEnds, clientVars, handlerVars
<1>3. CASE WorkerInit \/ WorkerWait
  <2>1. UNCHANGED <<task, locks, handlerSignal>> /\ wpc' # "signal"
    BY <1>3 DEF WorkerInit, WorkerWait, signalVars
  <2>2. Done' => Done
    BY <1>2, <2>1 DEF Done
  <2> QED
    BY <1>1, <1>2, <2>1, <2>2, SameResults DEF ResultInv
<1>4. CASE WorkerSignals
  <2>1. UNCHANGED <<task, locks>> /\ wpc = "signal"
    BY <1>4 DEF WorkerSignals
  <2>2. Done' => Done
    BY <1>2, <2>1 DEF Done
  <2> QED
    BY <1>1, <1>2, <2>1, <2>2, SameResults DEF ResultInv
<1>5. CASE WorkerEnds
  <2>1. UNCHANGED <<task, handlerSignal>> /\ wpc = "closing" /\ wpc' = "ended" /\ locks' = {}
    BY <1>5 DEF WorkerEnds, signalVars
  <2>2. locks = {}
    BY <1>1, <2>1 DEF RInv, IInv, LocksInv, Abandoned
  <2>3. Done' => Done
    BY <1>2, <2>1 DEF Done
  <2> QED
    BY <1>1, <1>2, <2>1, <2>2, <2>3, SameResults DEF ResultInv
<1>6. ASSUME NEW type, NEW res, Work(type, res),
             \/ type \in {"log", "free_lock", "inhibit", "die"} \/ res \in Lock \cup {"none"},
             type = "free_lock" => task.lock \notin locks',
             type = "inhibit" => res = IF locks' = {} THEN "true" ELSE "false",
             type = "die" => res = IF locks' = {} THEN "true" ELSE "in_use"
      PROVE  ResultInv'
  <2>1. task' = [task EXCEPT !.result = res] /\ task.type = type /\ wpc = "run"
    BY <1>6 DEF Work
  <2>2. task'.type = type /\ task'.result = res /\ task'.lock = task.lock
    BY <1>1, <2>1 DEF TypeOK, Task
  <2>3. hpc \notin {"loop", "closing", "removing", "lastReply"}
    BY <1>1, <2>1 DEF FlowInv, Rendezvous, WorkerBusy
  <2> QED
    BY <1>2, <1>6, <2>2, <2>3 DEF ResultInv, Worked
<1>7. wpc = "run" => task.result = "none"
  BY <1>1 DEF FlowInv, Rendezvous, WorkerBusy, TaskInv, Done
<1>8. CASE RunLog \/ RunLocate
  <2>1. wpc = "run" /\ \E type \in {"log", "locate"}, res \in Lock \cup {task.result} : Work(type, res)
    BY <1>8 DEF RunLog, RunLocate, Finish, Work
  <2> QED
    BY <1>6, <1>7, <2>1
<1>9. CASE RunFreeLock
  BY <1>6, <1>9 DEF RunFreeLock, Finish
<1>10. CASE RunInhibit
  BY <1>6, <1>10 DEF RunInhibit, Finish
<1>11. CASE RunDie
  <2>1. IsShutdownPossible <=> locks = {}
    BY <1>1 DEF IsShutdownPossible, ShutdownChecksLocks
  <2> QED
    BY <1>6, <1>11, <2>1 DEF RunDie
<1> QED
  BY <1>3, <1>4, <1>5, <1>8, <1>9, <1>10, <1>11 DEF Worker

LEMMA InitR == Platforms = {"os3"} /\ Init => RInv
<1> SUFFICES ASSUME Platforms = {"os3"}, Init PROVE RInv
  OBVIOUS
<1>1. IInv
  BY InitFlow, InitLocks DEF IInv
<1>2. ResultInv /\ platform = "os3"
  BY DEF Init, ResultInv, Worked, Done
<1> QED
  BY <1>1, <1>2 DEF RInv

LEMMA NextR == Platforms = {"os3"} /\ RInv /\ [Next]_vars => RInv'
<1> SUFFICES ASSUME Platforms = {"os3"}, RInv, [Next]_vars PROVE RInv'
  OBVIOUS
<1>1. IInv'
  BY NextLocks DEF RInv
<1>2. platform' = "os3"
  BY <1>1 DEF IInv, FlowInv, TypeInv, TypeOK
<1>3. CASE UNCHANGED vars
  <2>1. UNCHANGED <<task, locks, request, cur, hpc, handlerRunning, wpc, handlerSignal>>
    BY <1>3 DEF vars, clientVars, handlerVars, workerVars, signalVars
  <2>2. Done' = Done
    BY <2>1 DEF Done
  <2>3. ResultInv'
    BY <2>1, <2>2, SameResults DEF RInv, ResultInv
  <2> QED
    BY <1>1, <1>2, <2>3 DEF RInv
<1> QED
  BY <1>1, <1>2, <1>3, ClientsResults, HandlerResults, WorkerResults DEF Next, RInv

-----------------------------------------------------------------------------
(***************************************************************************)
(* Each step is a step of the service, or none.  What the service sees of  *)
(* the senders is what the clients see.                                    *)
(***************************************************************************)
Seen(f) == [c \in Client |-> f[c]]

LEMMA SeenSame ==
  ASSUME NEW f, NEW g, \A c \in Client : f[c] = g[c]
  PROVE  Seen(f) = Seen(g)
BY DEF Seen

LEMMA SeenExcept ==
  ASSUME NEW f, DOMAIN f = Sender, NEW c \in Client, NEW v
  PROVE  Seen([f EXCEPT ![c] = v]) = [Seen(f) EXCEPT ![c] = v]
BY DEF Seen, Sender

LEMMA Stutters ==
  ASSUME UNCHANGED <<handlerRunning, Granted, Seen(status), Seen(request), Seen(answer), Seen(held)>>
  PROVE  UNCHANGED Service!vars
BY DEF Service!vars, Seen

Busy == hpc \in {"signal", "wait", "reply"}

LEMMA SameGranted ==
  ASSUME UNCHANGED <<task, locks>>, Busy <=> Busy', Busy => request'[cur'].type = request[cur].type
  PROVE  Granted' = Granted
<1>1. \A type : Unanswered(type)' <=> Unanswered(type)
  BY DEF Unanswered, Busy
<1> QED
  BY <1>1 DEF Granted

LEMMA QuietGranted ==
  ASSUME TypeOK, ~Unanswered("locate") \/ task.result \notin Lock, ~Unanswered("free_lock")
  PROVE  Granted = locks
BY DEF Granted

LEMMA ClientsRefine == ASSUME RInv, Clients PROVE Service!Next \/ UNCHANGED Service!vars
<1>1. TypeOK /\ DOMAIN status = Sender /\ DOMAIN request = Sender /\ DOMAIN held = Sender
  BY DEF RInv, IInv, FlowInv, TypeInv, TypeOK
<1>2. ASSUME NEW c \in Client, NEW r \in Request \ {"startup"}, NEW l \in Lock \cup {Nothing},
             Send(c, r, l)
      PROVE  Service!Send(c)
  <2>1. /\ status[c] = "idle" /\ c # Dos
        /\ status' = [status EXCEPT ![c] = "pending"]
        /\ request' = [request EXCEPT ![c] = [type |-> r, lock |-> l]]
        /\ held' = [held EXCEPT ![c] = held[c] \ {l}]
        /\ IF r = "free_lock" THEN l \in held[c] ELSE l = Nothing
        /\ UNCHANGED <<answer, hpc, cur, handlerRunning, task, locks>>
    BY <1>2, NamesAssumption DEF Send, handlerVars, workerVars
  <2>2. Granted' = Granted
    <3>1. Busy => cur # c
      BY <2>1 DEF RInv, IInv, FlowInv, TypeInv, PacketInv, Serving, Busy
    <3>2. Busy => request'[cur] = request[cur]
      BY <1>1, <2>1, <3>1 DEF RInv, IInv, FlowInv, TypeInv, TypeOK, Busy
    <3>3. Busy' <=> Busy
      BY <2>1 DEF Busy
    <3> QED
      BY <2>1, <3>2, <3>3, SameGranted
  <2>3. /\ Seen(status)' = [Seen(status) EXCEPT ![c] = "pending"]
        /\ Seen(request)' = [Seen(request) EXCEPT ![c] = [type |-> r, lock |-> l]]
        /\ Seen(held)' = [Seen(held) EXCEPT ![c] = held[c] \ {l}]
    BY <1>1, <2>1, SeenExcept
  <2>4. l \in held[c] \cup {Nothing} /\ ((r = "free_lock") <=> (l # Nothing))
    BY <1>1, <2>1, NamesAssumption DEF TypeOK, Sender
  <2>5. r \in {"current_volume", "ignored", "locate", "free_lock", "inhibit", "die"}
    BY DEF Request
  <2> QED
    BY <2>1, <2>2, <2>3, <2>4, <2>5 DEF Service!Send, Seen
<1>3. ASSUME NEW s \in Sender, Receive(s) PROVE Service!Next \/ UNCHANGED Service!vars
  <2>1. /\ status[s] = "answered"
        /\ status' = [status EXCEPT ![s] = "idle"]
        /\ held' = [held EXCEPT ![s] = held[s] \cup ({answer[s]} \cap Lock)]
        /\ UNCHANGED <<request, answer, hpc, cur, handlerRunning, task, locks>>
    BY <1>3 DEF Receive, handlerVars, workerVars
  <2>2. Granted' = Granted
    BY <2>1, SameGranted DEF Busy
  <2>3. CASE s \in Client
    <3>1. /\ Seen(status)' = [Seen(status) EXCEPT ![s] = "idle"]
          /\ Seen(held)' = [Seen(held) EXCEPT ![s] = held[s] \cup ({answer[s]} \cap Lock)]
      BY <1>1, <2>1, <2>3, SeenExcept
    <3>2. Service!Receive(s)
      BY <2>1, <2>2, <2>3, <3>1 DEF Service!Receive, Seen
    <3> QED
      BY <2>3, <3>2 DEF Service!Next
  <2>4. CASE s \notin Client
    <3>1. UNCHANGED <<Seen(status), Seen(request), Seen(answer), Seen(held)>>
      BY <1>1, <2>1, <2>4 DEF Seen, Sender
    <3> QED
      BY <2>1, <2>2, <3>1, Stutters
  <2> QED
    BY <2>3, <2>4
<1> QED
  BY <1>2, <1>3 DEF Clients, Service!Next

(* An answer to the startup packet is nothing to the clients.              *)
LEMMA DosReturned ==
  ASSUME TypeOK, NEW res, NEW queue, ReturnPacket(Dos, res, queue)
  PROVE  UNCHANGED <<Seen(status), Seen(answer)>>
<1>1. \A c \in Client : c # Dos
  BY NamesAssumption
<1>2. \A c \in Client : status'[c] = status[c] /\ answer'[c] = answer[c]
  BY <1>1 DEF ReturnPacket, TypeOK, Sender
<1> QED
  BY <1>2, SeenSame

LEMMA StartsRefine == ASSUME RInv, Restart \/ Startup PROVE Service!Next \/ UNCHANGED Service!vars
<1>1. TypeOK /\ \A c \in Client : c # Dos
  BY NamesAssumption DEF RInv, IInv, FlowInv, TypeInv
<1>2. CASE Restart
  <2>1. /\ hpc = "gone" /\ hpc' = "startup" /\ handlerRunning'
        /\ status' = [status EXCEPT ![Dos] = "pending"]
        /\ UNCHANGED <<request, answer, held, locks, task>>
    BY <1>2 DEF Restart, workerVars
  <2>2. ~handlerRunning
    BY <2>1 DEF RInv, IInv, FlowInv, PhaseInv
  <2>3. Granted' = Granted
    BY <2>1, SameGranted DEF Busy
  <2>4. \A c \in Client : status'[c] = status[c]
    BY <1>1, <2>1 DEF TypeOK, Sender
  <2>5. handlerRunning' = TRUE
    BY <1>2 DEF Restart
  <2>6. Service!Open
    BY <2>1, <2>2, <2>3, <2>4, <2>5 DEF Service!Open
  <2> QED
    BY <2>6 DEF Service!Next
<1>3. CASE Startup
  <2>1. /\ hpc = "startup" /\ port # <<>> /\ Head(port) = Dos /\ hpc' \in {"awaitWorker", "loop"}
        /\ ReturnPacket(Dos, "true", Tail(port)) /\ UNCHANGED <<request, held, locks, task>>
        /\ handlerRunning' = handlerRunning \/ handlerRunning' = FALSE
    BY <1>3 DEF Startup, RInv, IInv, FlowInv, PacketInv
  <2>2. UNCHANGED <<Seen(status), Seen(answer), Seen(request), Seen(held)>>
    BY <1>1, <2>1, DosReturned DEF Seen
  <2>3. Granted' = Granted
    BY <2>1, SameGranted DEF Busy
  <2>4. CASE handlerRunning' = handlerRunning
    BY <2>2, <2>3, <2>4, Stutters
  <2>5. CASE handlerRunning' = FALSE
    <3>1. handlerRunning /\ wpc \in {"none", "ended"}
      BY <1>1, <2>1 DEF RInv, IInv, FlowInv, PhaseInv, Rendezvous, WorkerBusy, TypeOK
    <3>2. locks = {}
      BY <3>1 DEF RInv, IInv, LocksInv, Abandoned
    <3>3. Granted = {}
      BY <1>1, <2>1, <3>2, QuietGranted DEF Unanswered
    <3>4. Service!Close
      BY <2>2, <2>3, <2>5, <3>1, <3>3 DEF Service!Close, Seen
    <3> QED
      BY <3>4 DEF Service!Next
  <2> QED
    BY <2>1, <2>4, <2>5
<1> QED
  BY <1>2, <1>3

(* Steps between packets, and those of doTask.                             *)
LEMMA HandlerRests ==
  ASSUME RInv,
         \/ WorkerIsUp \/ GetPacket \/ LeaveLoop \/ SetTask \/ SignalWorker \/ TaskDone
         \/ AwaitWorkerEnd \/ RemoveEntry \/ GiveUpEntry
  PROVE  UNCHANGED Service!vars
<1>1. TypeOK /\ FlowInv /\ LocksInv /\ ~Abandoned
  BY DEF RInv, IInv, FlowInv, TypeInv, Abandoned
<1>2. UNCHANGED <<status, request, answer, held, handlerRunning, locks>>
  BY DEF WorkerIsUp, GetPacket, LeaveLoop, SetTask, SignalWorker, TaskDone, AwaitWorkerEnd,
     RemoveEntry, GiveUpEntry, clientVars, workerVars
<1>3. ASSUME Granted' = Granted PROVE UNCHANGED Service!vars
  BY <1>2, <1>3, Stutters DEF Seen
<1>4. CASE WorkerIsUp \/ LeaveLoop \/ SignalWorker \/ AwaitWorkerEnd \/ RemoveEntry \/ GiveUpEntry
  <2>1. (Busy' <=> Busy) /\ UNCHANGED <<task, cur>>
    BY <1>4 DEF WorkerIsUp, LeaveLoop, SignalWorker, AwaitWorkerEnd, RemoveEntry, GiveUpEntry, Busy
  <2> QED
    BY <1>2, <1>3, <2>1, SameGranted
<1>5. CASE GetPacket
  <2>1. /\ hpc = "loop" /\ hpc' \in {"set", "reply"} /\ task' = task
        /\ cur' = Head(port) /\ todo' = TasksOf(request[cur'].type)
        /\ hpc' = "reply" => todo' = <<>>
    BY <1>5 DEF GetPacket
  <2>2. hpc' = "reply" => request'[cur'].type \notin {"locate", "free_lock"}
    BY <1>2, <2>1 DEF TasksOf
  <2>3. TypeOK' /\ ~Unanswered("locate")' /\ ~Unanswered("free_lock")'
    <3>1. TypeOK'
      BY NextType, <1>1, <1>5 DEF FlowInv, Next, Handler, TypeInv
    <3> QED
      BY <2>1, <2>2, <3>1 DEF Unanswered
  <2>4. Granted' = locks'
    BY <2>3 DEF Granted
  <2>5. Granted = locks
    BY <1>1, <2>1, QuietGranted DEF Unanswered
  <2> QED
    BY <1>2, <1>3, <2>4, <2>5
<1>6. CASE SetTask
  <2>1. /\ hpc = "set" /\ hpc' = "signal" /\ cur' = cur /\ task' = FreshTask(Head(todo))
    BY <1>6 DEF SetTask
  <2>2. /\ task'.result = "none" /\ task'.lock = request[cur].lock /\ task'.type = Head(todo)
    BY <2>1 DEF FreshTask
  <2>3. task'.result \notin Lock
    BY <2>2, NamesAssumption
  <2>4. Granted = locks
    BY <1>1, <2>1, QuietGranted DEF Unanswered
  <2>5. request[cur].type = "free_lock" => request[cur].lock \in locks
    <3>1. cur \in Sender
      BY <1>1, <2>1 DEF FlowInv, TypeInv
    <3>2. \A s \in Sender : s = cur /\ request[s].type = "free_lock" => ToFree(s) = {request[s].lock}
      BY <2>1 DEF ToFree, Done
    <3> QED
      BY <1>1, <3>1, <3>2 DEF LocksInv, Uses
  <2>6. {l \in Lock : Unanswered("free_lock")' /\ l = task'.lock} \subseteq locks
    BY <1>2, <2>1, <2>2, <2>5 DEF Unanswered
  <2>7. {l \in Lock : Unanswered("locate")' /\ l = task'.result} = {}
    BY <2>3
  <2>8. Granted' = locks
    BY <1>2, <2>6, <2>7 DEF Granted
  <2> QED
    BY <1>3, <2>4, <2>8
<1>7. CASE TaskDone
  <2>1. /\ hpc = "wait" /\ todo' = Tail(todo) /\ UNCHANGED <<cur, task>>
        /\ hpc' = IF todo' # <<>> THEN "set" ELSE IF request[cur].type = "startup" THEN "loop" ELSE "reply"
    BY <1>7 DEF TaskDone
  <2>2. CASE hpc' = "reply"
    BY <1>2, <1>3, <2>1, <2>2, SameGranted DEF Busy
  <2>3. CASE hpc' # "reply"
    <3> DEFINE r == request[cur].type
    <3>1. task.type = Head(todo) /\ (todo = <<"log">> \/ todo \in {<<"log", r>>, <<r>>})
      BY <1>1, <2>1 DEF FlowInv, TaskInv
    <3>2. todo' # <<>> \/ r = "startup"
      BY <2>1, <2>3
    <3> HIDE DEF r
    <3>3. task.type = "log" \/ r = "startup"
      <4>1. CASE todo = <<r>>
        BY <2>1, <3>2, <4>1
      <4>2. CASE todo # <<r>>
        BY <3>1, <4>2
      <4> QED
        BY <4>1, <4>2
    <3>4. ~Unanswered("locate") /\ ~Unanswered("free_lock")
      BY <3>3 DEF Unanswered, r
    <3>5. hpc' \notin {"signal", "wait", "reply"}
      BY <2>1, <2>3
    <3>6. Granted' = locks'
      BY <3>5 DEF Granted, Unanswered
    <3> QED
      BY <1>1, <1>2, <1>3, <3>4, <3>6, QuietGranted
  <2> QED
    BY <2>2, <2>3
<1> QED
  BY <1>4, <1>5, <1>6, <1>7

LEMMA Served ==
  ASSUME NEW c \in Client, NEW res, Service!Answer(c, res), handlerRunning,
         \/ request[c].type = "locate" /\ res \in Lock \ Granted /\ Granted' = Granted \cup {res}
         \/ request[c].type = "locate" /\ res = "none" /\ Granted' = Granted
         \/ request[c].type = "free_lock" /\ res = "true" /\ Granted' = Granted \ {request[c].lock}
         \/ request[c].type = "inhibit" /\ res = (IF Granted = {} THEN "true" ELSE "false") /\ Granted' = Granted
         \/ request[c].type = "die" /\ res = "in_use" /\ Granted # {} /\ Granted' = Granted
         \/ /\ request[c].type \notin {"locate", "free_lock", "inhibit", "die"}
            /\ res = "true" /\ Granted' = Granted
  PROVE  Service!Serve(c)
<1>1. [d \in Client |-> request[d]][c] = request[c]
  OBVIOUS
<1>2. CASE request[c].type = "locate"
  BY <1>1, <1>2 DEF Service!Serve, Service!Answer
<1>3. CASE request[c].type = "free_lock"
  BY <1>1, <1>3 DEF Service!Serve, Service!Answer
<1>4. CASE request[c].type = "inhibit"
  BY <1>1, <1>4 DEF Service!Serve, Service!Answer
<1>5. CASE request[c].type = "die"
  BY <1>1, <1>5 DEF Service!Serve, Service!Answer
<1>6. CASE request[c].type \notin {"locate", "free_lock", "inhibit", "die"}
  BY <1>1, <1>6 DEF Service!Serve, Service!Answer
<1> QED
  BY <1>2, <1>3, <1>4, <1>5, <1>6

LEMMA ReplyRefines == ASSUME RInv, Reply PROVE Service!Next
<1>1. TypeOK /\ FlowInv /\ LocksInv /\ ResultInv /\ ~Abandoned
  BY DEF RInv, IInv, FlowInv, TypeInv, Abandoned
<1>2. /\ hpc = "reply" /\ hpc' = "loop" /\ ReturnPacket(cur, AnswerOf(cur), port)
      /\ ~(request[cur].type = "die" /\ task.result = "true")
      /\ UNCHANGED <<request, held, cur, handlerRunning, locks, task>>
  BY DEF Reply, workerVars
<1>3. /\ cur \in Client /\ status[cur] = "pending" /\ replyTo[cur] = "sender" /\ handlerRunning
      /\ request[cur].type # "startup"
  BY <1>1, <1>2 DEF FlowInv, TypeInv, PacketInv, PhaseInv, Serving, Sender
<1>4. PICK c \in Client : c = cur
  BY <1>3
<1>5. PICK res : res = AnswerOf(c)
  OBVIOUS
<1>6. /\ status' = [status EXCEPT ![c] = "answered"]
      /\ answer' = [answer EXCEPT ![c] = res]
  BY <1>1, <1>2, <1>3, <1>4, <1>5, ReturnPacketFlow DEF Sender
<1>7. /\ Seen(status)' = [Seen(status) EXCEPT ![c] = "answered"]
      /\ Seen(answer)' = [Seen(answer) EXCEPT ![c] = res]
      /\ Seen(request)' = Seen(request) /\ Seen(held)' = Seen(held)
  <2>1. DOMAIN status = Sender /\ DOMAIN answer = Sender
    BY <1>1 DEF TypeOK
  <2>2. Seen(status)' = [Seen(status) EXCEPT ![c] = "answered"]
    BY <1>6, <2>1, SeenExcept
  <2>3. Seen(answer)' = [Seen(answer) EXCEPT ![c] = res]
    BY <1>6, <2>1, SeenExcept
  <2> QED
    BY <1>2, <2>2, <2>3 DEF Seen
<1>8. Service!Answer(c, res)
  BY <1>2, <1>3, <1>4, <1>7 DEF Service!Answer, Seen
<1>9. Granted' = locks
  <2>1. ~Unanswered("locate")' /\ ~Unanswered("free_lock")'
    BY <1>2 DEF Unanswered
  <2> QED
    BY <1>2, <2>1 DEF Granted
<1>10. \/ request[c].type \in {"current_volume", "ignored"}
       \/ task.type = request[c].type /\ task.lock = request[c].lock
  BY <1>1, <1>2, <1>4 DEF FlowInv, TaskInv
<1>11. \A type : task.type = type /\ request[c].type = type => Worked(type) /\ Unanswered(type)
  BY <1>2, <1>4 DEF Worked, Unanswered
<1>12. Service!Serve(c)
  <2>1. CASE request[c].type = "locate"
    <3>1. task.type = "locate" /\ Worked("locate") /\ Unanswered("locate") /\ ~Unanswered("free_lock")
      BY <1>4, <1>10, <1>11, <2>1 DEF Unanswered
    <3>2. res = task.result /\ task.result \in Lock \cup {"none"}
      BY <1>1, <1>4, <1>5, <2>1, <3>1 DEF AnswerOf, ResultInv
    <3>3. Granted = locks \ ({task.result} \cap Lock)
      BY <3>1 DEF Granted
    <3>4. CASE task.result \in Lock
      <4>1. task.result \in locks
        <5>1. \A s \in Sender : s = c => ToGrant(s) = {task.result} \cap Lock
          BY <1>2, <1>4, <1>5, <2>1, <3>1 DEF ToGrant
        <5> QED
          BY <1>1, <3>4, <5>1 DEF LocksInv, Uses, Sender
      <4>2. task.result \in Lock \ Granted /\ Granted' = Granted \cup {task.result}
        BY <1>9, <3>3, <3>4, <4>1
      <4> QED
        BY <1>3, <1>8, Served, <2>1, <3>2, <4>2
    <3>5. CASE task.result = "none"
      <4>1. Granted' = Granted
        BY <1>9, <3>3, <3>5, NamesAssumption
      <4> QED
        BY <1>3, <1>8, Served, <2>1, <3>2, <3>5, <4>1
    <3> QED
      BY <3>2, <3>4, <3>5
  <2>2. CASE request[c].type = "free_lock"
    <3>1. task.type = "free_lock" /\ task.lock = request[c].lock
      BY <1>10, <2>2
    <3>2. Worked("free_lock") /\ Unanswered("free_lock") /\ ~Unanswered("locate")
      BY <1>4, <1>11, <2>2, <3>1 DEF Unanswered
    <3>3. task.lock \notin locks
      BY <1>1, <3>2 DEF ResultInv
    <3>4. Granted = locks \cup ({task.lock} \cap Lock)
      BY <3>2 DEF Granted
    <3>5. Granted' = Granted \ {request[c].lock}
      BY <1>1, <1>9, <3>1, <3>3, <3>4 DEF TypeOK
    <3>6. res = "true"
      BY <1>4, <1>5, <2>2 DEF AnswerOf
    <3> QED
      BY <1>3, <1>8, Served, <2>2, <3>5, <3>6
  <2>3. ASSUME request[c].type \notin {"locate", "free_lock"} PROVE Granted = locks /\ Granted' = Granted
    BY <1>1, <1>4, <1>9, <2>3, QuietGranted DEF Unanswered
  <2>4. CASE request[c].type = "inhibit"
    <3>1. Worked("inhibit")
      BY <1>10, <1>11, <2>4
    <3>2. res = IF locks = {} THEN "true" ELSE "false"
      BY <1>1, <1>4, <1>5, <2>4, <3>1 DEF AnswerOf, ResultInv
    <3>3. res = (IF Granted = {} THEN "true" ELSE "false")
      BY <2>3, <2>4, <3>2
    <3> QED
      BY <1>3, <1>8, Served, <2>3, <2>4, <3>3
  <2>5. CASE request[c].type = "die"
    <3>1. Worked("die")
      BY <1>10, <1>11, <2>5
    <3>2. res = "in_use" /\ locks # {}
      BY <1>1, <1>2, <1>4, <1>5, <2>5, <3>1 DEF AnswerOf, ResultInv
    <3> QED
      BY <1>3, <1>8, Served, <2>3, <2>5, <3>2
  <2>6. CASE request[c].type \in {"current_volume", "ignored"}
    <3>1. res = "true"
      BY <1>4, <1>5, <2>6 DEF AnswerOf
    <3> QED
      BY <1>3, <1>8, Served, <2>3, <2>6, <3>1
  <2> QED
    BY <1>1, <1>3, <1>4, <1>5, <2>1, <2>2, <2>4, <2>5, <2>6 DEF TypeOK, Request, Sender
<1> QED
  BY <1>12 DEF Service!Next

LEMMA EndsRefine ==
  ASSUME RInv, AcceptDie \/ RefuseQueued \/ LastReply
  PROVE  Service!Next \/ UNCHANGED Service!vars
<1>1. TypeOK /\ FlowInv /\ ResultInv
  BY DEF RInv, IInv, FlowInv, TypeInv
<1>2. CASE AcceptDie
  <2>1. /\ hpc = "reply" /\ hpc' = "loop" /\ handlerRunning' = FALSE
        /\ request[cur].type = "die" /\ task.result = "true"
        /\ UNCHANGED <<status, request, answer, held, locks, task>>
    BY <1>2 DEF AcceptDie, clientVars, workerVars
  <2>2. handlerRunning /\ task.type = "die"
    BY <1>1, <2>1 DEF FlowInv, PhaseInv, TaskInv
  <2>3. locks = {}
    BY <1>1, <2>1, <2>2 DEF ResultInv, Worked
  <2>4. Granted = {} /\ Granted' = {}
    BY <2>1, <2>2, <2>3 DEF Granted, Unanswered
  <2>5. Service!Close
    BY <2>1, <2>2, <2>4 DEF Service!Close
  <2> QED
    BY <2>5 DEF Service!Next
<1>3. CASE RefuseQueued
  <2>1. /\ hpc = "removing" /\ ~handlerRunning
        /\ status' = [s \in Sender |-> IF s \in InPort THEN "answered" ELSE status[s]]
        /\ answer' = [s \in Sender |-> IF s \in InPort THEN "false" ELSE answer[s]]
        /\ UNCHANGED <<request, held, hpc, cur, handlerRunning, locks, task>>
    BY <1>1, <1>3 DEF RefuseQueued, InPort, handlerVars, workerVars, FlowInv, PhaseInv
  <2>2. \A s \in InPort : status[s] = "pending"
    BY <1>1, <2>1 DEF FlowInv, PacketInv
  <2>3. Granted' = Granted
    BY <2>1, SameGranted DEF Busy
  <2> DEFINE S == InPort \cap Client
  <2>4. S \in SUBSET {c \in Client : Seen(status)[c] = "pending"}
    BY <2>2 DEF Seen
  <2>5. /\ Seen(status)' = [c \in Client |-> IF c \in S THEN "answered" ELSE Seen(status)[c]]
        /\ Seen(answer)' = [c \in Client |-> IF c \in S THEN "false" ELSE Seen(answer)[c]]
    BY <2>1 DEF Seen, Sender
  <2>6. Service!Refuse
    <3> HIDE DEF S
    <3> QED
      BY <2>1, <2>3, <2>4, <2>5 DEF Service!Refuse, Seen
  <2> QED
    BY <2>6 DEF Service!Next
<1>4. CASE LastReply
  <2>1. /\ hpc = "lastReply" /\ hpc' = "gone" /\ ReturnPacket(cur, "true", port)
        /\ UNCHANGED <<request, held, cur, handlerRunning, locks, task>>
    BY <1>4 DEF LastReply, workerVars
  <2>2. /\ ~handlerRunning /\ cur \in Sender
        /\ cur # Dos => status[cur] = "pending" /\ replyTo[cur] = "sender" /\ request[cur].type = "die"
    BY <1>1, <2>1 DEF FlowInv, TypeInv, PacketInv, PhaseInv, Serving, ResultInv
  <2>3. Granted' = Granted
    BY <2>1, SameGranted DEF Busy
  <2>4. CASE cur = Dos
    <3>1. UNCHANGED <<Seen(status), Seen(answer)>>
      BY <1>1, <2>1, <2>4, DosReturned
    <3>2. UNCHANGED <<Seen(request), Seen(held)>>
      BY <2>1 DEF Seen
    <3> QED
      BY <2>1, <2>3, <3>1, <3>2, Stutters
  <2>5. CASE cur # Dos
    <3>1. PICK c \in Client : c = cur
      BY <2>2, <2>5 DEF Sender
    <3>2. /\ status' = [status EXCEPT ![c] = "answered"]
          /\ answer' = [answer EXCEPT ![c] = "true"]
      BY <1>1, <2>1, <2>2, <2>5, <3>1, ReturnPacketFlow
    <3>3. /\ Seen(status)' = [Seen(status) EXCEPT ![c] = "answered"]
          /\ Seen(answer)' = [Seen(answer) EXCEPT ![c] = "true"]
      BY <1>1, <3>2, SeenExcept DEF TypeOK
    <3>4. Service!AnswerDie(c)
      BY <2>1, <2>2, <2>3, <2>5, <3>1, <3>3 DEF Service!AnswerDie, Service!Answer, Seen
    <3> QED
      BY <3>4 DEF Service!Next
  <2> QED
    BY <2>4, <2>5
<1> QED
  BY <1>2, <1>3, <1>4

(* What the worker does shows when the packet is answered.                 *)
LEMMA WorkerRests == ASSUME RInv, Worker PROVE UNCHANGED Service!vars
<1>1. TypeOK /\ FlowInv /\ LocksInv /\ ~Abandoned
  BY DEF RInv, IInv, FlowInv, TypeInv, Abandoned
<1>2. UNCHANGED <<status, request, answer, held, cur, hpc, handlerRunning>>
  BY DEF Worker, WorkerInit, WorkerWait, RunLog, RunLocate, RunFreeLock, RunInhibit, RunDie,
     Finish, Work, WorkerSignals, WorkerEnds, clientVars, handlerVars
<1>3. ASSUME Granted' = Granted PROVE UNCHANGED Service!vars
  BY <1>2, <1>3, Stutters DEF Seen
<1>4. CASE WorkerInit \/ WorkerWait \/ WorkerSignals \/ WorkerEnds
  <2>1. task' = task /\ (locks' = locks \/ (wpc = "closing" /\ locks' = {}))
    BY <1>4 DEF WorkerInit, WorkerWait, WorkerSignals, WorkerEnds
  <2>2. locks' = locks
    BY <1>1, <2>1 DEF LocksInv
  <2> QED
    BY <1>2, <1>3, <2>1, <2>2, SameGranted DEF Busy
<1>5. ASSUME NEW type, NEW res, Work(type, res)
      PROVE  /\ task.type = type /\ task'.type = type /\ task'.result = res /\ task'.lock = task.lock
             /\ task.result = "none" /\ hpc = "wait"
  <2>1. task' = [task EXCEPT !.result = res] /\ task.type = type /\ wpc = "run"
    BY <1>5 DEF Work
  <2>2. task.result = "none" /\ hpc = "wait"
    BY <1>1, <2>1 DEF FlowInv, Rendezvous, WorkerBusy, TaskInv, Done
  <2> QED
    BY <1>1, <2>1, <2>2 DEF TypeOK, Task
<1>6. ASSUME NEW type, NEW res, Work(type, res), type \notin {"locate", "free_lock"}, locks' = locks
      PROVE  Granted' = Granted
  <2>1. /\ ~Unanswered("locate") /\ ~Unanswered("free_lock")
        /\ ~Unanswered("locate")' /\ ~Unanswered("free_lock")'
    BY <1>5, <1>6 DEF Unanswered
  <2> QED
    BY <1>6, <2>1 DEF Granted
<1>7. CASE RunLog \/ RunInhibit \/ RunDie
  <2>1. locks' = locks /\ \E type \in {"log", "inhibit", "die"} : \E res : Work(type, res)
    BY <1>7 DEF RunLog, RunInhibit, RunDie, Finish
  <2> QED
    BY <1>3, <1>6, <2>1
<1>8. CASE RunLocate
  <2>1. PICK res : Work("locate", res) /\ \/ res = task.result /\ locks' = locks
                                          \/ res \in Lock \ locks /\ locks' = locks \cup {res}
    BY <1>8 DEF RunLocate, Finish
  <2>2. /\ task.type = "locate" /\ task'.type = "locate" /\ task'.result = res
        /\ task.result = "none" /\ hpc = "wait"
    BY <1>5, <2>1
  <2>3. request[cur].type = "locate"
    <3> DEFINE r == request[cur].type
    <3>1. todo \in {<<"log">>, <<"log", r>>, <<r>>} /\ task.type = Head(todo)
      BY <1>1, <2>2 DEF FlowInv, TaskInv
    <3> HIDE DEF r
    <3>2. r = "locate"
      BY <2>2, <3>1
    <3> QED
      BY <3>2 DEF r
  <2>4. Granted = locks
    BY <1>1, <2>2, NamesAssumption, QuietGranted DEF Unanswered
  <2>5. /\ Unanswered("locate")' /\ ~Unanswered("free_lock")'
    BY <1>2, <2>2, <2>3 DEF Unanswered
  <2>6. Granted' = locks' \ ({task'.result} \cap Lock)
    BY <2>5 DEF Granted
  <2>7. Granted' = locks
    BY <2>1, <2>2, <2>6, NamesAssumption
  <2> QED
    BY <1>3, <2>4, <2>7
<1>9. CASE RunFreeLock
  <2>1. Work("free_lock", task.result) /\ locks' = locks \ {task.lock}
    BY <1>9 DEF RunFreeLock, Finish
  <2>2. /\ task.type = "free_lock" /\ task'.type = "free_lock" /\ task'.lock = task.lock /\ hpc = "wait"
    BY <1>5, <2>1
  <2>3. request[cur].type = "free_lock"
    <3> DEFINE r == request[cur].type
    <3>1. todo \in {<<"log">>, <<"log", r>>, <<r>>} /\ task.type = Head(todo)
      BY <1>1, <2>2 DEF FlowInv, TaskInv
    <3> HIDE DEF r
    <3>2. r = "free_lock"
      BY <2>2, <3>1
    <3> QED
      BY <3>2 DEF r
  <2>4. /\ Unanswered("free_lock") /\ ~Unanswered("locate")
        /\ Unanswered("free_lock")' /\ ~Unanswered("locate")'
    BY <1>2, <2>2, <2>3 DEF Unanswered
  <2>5. /\ Granted = locks \cup ({task.lock} \cap Lock)
        /\ Granted' = locks' \cup ({task.lock} \cap Lock)
    BY <2>2, <2>4 DEF Granted
  <2>6. Granted' = Granted
    BY <1>1, <2>1, <2>5 DEF TypeOK
  <2> QED
    BY <1>3, <2>6
<1> QED
  BY <1>4, <1>7, <1>8, <1>9 DEF Worker

(* A program cannot tell the two processes, their signals and their one    *)
(* global from a service that answers each packet by itself, through       *)
(* refusals, shutdowns and restarts: the handler implements the service    *)
(* (main, doTask, taskFunc, returnPacket, ReallyRemoveDosEntry).           *)
THEOREM ServiceIsImplemented == Platforms = {"os3"} => (Spec => ImplementsService)
<1>1. Init => Service!Init
  <2> SUFFICES ASSUME Init PROVE Service!Init
    OBVIOUS
  <2>1. Granted = {}
    BY DEF Init, Granted, Unanswered
  <2>2. /\ Seen(status) = [c \in Client |-> "idle"]
        /\ Seen(request) = [c \in Client |-> [type |-> "startup", lock |-> Nothing]]
        /\ Seen(answer) = [c \in Client |-> "none"]
        /\ Seen(held) = [c \in Client |-> {}]
    BY NamesAssumption DEF Init, Seen, Sender
  <2> QED
    BY <2>1, <2>2 DEF Init, Service!Init, Seen
<1>2. RInv /\ [Next]_vars => [Service!Next]_(Service!vars)
  <2> SUFFICES ASSUME RInv, [Next]_vars PROVE Service!Next \/ UNCHANGED Service!vars
    OBVIOUS
  <2>1. CASE UNCHANGED vars
    <3>1. UNCHANGED <<status, request, answer, held, cur, hpc, task, locks, handlerRunning>>
      BY <2>1 DEF vars, clientVars, handlerVars, workerVars
    <3> QED
      BY <3>1, SameGranted, Stutters DEF Busy, Seen
  <2>2. CASE Next
    BY <2>2, ClientsRefine, StartsRefine, HandlerRests, ReplyRefines, EndsRefine, WorkerRests
    DEF Next, Handler
  <2> QED
    BY <2>1, <2>2
<1>3. Platforms = {"os3"} => (Spec => []RInv)
  <2>1. CASE Platforms = {"os3"}
    BY <2>1, InitR, NextR, PTL DEF Spec
  <2> QED
    BY <2>1
<1> QED
  BY <1>1, <1>2, <1>3, PTL DEF Spec, ImplementsService, Service!Spec
=============================================================================
