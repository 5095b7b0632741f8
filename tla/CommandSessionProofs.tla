------------------------ MODULE CommandSessionProofs ------------------------
(***************************************************************************)
(* Theorems about CommandSession, for any number of commands, connects,    *)
(* worker threads and tries.                                               *)
(***************************************************************************)
EXTENDS CommandSession, SequenceTheorems, TLAPS

-----------------------------------------------------------------------------
(* Type correctness.  TypeOK is inductive together with what a program     *)
(* counter says about the task that its worker runs.                       *)

CommandPcs == {"check", "connected", "call", "danceSend", "danceRead"} \cup ExchangePcs
AllConnectPcs == {"cCheck", "cConnected"} \cup ConnectPcs
TriedAllPcs == {"giveUp", "close", "drop", "dead"}

PcInv ==
    \A w \in Workers :
        /\ pc[w] \in CommandPcs => cur[w] \in Cmds
        /\ pc[w] \in AllConnectPcs => cur[w] \in Connects
        /\ pc[w] \notin TriedAllPcs => tries[w] < MaxTries

TypeInv == TypeOK /\ PcInv

(* The field that holds a task is one of the three.                         *)
LEMMA SlotOfType == \A t : SlotOf(t) \in Slots
  BY DEF SlotOf, Slots

(* A cancellation marks tasks.                                              *)
LEMMA CancelInType == \A S : CancelIn(S) \subseteq Tasks
  BY DEF CancelIn

(* Putting a task on the executor's queue keeps the types of the tasks.     *)
LEMMA EnqueueTypes ==
  ASSUME TaskTypes, NEW t \in Tasks, Enqueue(t)
  PROVE  /\ field' \in [Slots -> Tasks \cup {None}]
         /\ status' \in [Tasks -> Statuses]
         /\ queue' \in Seq(Tasks)
<1>1. field' \in [Slots -> Tasks \cup {None}]
  BY SlotOfType DEF TaskTypes, Enqueue
<1>2. status' \in [Tasks -> Statuses]
  BY DEF TaskTypes, Enqueue, Statuses
<1>3. queue' \in Seq(Tasks)
  BY DEF TaskTypes, Enqueue
<1> QED BY <1>1, <1>2, <1>3

(* Initially every variable has its type and every worker is idle.          *)
LEMMA InitTypeInv == Init => TypeInv
<1> SUFFICES ASSUME Init PROVE TypeInv OBVIOUS
<1>1. SocketTypes
  BY DEF Init, SocketTypes
<1>2. WireTypes
  <2>1. <<>> \in Seq(Cmds) OBVIOUS
  <2> QED BY <2>1 DEF Init, WireTypes
<1>3. TaskTypes
  <2>1. <<>> \in Seq(Tasks) OBVIOUS
  <2> QED BY <2>1 DEF Init, TaskTypes, Statuses, Results
<1>4. UiTypes
  BY DEF Init, UiTypes
<1>5. WorkerTypes
  BY CommandSessionAssumption DEF Init, WorkerTypes, Pcs
<1>6. PcInv
  BY CommandSessionAssumption DEF Init, PcInv, CommandPcs, AllConnectPcs, TriedAllPcs, ExchangePcs, ConnectPcs
<1> QED BY <1>1, <1>2, <1>3, <1>4, <1>5, <1>6 DEF TypeInv, TypeOK

(* A crash stops every worker and leaves the rest as it was.                *)
LEMMA CrashTypeInv == TypeInv /\ Crash => TypeInv'
<1> SUFFICES ASSUME TypeInv, Crash PROVE TypeInv' OBVIOUS
<1> USE DEF TypeInv, TypeOK, Crash, sockVars, wireVars, taskVars
<1>1. SocketTypes' BY DEF SocketTypes
<1>2. WireTypes' BY DEF WireTypes
<1>3. TaskTypes' BY DEF TaskTypes
<1>4. UiTypes' BY DEF UiTypes
<1>5. WorkerTypes' BY DEF WorkerTypes, Pcs
<1>6. PcInv' BY DEF PcInv, CommandPcs, AllConnectPcs, TriedAllPcs, ExchangePcs, ConnectPcs
<1> QED BY <1>1, <1>2, <1>3, <1>4, <1>5, <1>6

(* The UI thread's steps keep the types.                                    *)
LEMMA UiTypeInv == TypeInv /\ (UserAction \/ UiStep) => TypeInv'
<1> SUFFICES ASSUME TypeInv, UserAction \/ UiStep PROVE TypeInv' OBVIOUS
<1>0. ASSUME SocketTypes', WireTypes', TaskTypes', UiTypes', UNCHANGED workVars PROVE TypeInv'
  BY <1>0 DEF TypeInv, TypeOK, WorkerTypes, PcInv, workVars
<1>1. ASSUME NEW c \in Cmds, IssueReplacing(c) PROVE TypeInv'
  <2>1. TaskTypes'
    BY <1>1, EnqueueTypes, CancelInType
    DEF IssueReplacing, TypeInv, TypeOK, TaskTypes, Tasks
  <2> QED BY <2>1, <1>0, <1>1
    DEF IssueReplacing, TypeInv, TypeOK, SocketTypes, WireTypes, UiTypes, sockVars, wireVars, uiVars
<1>2. ASSUME NEW c \in Cmds, IssueSort(c) PROVE TypeInv'
  <2>1. TaskTypes'
    BY <1>2, EnqueueTypes DEF IssueSort, TypeInv, TypeOK, TaskTypes, Tasks
  <2> QED BY <2>1, <1>0, <1>2
    DEF IssueSort, TypeInv, TypeOK, SocketTypes, WireTypes, UiTypes, sockVars, wireVars, uiVars
<1>3. ASSUME NEW c \in Cmds, IssueAdd(c) PROVE TypeInv'
  <2>1. ASSUME Enqueue(c) PROVE TaskTypes'
    BY <2>1, <1>3, EnqueueTypes DEF IssueAdd, TypeInv, TypeOK, TaskTypes, Tasks
  <2>2. ASSUME status' = [status EXCEPT ![c] = "dropped"], UNCHANGED <<field, queue>>
       PROVE  TaskTypes'
    BY <2>2, <1>3 DEF IssueAdd, TypeInv, TypeOK, TaskTypes, Tasks, Statuses
  <2>3. TaskTypes'
    BY <2>1, <2>2, <1>3 DEF IssueAdd
  <2> QED BY <2>3, <1>0, <1>3
    DEF IssueAdd, TypeInv, TypeOK, SocketTypes, WireTypes, UiTypes, sockVars, wireVars, uiVars
<1>4. ASSUME NEW k \in Connects, IssueConnect(k) PROVE TypeInv'
  <2>1. TaskTypes'
    BY <1>4, EnqueueTypes, CancelInType
    DEF IssueConnect, TypeInv, TypeOK, TaskTypes, Tasks
  <2> QED BY <2>1, <1>0, <1>4
    DEF IssueConnect, TypeInv, TypeOK, SocketTypes, WireTypes, UiTypes, sockVars, wireVars, uiVars
<1>5. ASSUME NEW next \in Connects \cup {None}, UserDisconnect(next) PROVE TypeInv'
  <2>1. TaskTypes'
    BY <1>5, CancelInType
    DEF UserDisconnect, BeginDisconnect, TypeInv, TypeOK, TaskTypes
  <2> QED BY <2>1, <1>0, <1>5
    DEF UserDisconnect, BeginDisconnect, TypeInv, TypeOK, SocketTypes, WireTypes, UiTypes,
        sockVars, wireVars
<1>6. CASE DisconnectCheck
  BY <1>0, <1>6 DEF DisconnectCheck, TypeInv, TypeOK, SocketTypes, WireTypes, TaskTypes, UiTypes,
     sockVars, wireVars, taskVars
<1>7. CASE DisconnectClose
  <2>1. <<>> \in Seq(Cmds) OBVIOUS
  <2> QED BY <2>1, <1>0, <1>7
    DEF DisconnectClose, Close, TypeInv, TypeOK, SocketTypes, WireTypes, TaskTypes, UiTypes, taskVars
<1>8. CASE DisconnectCloseNull
  BY <1>8, CrashTypeInv DEF DisconnectCloseNull
<1>9. CASE DisconnectNull
  BY <1>0, <1>9 DEF DisconnectNull, TypeInv, TypeOK, SocketTypes, WireTypes, TaskTypes, UiTypes,
     wireVars, taskVars
<1>10. CASE AfterDisconnect
  <2>1. ASSUME uiThen \in Connects, cancelled' = cancelled \cup CancelIn({"connectTask"}),
              Enqueue(uiThen)
       PROVE  TaskTypes'
    BY <2>1, <1>10, EnqueueTypes, CancelInType
    DEF AfterDisconnect, TypeInv, TypeOK, TaskTypes, Tasks
  <2>2. ASSUME UNCHANGED <<cancelled, field, status, queue>> PROVE TaskTypes'
    BY <2>2, <1>10 DEF AfterDisconnect, TypeInv, TypeOK, TaskTypes
  <2>3. TaskTypes'
    BY <2>1, <2>2, <1>10 DEF AfterDisconnect
  <2> QED BY <2>3, <1>0, <1>10
    DEF AfterDisconnect, TypeInv, TypeOK, SocketTypes, WireTypes, UiTypes, sockVars, wireVars
<1>11. CASE FinishTask
  <2>1. uiQueue \in Seq(Tasks) /\ uiQueue # <<>>
    BY <1>11 DEF FinishTask, TypeInv, TypeOK, TaskTypes
  <2>2. Head(uiQueue) \in Tasks /\ Tail(uiQueue) \in Seq(Tasks)
    BY <2>1, HeadTailProperties
  <2>3. TaskTypes' /\ UiTypes'
    BY <2>2, <1>11, CancelInType
    DEF FinishTask, BeginDisconnect, TypeInv, TypeOK, TaskTypes, UiTypes, Statuses
  <2> QED BY <2>3, <1>0, <1>11
    DEF FinishTask, TypeInv, TypeOK, SocketTypes, WireTypes, sockVars, wireVars
<1> QED BY <1>1, <1>2, <1>3, <1>4, <1>5, <1>6, <1>7, <1>8, <1>9, <1>10, <1>11 DEF UserAction, UiStep

(* When doInBackground returns, its result is posted and the worker is idle. *)
LEMMA ReturnTypes ==
  ASSUME TypeInv, NEW w \in Workers, pc[w] \in CommandPcs \cup AllConnectPcs,
         NEW r \in Results, Return(w, r), ElseUnchanged
  PROVE  TaskTypes' /\ UiTypes' /\ WorkerTypes' /\ PcInv'
<1>1. cur[w] \in Tasks
  BY DEF TypeInv, PcInv, Tasks
<1>2. TaskTypes'
  BY <1>1 DEF Return, ElseUnchanged, taskVars, TypeInv, TypeOK, TaskTypes, Statuses
<1>3. UiTypes'
  BY DEF ElseUnchanged, uiVars, TypeInv, TypeOK, UiTypes
<1>4. WorkerTypes'
  BY CommandSessionAssumption DEF Return, ForgetLocals, TypeInv, TypeOK, WorkerTypes, Pcs
<1>5. PcInv'
  BY CommandSessionAssumption
  DEF Return, ForgetLocals, TypeInv, TypeOK, WorkerTypes, PcInv, CommandPcs, AllConnectPcs, TriedAllPcs,
         ExchangePcs, ConnectPcs
<1> QED BY <1>2, <1>3, <1>4, <1>5

(* A step inside doInBackground leaves the tasks alone.                      *)
LEMMA StayTypes ==
  ASSUME TypeInv, NotReturning, ElseUnchanged
  PROVE  TaskTypes' /\ UiTypes'
  BY DEF TypeInv, TypeOK, TaskTypes, UiTypes, NotReturning, ElseUnchanged, taskVars, uiVars

(* A step to another label keeps the workers' types when the label suits the *)
(* task that the worker runs.                                                *)
LEMMA GotoTypes ==
  ASSUME TypeInv, NEW w \in Workers, NEW label \in CommandPcs \cup AllConnectPcs,
         Goto(w, label), UNCHANGED <<cur, tries>>,
         \/ pc[w] \in CommandPcs /\ label \in CommandPcs
         \/ pc[w] \in AllConnectPcs /\ label \in AllConnectPcs,
         pc[w] \notin TriedAllPcs \/ label \in TriedAllPcs
  PROVE  pc' \in [Workers -> Pcs] /\ PcInv'
  BY DEF Goto, TypeInv, TypeOK, WorkerTypes, PcInv, CommandPcs, AllConnectPcs, TriedAllPcs, ExchangePcs,
         ConnectPcs, Pcs

(* A call of processSocket_SendReceive that fails a try counts it, at most    *)
(* MaxTries times.                                                           *)
LEMMA FailTryTypes ==
  ASSUME TypeInv, NEW w \in Workers, pc[w] \in {"send", "read"}, FailTry(w),
         UNCHANGED <<cur, mySock, buf>>
  PROVE  WorkerTypes' /\ PcInv' /\ isProcessingData' \in BOOLEAN
<1>1. tries[w] \in Nat /\ tries[w] < MaxTries /\ MaxTries \in Nat
  BY CommandSessionAssumption DEF TypeInv, TypeOK, WorkerTypes, PcInv, TriedAllPcs
<1>2. tries' \in [Workers -> 0 .. MaxTries]
  BY <1>1 DEF FailTry, TypeInv, TypeOK, WorkerTypes
<1>3. pc' \in [Workers -> Pcs]
  BY DEF FailTry, Goto, TypeInv, TypeOK, WorkerTypes, Pcs, ExchangePcs
<1>4. PcInv'
  BY <1>1 DEF FailTry, Goto, TypeInv, TypeOK, WorkerTypes, PcInv, CommandPcs, AllConnectPcs, TriedAllPcs,
              ExchangePcs, ConnectPcs
<1>5. isProcessingData' \in BOOLEAN
  BY DEF FailTry, TypeInv, TypeOK, SocketTypes
<1> QED BY <1>2, <1>3, <1>4, <1>5 DEF TypeInv, TypeOK, WorkerTypes

(* What is left of the types after the three helpers.                        *)
LEMMA ExchangeTypeInv == ASSUME NEW w \in Workers, TypeInv, ExchangeStep(w) PROVE TypeInv'
<1> USE DEF TypeInv, TypeOK
<1>1. CASE CheckSocket(w)
  <2>1. CASE Return(w, "disconnected")
    BY <1>1, <2>1, ReturnTypes
    DEF CheckSocket, CommandPcs, Results, SocketTypes, WireTypes, sockVars, wireVars
  <2>2. CASE Goto(w, "connected") /\ NotReturning /\ UNCHANGED <<cur, mySock, tries, buf>>
    BY <1>1, <2>2, StayTypes, GotoTypes
    DEF CheckSocket, CommandPcs, TriedAllPcs, SocketTypes, WireTypes, WorkerTypes, sockVars, wireVars
  <2> QED BY <1>1, <2>1, <2>2 DEF CheckSocket
<1>2. CASE CheckConnected(w)
  <2>1. CASE Return(w, "disconnected")
    BY <1>2, <2>1, ReturnTypes
    DEF CheckConnected, CommandPcs, Results, SocketTypes, WireTypes, sockVars, wireVars
  <2>2. ASSUME NEW label \in {"danceSend", "call"}, Goto(w, label), NotReturning,
               UNCHANGED <<cur, mySock, tries, buf>>
        PROVE  TypeInv'
    BY <1>2, <2>2, StayTypes, GotoTypes
    DEF CheckConnected, CommandPcs, ExchangePcs, TriedAllPcs, SocketTypes, WireTypes, WorkerTypes, sockVars,
        wireVars
  <2> QED BY <1>2, <2>1, <2>2 DEF CheckConnected
<1>3. CASE CheckConnectedNull(w)
  BY <1>3, CrashTypeInv DEF CheckConnectedNull
<1>4. CASE CallExchange(w)
  <2>1. CASE Return(w, "busy")
    BY <1>4, <2>1, ReturnTypes
    DEF CallExchange, CommandPcs, Results, SocketTypes, WireTypes, sockVars, wireVars
  <2>2. CASE /\ mySock' = [mySock EXCEPT ![w] = clientSocket]
             /\ Goto(w, "take") /\ NotReturning /\ UNCHANGED <<cur, tries, buf>>
    BY <1>4, <2>2, StayTypes, GotoTypes
    DEF CallExchange, CommandPcs, ExchangePcs, TriedAllPcs, SocketTypes, WireTypes, WorkerTypes,
        sockVars, wireVars
  <2> QED BY <1>4, <2>1, <2>2 DEF CallExchange
<1>5. CASE TakeLock(w)
  BY <1>5, StayTypes, GotoTypes
  DEF TakeLock, CommandPcs, TriedAllPcs, ExchangePcs, SocketTypes, WireTypes, WorkerTypes, sockVars,
      wireVars
<1>6. CASE SendPackage(w)
  <2>1. mySock[w] \in Connects
    BY <1>6 DEF SendPackage, Writable, WorkerTypes
  <2>2. cur[w] \in Cmds
    BY <1>6 DEF SendPackage, PcInv, CommandPcs, ExchangePcs
  <2>3. toBox' \in [Connects -> Seq(Cmds)]
    BY <1>6, <2>1, <2>2 DEF SendPackage, Deliver, WireTypes
  <2>4. toApp' \in [Connects -> Seq(Cmds)]
    <3>1. <<>> \in Seq(Cmds) OBVIOUS
    <3> QED BY <1>6, <3>1 DEF SendPackage, WireTypes
  <2>5. buf' \in [Workers -> Cmds \cup {None}]
    <3>1. toApp[mySock[w]] # <<>> => Head(toApp[mySock[w]]) \in Cmds
      BY <2>1, HeadTailProperties DEF WireTypes
    <3> QED BY <1>6, <3>1 DEF SendPackage, WorkerTypes
  <2>6. pc' \in [Workers -> Pcs] /\ PcInv'
    BY <1>6, GotoTypes DEF SendPackage, CommandPcs, ExchangePcs, TriedAllPcs
  <2> QED BY <1>6, <2>3, <2>4, <2>5, <2>6, StayTypes
    DEF SendPackage, SocketTypes, WireTypes, WorkerTypes, sockVars
<1>7. CASE WriteFails(w)
  BY <1>7, StayTypes, FailTryTypes DEF WriteFails, SocketTypes, WireTypes, sockVars, wireVars
<1>8. CASE ReadFails(w)
  BY <1>8, StayTypes, FailTryTypes DEF ReadFails, SocketTypes, WireTypes, sockVars, wireVars
<1>9. CASE ReadReply(w)
  <2>1. <<>> \in Seq(Cmds) OBVIOUS
  <2>2. Parse(cur[w], Head(toApp[mySock[w]])) \in Results
    BY DEF Parse, Results
  <2> QED BY <1>9, <2>1, <2>2, ReturnTypes
    DEF ReadReply, CommandPcs, ExchangePcs, SocketTypes, WireTypes, sockVars
<1>10. CASE ReadEnd(w)
  <2>1. Parse(cur[w], buf[w]) \in Results
    BY DEF Parse, Results
  <2> QED BY <1>10, <2>1, ReturnTypes
    DEF ReadEnd, CommandPcs, ExchangePcs, SocketTypes, WireTypes, sockVars, wireVars
<1>11. CASE GiveUp(w)
  <2>1. CASE Return(w, "disconnected")
    BY <1>11, <2>1, ReturnTypes
    DEF GiveUp, CommandPcs, ExchangePcs, Results, SocketTypes, WireTypes, sockVars, wireVars
  <2>2. CASE Goto(w, "close") /\ NotReturning /\ UNCHANGED <<cur, mySock, tries, buf>>
    BY <1>11, <2>2, StayTypes, GotoTypes
    DEF GiveUp, CommandPcs, ExchangePcs, TriedAllPcs, SocketTypes, WireTypes, WorkerTypes, sockVars,
        wireVars
  <2> QED BY <1>11, <2>1, <2>2 DEF GiveUp
<1>12. CASE CloseSocket(w)
  <2>1. <<>> \in Seq(Cmds) OBVIOUS
  <2> QED BY <1>12, <2>1, StayTypes, GotoTypes
    DEF CloseSocket, Close, CommandPcs, ExchangePcs, TriedAllPcs, SocketTypes, WireTypes, WorkerTypes
<1>13. CASE CloseSocketNull(w)
  BY <1>13, CrashTypeInv DEF CloseSocketNull
<1>14. CASE DropSocket(w)
  BY <1>14, ReturnTypes
  DEF DropSocket, CommandPcs, ExchangePcs, Results, SocketTypes, WireTypes, wireVars
<1>15. CASE DanceSend(w)
  <2>1. CASE Return(w, "ok") /\ UNCHANGED <<toBox, toApp>>
    BY <1>15, <2>1, ReturnTypes
    DEF DanceSend, CommandPcs, Results, SocketTypes, WireTypes, sockVars
  <2>2. CASE /\ Writable(clientSocket)
             /\ toBox' = Deliver(w, clientSocket)
             /\ toApp' = [toApp EXCEPT ![clientSocket] = <<>>]
             /\ mySock' = [mySock EXCEPT ![w] = clientSocket]
             /\ Goto(w, "danceRead") /\ NotReturning /\ UNCHANGED <<cur, tries, buf>>
    <3>1. cur[w] \in Cmds
      BY <1>15 DEF DanceSend, PcInv, CommandPcs
    <3>2. <<>> \in Seq(Cmds) OBVIOUS
    <3>3. WireTypes'
      BY <1>15, <2>2, <3>1, <3>2 DEF DanceSend, Deliver, Writable, SocketTypes, WireTypes
    <3> QED BY <1>15, <2>2, <3>3, StayTypes, GotoTypes
      DEF DanceSend, CommandPcs, TriedAllPcs, SocketTypes, WorkerTypes, sockVars
  <2> QED BY <1>15, <2>1, <2>2 DEF DanceSend
<1>16. CASE DanceRead(w)
  <2>1. <<>> \in Seq(Cmds) OBVIOUS
  <2> QED BY <1>16, <2>1, ReturnTypes
    DEF DanceRead, CommandPcs, Results, SocketTypes, WireTypes, sockVars
<1> QED BY <1>1, <1>2, <1>3, <1>4, <1>5, <1>6, <1>7, <1>8, <1>9, <1>10, <1>11, <1>12, <1>13, <1>14,
           <1>15, <1>16 DEF ExchangeStep

(* The steps of a connect keep the types.                                     *)
LEMMA ConnectTypeInv == ASSUME NEW w \in Workers, TypeInv, ConnectStep(w) PROVE TypeInv'
<1> USE DEF TypeInv, TypeOK
<1>1. CASE ConnectCheck(w)
  BY <1>1, StayTypes, GotoTypes
  DEF ConnectCheck, AllConnectPcs, ConnectPcs, TriedAllPcs, SocketTypes, WireTypes, WorkerTypes,
      sockVars, wireVars
<1>2. CASE ConnectIsConnected(w)
  <2>1. CASE Return(w, "existed")
    BY <1>2, <2>1, ReturnTypes
    DEF ConnectIsConnected, AllConnectPcs, Results, SocketTypes, WireTypes, sockVars, wireVars
  <2>2. CASE Goto(w, "cNew") /\ NotReturning /\ UNCHANGED <<cur, mySock, tries, buf>>
    BY <1>2, <2>2, StayTypes, GotoTypes
    DEF ConnectIsConnected, AllConnectPcs, ConnectPcs, TriedAllPcs, SocketTypes, WireTypes,
        WorkerTypes, sockVars, wireVars
  <2> QED BY <1>2, <2>1, <2>2 DEF ConnectIsConnected
<1>3. CASE NewSocket(w)
  <2>1. cur[w] \in Connects
    BY <1>3 DEF NewSocket, PcInv, AllConnectPcs, ConnectPcs
  <2> QED BY <1>3, <2>1, StayTypes, GotoTypes
    DEF NewSocket, AllConnectPcs, ConnectPcs, TriedAllPcs, SocketTypes, WireTypes, WorkerTypes,
        wireVars
<1>4. CASE StartConnect(w)
  BY <1>4, StayTypes, GotoTypes
  DEF StartConnect, AllConnectPcs, ConnectPcs, TriedAllPcs, SocketTypes, WireTypes, WorkerTypes,
      sockVars, wireVars
<1>5. CASE ConnectSucceeds(w)
  BY <1>5, StayTypes, GotoTypes
  DEF ConnectSucceeds, AllConnectPcs, ConnectPcs, TriedAllPcs, SocketTypes, WireTypes, WorkerTypes,
      wireVars
<1>6. CASE ConnectFails(w)
  BY <1>6, ReturnTypes
  DEF ConnectFails, AllConnectPcs, ConnectPcs, Results, SocketTypes, WireTypes, wireVars
<1>7. CASE SetSoTimeout(w)
  <2>1. CASE clientSocket' = None /\ Return(w, "disconnected")
    BY <1>7, <2>1, ReturnTypes
    DEF SetSoTimeout, AllConnectPcs, ConnectPcs, Results, SocketTypes, WireTypes, wireVars
  <2>2. CASE Goto(w, "cShake") /\ NotReturning /\ UNCHANGED <<clientSocket, cur, mySock, tries, buf>>
    BY <1>7, <2>2, StayTypes, GotoTypes
    DEF SetSoTimeout, AllConnectPcs, ConnectPcs, TriedAllPcs, SocketTypes, WireTypes, WorkerTypes,
        wireVars
  <2> QED BY <1>7, <2>1, <2>2 DEF SetSoTimeout
<1>8. CASE Handshake(w)
  <2>1. PICK r \in {"disconnected", "invalid", "connected", "authenticated"} : Return(w, r)
    BY <1>8 DEF Handshake
  <2>2. TaskTypes' /\ UiTypes' /\ WorkerTypes' /\ PcInv'
    BY <1>8, <2>1, ReturnTypes DEF Handshake, AllConnectPcs, ConnectPcs, Results
  <2>3. SocketTypes' /\ WireTypes'
    BY <1>8 DEF Handshake, SocketTypes, WireTypes, wireVars
  <2> QED BY <2>2, <2>3
<1>9. CASE ConnectNull(w)
  BY <1>9, CrashTypeInv DEF ConnectNull
<1> QED BY <1>1, <1>2, <1>3, <1>4, <1>5, <1>6, <1>7, <1>8, <1>9 DEF ConnectStep

(* The executor starts or skips the first task of its queue.                  *)
LEMMA StartTypeInv == ASSUME NEW w \in Workers, TypeInv, StartTask(w) PROVE TypeInv'
<1> USE DEF TypeInv, TypeOK
<1> DEFINE t == Head(queue)
<1>1. t \in Tasks /\ Tail(queue) \in Seq(Tasks)
  BY HeadTailProperties DEF StartTask, TaskTypes
<1>2. TaskTypes'
  BY <1>1 DEF StartTask, TaskTypes, Statuses, taskVars
<1>3. WorkerTypes' /\ PcInv'
  <2>1. CASE t \in cancelled
    BY <2>1 DEF StartTask, WorkerTypes, PcInv, workVars
  <2>2. CASE t \notin cancelled
    <3>1. WorkerTypes'
      BY <1>1, <2>2 DEF StartTask, WorkerTypes, Pcs
    <3>2. pc[w] = "idle"
      BY DEF StartTask, ExecutorFree
    <3>3. PcInv'
      BY <1>1, <2>2, <3>2
      DEF StartTask, WorkerTypes, PcInv, CommandPcs, AllConnectPcs, TriedAllPcs, ExchangePcs,
          ConnectPcs, Tasks
    <3> QED BY <3>1, <3>3
  <2> QED BY <2>1, <2>2
<1>4. SocketTypes' /\ WireTypes' /\ UiTypes'
  BY DEF StartTask, SocketTypes, WireTypes, UiTypes, sockVars, wireVars, uiVars
<1> QED BY <1>2, <1>3, <1>4

(* The box executes a request, or closes its end.                             *)
LEMMA BoxTypeInv == ASSUME NEW k \in Connects, TypeInv, BoxExecutes(k) \/ BoxCloses(k) PROVE TypeInv'
<1> USE DEF TypeInv, TypeOK
<1>1. SocketTypes'
  BY DEF BoxExecutes, BoxCloses, SocketTypes, sockVars
<1>2. WireTypes'
  <2>1. CASE BoxExecutes(k)
    <3>1. Head(toBox[k]) \in Cmds /\ Tail(toBox[k]) \in Seq(Cmds)
      BY <2>1, HeadTailProperties DEF BoxExecutes, WireTypes
    <3> QED BY <2>1, <3>1 DEF BoxExecutes, WireTypes
  <2>2. CASE BoxCloses(k)
    BY <2>2 DEF BoxCloses, WireTypes, wireVars
  <2> QED BY <2>1, <2>2
<1>3. TaskTypes' /\ UiTypes' /\ WorkerTypes' /\ PcInv'
  BY DEF BoxExecutes, BoxCloses, TaskTypes, UiTypes, WorkerTypes, PcInv, taskVars, workVars, uiVars
<1> QED BY <1>1, <1>2, <1>3

(* TypeInv is inductive ...                                                   *)
LEMMA NextTypeInv == TypeInv /\ [Next]_vars => TypeInv'
<1> SUFFICES ASSUME TypeInv, [Next]_vars PROVE TypeInv' OBVIOUS
<1>1. CASE UserAction \/ UiStep
  BY <1>1, UiTypeInv
<1>2. CASE WorkerStep
  BY <1>2, StartTypeInv, ExchangeTypeInv, ConnectTypeInv DEF WorkerStep
<1>3. CASE BoxStep
  BY <1>3, BoxTypeInv DEF BoxStep
<1>4. CASE UNCHANGED vars
  BY <1>4 DEF vars, TypeInv, TypeOK, SocketTypes, WireTypes, TaskTypes, UiTypes, WorkerTypes, PcInv
<1> QED BY <1>1, <1>2, <1>3, <1>4 DEF Next

(* ... so every reachable state of the session is well typed: no task runs    *)
(* where its kind does not belong and no exchange leaves its MaxTries tries.  *)
THEOREM TypeCorrect == Spec => []TypeOK
<1>1. Spec => []TypeInv
  BY InitTypeInv, NextTypeInv, PTL DEF Spec
<1>2. TypeInv => TypeOK
  BY DEF TypeInv
<1> QED BY <1>1, <1>2, PTL

-----------------------------------------------------------------------------
(* The wire.  Three facts that are inductive together: one thread at a time   *)
(* (no more than the serial executor's own promise), which works on the socket *)
(* the field names, under the lock.                                           *)

Busy(w) == pc[w] \notin {"idle", "dead"}

OneTask == \A v, w \in Workers : Busy(v) /\ Busy(w) => v = w

WireInv == OneTask /\ ExchangePinsSocket /\ UnlockedMeansDying

LEMMA InitWireInv == Init => WireInv
  BY DEF Init, WireInv, OneTask, ExchangePinsSocket, UnlockedMeansDying, Busy, ExchangePcs

(* A crash leaves no exchange.                                                *)
LEMMA CrashWireInv == Crash => WireInv'
  BY DEF Crash, WireInv, OneTask, ExchangePinsSocket, UnlockedMeansDying, Busy, ExchangePcs

(* A worker that takes a step was busy, and it moves no other worker.         *)
LEMMA WorkerFrame ==
  ASSUME TypeInv, NEW w \in Workers, ExchangeStep(w) \/ ConnectStep(w), ~Crash
  PROVE  /\ Busy(w)
         /\ \A v \in Workers : v # w => pc'[v] = pc[v] /\ mySock'[v] = mySock[v]
<1> USE DEF Busy, TypeInv, TypeOK, WorkerTypes, Return, ForgetLocals, Goto
<1>1. CASE ExchangeStep(w)
  BY <1>1 DEF ExchangeStep, CheckSocket, CheckConnected, CheckConnectedNull, CallExchange, TakeLock,
     SendPackage, WriteFails, ReadFails, FailTry, ReadReply, ReadEnd, GiveUp, CloseSocket,
     CloseSocketNull, DropSocket, DanceSend, DanceRead
<1>2. CASE ConnectStep(w)
  BY <1>2 DEF ConnectStep, ConnectCheck, ConnectIsConnected, NewSocket, StartConnect,
     ConnectSucceeds, ConnectFails, SetSoTimeout, Handshake, ConnectNull
<1> QED BY <1>1, <1>2

(* While a worker is busy every other one is idle or dead, before and after   *)
(* its step.                                                                  *)
LEMMA OthersIdle ==
  ASSUME TypeInv, WireInv, NEW w \in Workers, ExchangeStep(w) \/ ConnectStep(w), ~Crash
  PROVE  \A v \in Workers : v # w => pc[v] \in {"idle", "dead"} /\ pc'[v] \in {"idle", "dead"}
  BY WorkerFrame DEF WireInv, OneTask, Busy

(* What the step of an exchange or a command must establish for the worker    *)
(* that takes it, the others being idle.                                      *)
LEMMA ExchangeWireInv ==
  ASSUME TypeInv, WireInv, NEW w \in Workers, ExchangeStep(w) PROVE WireInv'
<1>1. CASE Crash
  BY <1>1, CrashWireInv
<1>2. CASE ~Crash
  <2>1. \A v \in Workers : v # w => pc[v] \in {"idle", "dead"} /\ pc'[v] \in {"idle", "dead"}
    BY <1>2, OthersIdle
  <2>2. OneTask'
    BY <2>1 DEF OneTask, Busy
  <2>3. SUFFICES
          /\ pc'[w] \in ExchangePcs => clientSocket' \in {mySock'[w], None}
          /\ pc'[w] \in {"send", "read"} /\ ~isProcessingData' =>
               \/ uiPc' = "dcClose"
               \/ mySock'[w] = None
               \/ conn'[mySock'[w]] = "closed"
    BY <2>1, <2>2 DEF WireInv, ExchangePinsSocket, UnlockedMeansDying, ExchangePcs
  <2> USE DEF WireInv, ExchangePinsSocket, UnlockedMeansDying, TypeInv, TypeOK, SocketTypes,
              WorkerTypes, Goto, ExchangePcs, ElseUnchanged, sockVars, uiVars
  <2>4. ASSUME NEW r, Return(w, r) PROVE pc'[w] = "idle"
    BY <2>4 DEF Return, ForgetLocals
  <2>5. CASE CheckSocket(w) \/ CheckConnected(w)
    BY <2>4, <2>5 DEF CheckSocket, CheckConnected
  <2>6. CASE CallExchange(w) \/ TakeLock(w) \/ SendPackage(w)
    BY <2>4, <2>6 DEF CallExchange, TakeLock, SendPackage
  <2>7. CASE WriteFails(w) \/ ReadFails(w)
    BY <2>7 DEF WriteFails, ReadFails, FailTry
  <2>8. CASE ReadReply(w) \/ ReadEnd(w) \/ DropSocket(w) \/ DanceSend(w) \/ DanceRead(w)
    BY <2>4, <2>8 DEF ReadReply, ReadEnd, DropSocket, DanceSend, DanceRead
  <2>9. CASE GiveUp(w) \/ CloseSocket(w)
    BY <2>4, <2>9 DEF GiveUp, CloseSocket
  <2>10. CASE CheckConnectedNull(w) \/ CloseSocketNull(w)
    BY <1>2, <2>10 DEF CheckConnectedNull, CloseSocketNull
  <2> QED BY <2>5, <2>6, <2>7, <2>8, <2>9, <2>10 DEF ExchangeStep
<1> QED BY <1>1, <1>2

(* A connect may change the field and the sockets: no exchange runs then.     *)
LEMMA ConnectWireInv ==
  ASSUME TypeInv, WireInv, NEW w \in Workers, ConnectStep(w) PROVE WireInv'
<1>1. CASE Crash
  BY <1>1, CrashWireInv
<1>2. CASE ~Crash
  <2>1. \A v \in Workers : v # w => pc[v] \in {"idle", "dead"} /\ pc'[v] \in {"idle", "dead"}
    BY <1>2, OthersIdle
  <2>2. pc'[w] \in AllConnectPcs \cup {"idle"}
    BY <1>2 DEF TypeInv, TypeOK, WorkerTypes, ConnectStep, ConnectCheck, ConnectIsConnected, NewSocket,
       StartConnect, ConnectSucceeds, ConnectFails, SetSoTimeout, Handshake, ConnectNull, Return,
       ForgetLocals, Goto, AllConnectPcs, ConnectPcs
  <2> QED BY <2>1, <2>2 DEF WireInv, OneTask, ExchangePinsSocket, UnlockedMeansDying, Busy,
              ExchangePcs, AllConnectPcs, ConnectPcs
<1> QED BY <1>1, <1>2

(* The serial executor starts a task only when no other one runs.             *)
LEMMA StartWireInv ==
  ASSUME TypeInv, WireInv, NEW w \in Workers, StartTask(w) PROVE WireInv'
<1>1. \A v \in Workers : v # w => pc'[v] = "idle"
  BY DEF StartTask, ExecutorFree, workVars, TypeInv, TypeOK, WorkerTypes
<1>2. pc'[w] \in {"idle", "cCheck", "check"}
  BY DEF StartTask, ExecutorFree, workVars, TypeInv, TypeOK, WorkerTypes
<1> QED BY <1>1, <1>2
    DEF WireInv, OneTask, ExchangePinsSocket, UnlockedMeansDying, Busy, ExchangePcs

(* The UI thread clears the lock only when it is about to close the socket.   *)
LEMMA UiWireInv ==
  ASSUME TypeInv, WireInv, UserAction \/ UiStep PROVE WireInv'
<1> USE DEF WireInv, OneTask, ExchangePinsSocket, UnlockedMeansDying, Busy, sockVars, workVars,
            uiVars
<1>1. CASE UserAction
  <2>1. UNCHANGED <<clientSocket, conn, isProcessingData, pc, mySock>>
    BY <1>1 DEF UserAction, IssueReplacing, IssueSort, IssueAdd, IssueConnect, UserDisconnect
  <2>2. uiPc = "idle"
    BY <1>1 DEF UserAction, IssueReplacing, IssueSort, IssueAdd, IssueConnect, UserDisconnect
  <2> QED BY <2>1, <2>2
<1>2. CASE DisconnectCheck
  BY <1>2 DEF DisconnectCheck
<1>3. CASE DisconnectClose
  BY <1>3 DEF DisconnectClose, Close, TypeInv, TypeOK, SocketTypes, WorkerTypes, ExchangePcs
<1>4. CASE DisconnectCloseNull
  BY <1>4, CrashWireInv DEF DisconnectCloseNull
<1>5. CASE DisconnectNull
  BY <1>5 DEF DisconnectNull
<1>6. CASE AfterDisconnect
  BY <1>6 DEF AfterDisconnect
<1>7. CASE FinishTask
  BY <1>7 DEF FinishTask, BeginDisconnect
<1> QED BY <1>1, <1>2, <1>3, <1>4, <1>5, <1>6, <1>7 DEF UiStep

LEMMA NextWireInv == TypeInv /\ WireInv /\ [Next]_vars => WireInv'
<1> SUFFICES ASSUME TypeInv, WireInv, [Next]_vars PROVE WireInv' OBVIOUS
<1>1. CASE UserAction \/ UiStep
  BY <1>1, UiWireInv
<1>2. CASE WorkerStep
  BY <1>2, StartWireInv, ExchangeWireInv, ConnectWireInv DEF WorkerStep
<1>3. CASE BoxStep
  BY <1>3 DEF BoxStep, BoxExecutes, BoxCloses, WireInv, OneTask, ExchangePinsSocket,
     UnlockedMeansDying, Busy, sockVars, workVars, uiVars, TypeInv, TypeOK, SocketTypes, WorkerTypes
<1>4. CASE UNCHANGED vars
  BY <1>4 DEF vars, WireInv, OneTask, ExchangePinsSocket, UnlockedMeansDying, Busy
<1> QED BY <1>1, <1>2, <1>3, <1>4 DEF Next

(* An exchange that closes and nulls the field clientSocket never hits the    *)
(* socket of a session that was opened after it started.                      *)
THEOREM SocketPinned == Spec => []ExchangePinsSocket
<1>1. Spec => [](TypeInv /\ WireInv)
  BY InitTypeInv, NextTypeInv, InitWireInv, NextWireInv, PTL DEF Spec
<1>2. WireInv => ExchangePinsSocket
  BY DEF WireInv
<1> QED BY <1>1, <1>2, PTL

(* isProcessingData is held while bytes travel on a socket that nobody is     *)
(* about to close.                                                            *)
THEOREM LockHeld == Spec => []UnlockedMeansDying
<1>1. Spec => [](TypeInv /\ WireInv)
  BY InitTypeInv, NextTypeInv, InitWireInv, NextWireInv, PTL DEF Spec
<1>2. WireInv => UnlockedMeansDying
  BY DEF WireInv
<1> QED BY <1>1, <1>2, PTL

-----------------------------------------------------------------------------
(* The tasks.  A task that can still call back is the one its field holds;    *)
(* that needs the queues to hold what their names say.                        *)

\* A live task that some field keeps is in that field.
FieldHoldsLive ==
    \A t \in Tasks : Tracked(t) /\ Live(t) => field[SlotOf(t)] = t

\* The executor's queue holds tasks that wait to be started, each once.
QueueInv ==
    /\ \A i \in 1 .. Len(queue) : status[queue[i]] = "queued"
    /\ \A i, j \in 1 .. Len(queue) : queue[i] = queue[j] => i = j

\* The looper's queue holds tasks that returned.
UiQueueInv ==
    \A i \in 1 .. Len(uiQueue) : status[uiQueue[i]] \in {"posted", "finished"}

\* A busy worker runs a running task.
RunInv == \A w \in Workers : Busy(w) => status[cur[w]] = "running"

\* What a disconnect left behind had been issued before it; what its caller is
\* about to issue had not.
IssuedInv ==
    /\ \A t \in stale : status[t] # "new"
    /\ uiPc \in {"dcCheck", "dcClose", "dcNull", "connect"} /\ uiThen \in Connects =>
         status[uiThen] = "new"

TaskInv ==
    /\ FieldHoldsLive /\ QueueInv /\ UiQueueInv /\ RunInv /\ IssuedInv
    /\ LiveTasksAreOfThisSession

LEMMA InitTaskInv == Init => TaskInv
  BY DEF Init, TaskInv, FieldHoldsLive, QueueInv, UiQueueInv, RunInv, IssuedInv, Busy, Live, Unresolved,
         LiveTasksAreOfThisSession

(* A step that moves no task through its life cycle.                          *)
LEMMA TaskFrame ==
  ASSUME TypeInv, TaskInv, UNCHANGED <<field, status, cancelled, stale, queue, uiQueue>>,
         uiPc' = uiPc \/ uiPc' \in {"idle", "dead"} \/ uiPc \in {"dcCheck", "dcClose", "dcNull"},
         UNCHANGED uiThen,
         \A w \in Workers : Busy(w)' => Busy(w) /\ cur'[w] = cur[w]
  PROVE  TaskInv'
<1>1. FieldHoldsLive' /\ LiveTasksAreOfThisSession'
  BY DEF TaskInv, FieldHoldsLive, LiveTasksAreOfThisSession, Live, Unresolved
<1>2. QueueInv' /\ UiQueueInv'
  BY DEF TaskInv, QueueInv, UiQueueInv
<1>3. RunInv'
  BY DEF TaskInv, RunInv
<1>4. IssuedInv'
  BY DEF TaskInv, IssuedInv
<1> QED BY <1>1, <1>2, <1>3, <1>4 DEF TaskInv

(* A new task replaces every live one of its field.                           *)
LEMMA EnqueueTaskInv ==
  ASSUME TypeInv, TaskInv, NEW t \in Tasks, status[t] = "new", Enqueue(t),
         cancelled \subseteq cancelled',
         Tracked(t) => \A u \in Tasks : Tracked(u) /\ Live(u) /\ SlotOf(u) = SlotOf(t) => u \in cancelled',
         UNCHANGED <<uiQueue, pc, cur, stale>>, uiPc' = "idle"
  PROVE  TaskInv'
<1> USE DEF TypeInv, TypeOK, TaskTypes, TaskInv
<1>1. status' = [status EXCEPT ![t] = "queued"] /\ status \in [Tasks -> Statuses]
  BY DEF Enqueue
<1>2. FieldHoldsLive'
  <2> SUFFICES ASSUME NEW u \in Tasks, Tracked(u), Live(u)' PROVE field'[SlotOf(u)] = u
    BY DEF FieldHoldsLive, Tracked, SlotOf
  <2>1. CASE u = t
    BY <2>1, SlotOfType DEF Enqueue
  <2>2. CASE u # t
    <3>1. Live(u) /\ u \notin cancelled'
      BY <1>1, <2>2 DEF Live, Unresolved
    <3>2. field[SlotOf(u)] = u
      BY <3>1 DEF FieldHoldsLive
    <3>3. Tracked(t) => SlotOf(u) # SlotOf(t)
      BY <3>1
    <3> QED BY <3>2, <3>3, SlotOfType DEF Enqueue
  <2> QED BY <2>1, <2>2
<1>3. LiveTasksAreOfThisSession'
  BY <1>1 DEF LiveTasksAreOfThisSession, IssuedInv, Live, Unresolved, Tracked
<1>4. QueueInv'
  <2>1. queue' = Append(queue, t) /\ queue \in Seq(Tasks)
    BY DEF Enqueue
  <2>2. \A i \in 1 .. Len(queue) : queue[i] # t /\ queue[i] \in Tasks
    BY <2>1 DEF QueueInv
  <2>3. /\ Len(queue') = Len(queue) + 1 /\ Len(queue) \in Nat
        /\ queue'[Len(queue) + 1] = t
        /\ \A i \in 1 .. Len(queue) : queue'[i] = queue[i]
    BY <2>1, AppendProperties, LenProperties
  <2>4. \A i \in 1 .. Len(queue') : i \in 1 .. Len(queue) \/ i = Len(queue) + 1
    BY <2>3
  <2>5. \A i \in 1 .. Len(queue') : status'[queue'[i]] = "queued"
    BY <1>1, <2>2, <2>3, <2>4 DEF QueueInv
  <2>6. \A i, j \in 1 .. Len(queue') : queue'[i] = queue'[j] => i = j
    BY <2>2, <2>3, <2>4 DEF QueueInv
  <2> QED BY <2>5, <2>6 DEF QueueInv
<1>5. UiQueueInv'
  <2>1. \A i \in 1 .. Len(uiQueue) : uiQueue[i] \in Tasks /\ uiQueue[i] # t
    BY DEF UiQueueInv
  <2> QED BY <1>1, <2>1 DEF UiQueueInv
<1>6. RunInv'
  BY <1>1 DEF RunInv, Busy, WorkerTypes
<1>7. IssuedInv'
  BY <1>1 DEF IssuedInv
<1> QED BY <1>2, <1>3, <1>4, <1>5, <1>6, <1>7

(* cancel(true) on the task of a field reaches every live task of that field. *)
LEMMA CancelReaches ==
  ASSUME TypeInv, TaskInv, NEW S, NEW u \in Tasks, Tracked(u), Live(u), SlotOf(u) \in S
  PROVE  u \in CancelIn(S)
  BY DEF TaskInv, FieldHoldsLive, CancelIn, Live

(* A disconnect leaves no live task that a field keeps.                       *)
LEMMA DisconnectTaskInv ==
  ASSUME TypeInv, TaskInv, NEW next \in Connects \cup {None}, BeginDisconnect(next),
         next \in Connects => status'[next] = "new",
         \/ status' = status
         \/ \E t \in Tasks : /\ status' = [status EXCEPT ![t] = "finished"]
                             /\ status[t] \in {"posted", "finished"},
         UNCHANGED <<queue, pc, cur>>,
         \A i \in 1 .. Len(uiQueue') : \E j \in 1 .. Len(uiQueue) : uiQueue'[i] = uiQueue[j]
  PROVE  TaskInv'
<1> USE DEF TypeInv, TypeOK, TaskTypes, TaskInv
<1>1. \A t \in Tasks : \/ status'[t] = status[t]
                       \/ status[t] \in {"posted", "finished"} /\ status'[t] = "finished"
  OBVIOUS
<1>2. \A u \in Tasks : ~(Tracked(u) /\ Live(u)')
  <2> SUFFICES ASSUME NEW u \in Tasks, Tracked(u), Live(u)' PROVE FALSE OBVIOUS
  <2>1. Live(u)
    BY <1>1 DEF Live, Unresolved, BeginDisconnect
  <2>2. u \in CancelIn(DisconnectCancels)
    BY <2>1, CancelReaches, SlotOfType DEF DisconnectCancels
  <2> QED BY <2>2 DEF BeginDisconnect, Live
<1>3. FieldHoldsLive' /\ LiveTasksAreOfThisSession'
  BY <1>2 DEF FieldHoldsLive, LiveTasksAreOfThisSession, Tracked
<1>4. QueueInv'
  <2>1. \A i \in 1 .. Len(queue) : queue[i] \in Tasks
    OBVIOUS
  <2> QED BY <1>1, <2>1 DEF QueueInv
<1>5. UiQueueInv'
  <2>1. \A i \in 1 .. Len(uiQueue) : uiQueue[i] \in Tasks
    OBVIOUS
  <2> QED BY <1>1, <2>1 DEF UiQueueInv
<1>6. RunInv'
  <2>1. \A w \in Workers : Busy(w) => cur[w] \in Tasks
    BY DEF PcInv, Busy, WorkerTypes, Pcs, CommandPcs, AllConnectPcs, Tasks
  <2> QED BY <1>1, <2>1 DEF RunInv, Busy
<1>7. IssuedInv'
  BY <1>1 DEF IssuedInv, BeginDisconnect, Unresolved
<1> QED BY <1>3, <1>4, <1>5, <1>6, <1>7

(* The UI thread's steps.                                                      *)
LEMMA UiTaskInv ==
  ASSUME TypeInv, TaskInv, UserAction \/ UiStep PROVE TaskInv'
<1> USE DEF Tasks, uiVars, workVars, taskVars
<1>1. ASSUME NEW c \in Cmds, IssueReplacing(c) PROVE TaskInv'
  <2>1. \A u \in Tasks : Tracked(u) /\ Live(u) /\ SlotOf(u) = SlotOf(c) => u \in CancelIn({SlotOf(c)})
    BY CancelReaches
  <2> QED BY <1>1, <2>1, EnqueueTaskInv DEF IssueReplacing
<1>2. ASSUME NEW c \in Cmds, IssueSort(c) PROVE TaskInv'
  <2>1. ~Tracked(c)
    BY <1>2, CommandSessionAssumption DEF IssueSort, Tracked
  <2> QED BY <1>2, <2>1, EnqueueTaskInv DEF IssueSort
<1>3. ASSUME NEW c \in Cmds, IssueAdd(c) PROVE TaskInv'
  <2>1. ASSUME FieldFree("playlistTask"), Enqueue(c) PROVE TaskInv'
    <3>1. SlotOf(c) = "playlistTask"
      BY <1>3, CommandSessionAssumption DEF IssueAdd, SlotOf
    <3>2. \A u \in Tasks : Tracked(u) /\ Live(u) => SlotOf(u) # "playlistTask"
      BY <2>1, CommandSessionAssumption DEF FieldFree, TaskInv, FieldHoldsLive, Live, Unresolved
    <3> QED BY <1>3, <2>1, <3>1, <3>2, EnqueueTaskInv DEF IssueAdd
  <2>2. ASSUME status' = [status EXCEPT ![c] = "dropped"], UNCHANGED <<field, queue>>
        PROVE  TaskInv'
    <3> USE DEF TaskInv, TypeInv, TypeOK, TaskTypes
    <3>1. \A u \in Tasks : status'[u] = status[u] \/ u = c
      BY <2>2
    <3>2. status[c] = "new" /\ status'[c] = "dropped"
      BY <1>3, <2>2 DEF IssueAdd
    <3>3. FieldHoldsLive' /\ LiveTasksAreOfThisSession'
      BY <1>3, <2>2, <3>1, <3>2
      DEF IssueAdd, FieldHoldsLive, LiveTasksAreOfThisSession, Live, Unresolved, Tracked, SlotOf
    <3>4. \A i \in 1 .. Len(queue) : queue[i] \in Tasks
      OBVIOUS
    <3>5. QueueInv'
      BY <1>3, <2>2, <3>1, <3>2, <3>4 DEF IssueAdd, QueueInv
    <3>6. \A i \in 1 .. Len(uiQueue) : uiQueue[i] \in Tasks
      OBVIOUS
    <3>7. UiQueueInv'
      BY <1>3, <3>1, <3>2, <3>6 DEF IssueAdd, UiQueueInv
    <3>8. \A w \in Workers : Busy(w) => cur[w] \in Tasks
      BY DEF PcInv, Busy, WorkerTypes, Pcs, CommandPcs, AllConnectPcs
    <3>9. RunInv'
      BY <1>3, <3>1, <3>2, <3>8 DEF IssueAdd, RunInv, Busy
    <3>10. IssuedInv'
      BY <1>3, <3>1, <3>2 DEF IssueAdd, IssuedInv
    <3> QED BY <3>3, <3>5, <3>7, <3>9, <3>10
  <2> QED BY <1>3, <2>1, <2>2 DEF IssueAdd
<1>4. ASSUME NEW k \in Connects, IssueConnect(k) PROVE TaskInv'
  <2>1. \A u \in Tasks : Tracked(u) /\ Live(u) /\ SlotOf(u) = SlotOf(k) => u \in CancelIn({"connectTask"})
    BY CancelReaches DEF SlotOf
  <2> QED BY <1>4, <2>1, EnqueueTaskInv DEF IssueConnect
<1>5. ASSUME NEW next \in Connects \cup {None}, UserDisconnect(next) PROVE TaskInv'
  BY <1>5, CommandSessionAssumption, DisconnectTaskInv DEF UserDisconnect
<1>6. CASE DisconnectCheck
  BY <1>6, TaskFrame DEF DisconnectCheck, Busy
<1>7. CASE DisconnectClose
  BY <1>7, TaskFrame DEF DisconnectClose, Busy
<1>8. CASE DisconnectCloseNull
  BY <1>8, TaskFrame DEF DisconnectCloseNull, Crash, Busy
<1>9. CASE DisconnectNull
  BY <1>9, TaskFrame DEF DisconnectNull, Busy
<1>10. CASE AfterDisconnect
  <2>1. ASSUME uiThen \in Connects, cancelled' = cancelled \cup CancelIn({"connectTask"}),
               Enqueue(uiThen)
        PROVE  TaskInv'
    <3>1. status[uiThen] = "new"
      BY <1>10, <2>1 DEF AfterDisconnect, TaskInv, IssuedInv
    <3>2. \A u \in Tasks : Tracked(u) /\ Live(u) /\ SlotOf(u) = SlotOf(uiThen)
                             => u \in CancelIn({"connectTask"})
      BY <2>1, CancelReaches DEF SlotOf
    <3> QED BY <1>10, <2>1, <3>1, <3>2, EnqueueTaskInv DEF AfterDisconnect
  <2>2. ASSUME uiThen = None, UNCHANGED <<cancelled, field, status, queue>> PROVE TaskInv'
    BY <1>10, <2>2, TaskFrame DEF AfterDisconnect, Busy
  <2> QED BY <1>10, <2>1, <2>2 DEF AfterDisconnect
<1>11. CASE FinishTask
  <2> DEFINE t == Head(uiQueue)
  <2>1. uiQueue \in Seq(Tasks) /\ uiQueue # <<>>
    BY <1>11 DEF FinishTask, TypeInv, TypeOK, TaskTypes
  <2>2. /\ t = uiQueue[1] /\ 1 \in 1 .. Len(uiQueue) /\ t \in Tasks
        /\ \A i \in 1 .. Len(Tail(uiQueue)) : i + 1 \in 1 .. Len(uiQueue) /\ Tail(uiQueue)[i] = uiQueue[i + 1]
    BY <2>1, HeadTailProperties
  <2>3. status[t] \in {"posted", "finished"} /\ status' = [status EXCEPT ![t] = "finished"]
    BY <1>11, <2>2 DEF FinishTask, TaskInv, UiQueueInv
  <2>4. \A i \in 1 .. Len(uiQueue') : \E j \in 1 .. Len(uiQueue) : uiQueue'[i] = uiQueue[j]
    BY <1>11, <2>2 DEF FinishTask
  <2>5. CASE BeginDisconnect(None)
    BY <1>11, <2>2, <2>3, <2>4, <2>5, CommandSessionAssumption, DisconnectTaskInv DEF FinishTask
  <2>6. CASE UNCHANGED <<cancelled, field, stale, uiPc, uiThen>>
    <3> USE DEF TaskInv, TypeInv, TypeOK, TaskTypes
    <3>1. \A u \in Tasks : \/ status'[u] = status[u]
                           \/ status[u] \in {"posted", "finished"} /\ status'[u] = "finished"
      BY <2>2, <2>3
    <3>2. FieldHoldsLive' /\ LiveTasksAreOfThisSession'
      BY <2>6, <3>1
      DEF FieldHoldsLive, LiveTasksAreOfThisSession, Live, Unresolved, Tracked, SlotOf
    <3>3. \A i \in 1 .. Len(queue) : queue[i] \in Tasks
      OBVIOUS
    <3>4. QueueInv'
      BY <1>11, <3>1, <3>3 DEF FinishTask, QueueInv
    <3>5. \A i \in 1 .. Len(uiQueue) : uiQueue[i] \in Tasks
      OBVIOUS
    <3>6. UiQueueInv'
      BY <2>4, <3>1, <3>5 DEF UiQueueInv
    <3>7. \A w \in Workers : Busy(w) => cur[w] \in Tasks
      BY DEF PcInv, Busy, WorkerTypes, Pcs, CommandPcs, AllConnectPcs
    <3>8. RunInv'
      BY <1>11, <3>1, <3>7 DEF FinishTask, RunInv, Busy
    <3>9. IssuedInv'
      BY <2>6, <3>1 DEF IssuedInv
    <3> QED BY <3>2, <3>4, <3>6, <3>8, <3>9
  <2> QED BY <1>11, <2>5, <2>6 DEF FinishTask
<1> QED BY <1>1, <1>2, <1>3, <1>4, <1>5, <1>6, <1>7, <1>8, <1>9, <1>10, <1>11 DEF UserAction, UiStep

(* The executor takes the task it starts, or skips, off its queue.             *)
LEMMA StartTaskInv ==
  ASSUME TypeInv, TaskInv, NEW w \in Workers, StartTask(w) PROVE TaskInv'
<1> USE DEF TaskInv, TypeInv, TypeOK, TaskTypes
<1> DEFINE t == Head(queue)
<1>1. queue \in Seq(Tasks) /\ queue # <<>> /\ queue' = Tail(queue)
  BY DEF StartTask
<1>2. /\ t = queue[1] /\ 1 \in 1 .. Len(queue) /\ t \in Tasks
      /\ \A i \in 1 .. Len(queue') : i + 1 \in 1 .. Len(queue) /\ queue'[i] = queue[i + 1]
  BY <1>1, HeadTailProperties
<1>3. status[t] = "queued"
  BY <1>2 DEF QueueInv
<1>4. /\ status'[t] \in {"running", "finished"}
      /\ \A u \in Tasks : u # t => status'[u] = status[u]
  BY <1>2 DEF StartTask
<1>5. \A i \in 1 .. Len(queue') : queue'[i] # t /\ queue'[i] \in Tasks
  <2> SUFFICES ASSUME NEW i \in 1 .. Len(queue') PROVE queue'[i] # t /\ queue'[i] \in Tasks OBVIOUS
  <2>1. i \in Nat /\ i >= 1
    OBVIOUS
  <2>2. i + 1 \in 1 .. Len(queue) /\ i + 1 # 1 /\ queue'[i] = queue[i + 1]
    BY <1>2, <2>1
  <2> QED BY <1>1, <1>2, <2>2 DEF QueueInv
<1>6. QueueInv'
  <2>1. \A i \in 1 .. Len(queue') : status'[queue'[i]] = "queued"
    BY <1>2, <1>4, <1>5 DEF QueueInv
  <2>2. ASSUME NEW i \in 1 .. Len(queue'), NEW j \in 1 .. Len(queue'), queue'[i] = queue'[j]
        PROVE  i = j
    <3>1. i + 1 = j + 1
      BY <1>2, <2>2 DEF QueueInv
    <3> QED BY <3>1
  <2> QED BY <2>1, <2>2 DEF QueueInv
<1>7. FieldHoldsLive' /\ LiveTasksAreOfThisSession'
  BY <1>3, <1>4
  DEF StartTask, taskVars, FieldHoldsLive, LiveTasksAreOfThisSession, Live, Unresolved, Tracked, SlotOf
<1>8. UiQueueInv'
  <2>1. \A i \in 1 .. Len(uiQueue) : uiQueue[i] \in Tasks
    OBVIOUS
  <2> QED BY <1>3, <1>4, <2>1 DEF StartTask, UiQueueInv
<1>9. RunInv'
  <2>1. \A v \in Workers : ~Busy(v)
    BY DEF StartTask, ExecutorFree, Busy
  <2>2. CASE t \in cancelled
    BY <2>1, <2>2 DEF StartTask, workVars, RunInv, Busy
  <2>3. CASE t \notin cancelled
    <3>1. cur'[w] = t /\ status'[t] = "running"
      BY <1>2, <2>3 DEF StartTask, WorkerTypes
    <3>2. \A v \in Workers : v # w => ~Busy(v)'
      BY <2>1, <2>3 DEF StartTask, Busy, WorkerTypes
    <3> QED BY <3>1, <3>2 DEF RunInv
  <2> QED BY <2>2, <2>3
<1>10. IssuedInv'
  BY <1>2, <1>3, <1>4 DEF StartTask, taskVars, uiVars, IssuedInv, UiTypes, Tasks
<1> QED BY <1>6, <1>7, <1>8, <1>9, <1>10

(* doInBackground returns: its running task is posted.                         *)
LEMMA ReturnTaskInv ==
  ASSUME TypeInv, WireInv, TaskInv, NEW w \in Workers, Busy(w), NEW r, Return(w, r), ElseUnchanged
  PROVE  TaskInv'
<1> USE DEF TaskInv, TypeInv, TypeOK, TaskTypes, WorkerTypes, Return, ForgetLocals, ElseUnchanged
<1>1. cur[w] \in Tasks /\ status[cur[w]] = "running"
  BY DEF PcInv, Busy, Pcs, CommandPcs, AllConnectPcs, Tasks, RunInv
<1>2. /\ status'[cur[w]] = "posted"
      /\ \A u \in Tasks : u # cur[w] => status'[u] = status[u]
  BY <1>1
<1>3. FieldHoldsLive' /\ LiveTasksAreOfThisSession'
  BY <1>1, <1>2
  DEF taskVars, FieldHoldsLive, LiveTasksAreOfThisSession, Live, Unresolved, Tracked, SlotOf
<1>4. QueueInv'
  <2>1. \A i \in 1 .. Len(queue) : queue[i] \in Tasks
    OBVIOUS
  <2> QED BY <1>1, <1>2, <2>1 DEF QueueInv
<1>5. UiQueueInv'
  <2>1. \A i \in 1 .. Len(uiQueue) : uiQueue[i] \in Tasks
    OBVIOUS
  <2>2. /\ Len(uiQueue') = Len(uiQueue) + 1 /\ Len(uiQueue) \in Nat
        /\ uiQueue'[Len(uiQueue) + 1] = cur[w]
        /\ \A i \in 1 .. Len(uiQueue) : uiQueue'[i] = uiQueue[i]
    BY <1>1, AppendProperties, LenProperties
  <2>3. \A i \in 1 .. Len(uiQueue') : i \in 1 .. Len(uiQueue) \/ i = Len(uiQueue) + 1
    <3> HIDE DEF TaskInv, TypeInv, TypeOK, TaskTypes, WorkerTypes, Return, ForgetLocals, ElseUnchanged
    <3> QED BY <2>2
  <2>4. \A i \in 1 .. Len(uiQueue) : status'[uiQueue'[i]] \in {"posted", "finished"}
    <3> SUFFICES ASSUME NEW i \in 1 .. Len(uiQueue)
                 PROVE  status'[uiQueue'[i]] \in {"posted", "finished"}
      OBVIOUS
    <3>1. uiQueue'[i] = uiQueue[i] /\ uiQueue[i] \in Tasks
      BY <2>1, <2>2
    <3>2. status[uiQueue[i]] \in {"posted", "finished"}
      BY DEF UiQueueInv
    <3>3. status'[uiQueue[i]] = status[uiQueue[i]]
      BY <1>1, <1>2, <3>1, <3>2
    <3> QED BY <3>1, <3>2, <3>3
  <2>5. status'[uiQueue'[Len(uiQueue) + 1]] = "posted"
    BY <1>2, <2>2
  <2>6. \A i \in 1 .. Len(uiQueue') : status'[uiQueue'[i]] \in {"posted", "finished"}
    BY <2>3, <2>4, <2>5
  <2> QED BY <2>6 DEF UiQueueInv
<1>6. RunInv'
  <2>1. \A v \in Workers : ~Busy(v)'
    BY DEF WireInv, OneTask, Busy
  <2> QED BY <2>1 DEF RunInv
<1>7. IssuedInv'
  BY <1>1, <1>2 DEF taskVars, uiVars, IssuedInv, UiTypes, Tasks
<1> QED BY <1>3, <1>4, <1>5, <1>6, <1>7

(* Every step of a worker either returns or moves no task.                     *)
LEMMA WorkerTaskInv ==
  ASSUME TypeInv, WireInv, TaskInv, NEW w \in Workers, ExchangeStep(w) \/ ConnectStep(w)
  PROVE  TaskInv'
<1>1. CASE Crash
  BY <1>1, TaskFrame DEF Crash, Busy, taskVars
<1>2. CASE ~Crash
  <2>1. Busy(w)
    BY <1>2, WorkerFrame
  <2>2. ElseUnchanged /\ ((NotReturning /\ UNCHANGED cur) \/ \E r \in Results : Return(w, r))
    <3>1. CASE ExchangeStep(w)
      BY <1>2, <3>1 DEF ExchangeStep, CheckSocket, CheckConnected, CheckConnectedNull, CallExchange,
         TakeLock, SendPackage, WriteFails, ReadFails, FailTry, ReadReply, ReadEnd, Parse, GiveUp,
         CloseSocket, CloseSocketNull, DropSocket, DanceSend, DanceRead, Results
    <3>2. CASE ConnectStep(w)
      BY <1>2, <3>2 DEF ConnectStep, ConnectCheck, ConnectIsConnected, NewSocket, StartConnect,
         ConnectSucceeds, ConnectFails, SetSoTimeout, Handshake, ConnectNull, Results
    <3> QED BY <3>1, <3>2
  <2>3. CASE \E r \in Results : Return(w, r)
    BY <2>1, <2>2, <2>3, ReturnTaskInv
  <2>4. CASE NotReturning /\ UNCHANGED cur
    <3>1. \A v \in Workers : v # w => pc'[v] = pc[v]
      BY <1>2, WorkerFrame
    <3> QED BY <2>1, <2>2, <2>4, <3>1, TaskFrame DEF NotReturning, ElseUnchanged, taskVars, uiVars, Busy
  <2> QED BY <2>2, <2>3, <2>4
<1> QED BY <1>1, <1>2

LEMMA NextTaskInv == TypeInv /\ WireInv /\ TaskInv /\ [Next]_vars => TaskInv'
<1> SUFFICES ASSUME TypeInv, WireInv, TaskInv, [Next]_vars PROVE TaskInv' OBVIOUS
<1>1. CASE UserAction \/ UiStep
  BY <1>1, UiTaskInv
<1>2. CASE WorkerStep
  BY <1>2, StartTaskInv, WorkerTaskInv DEF WorkerStep
<1>3. CASE BoxStep
  BY <1>3, TaskFrame DEF BoxStep, BoxExecutes, BoxCloses, taskVars, workVars, uiVars, Busy
<1>4. CASE UNCHANGED vars
  BY <1>4, TaskFrame DEF vars, Busy
<1> QED BY <1>1, <1>2, <1>3, <1>4 DEF Next

(* No task that was pending at a disconnect calls back into the session that  *)
(* follows, sortSongPlaylist's excepted.                                       *)
THEOREM NoStaleCallback == Spec => []LiveTasksAreOfThisSession
<1>1. Spec => [](TypeInv /\ WireInv /\ TaskInv)
  BY InitTypeInv, NextTypeInv, InitWireInv, NextWireInv, InitTaskInv, NextTaskInv, PTL DEF Spec
<1>2. TaskInv => LiveTasksAreOfThisSession
  BY DEF TaskInv
<1> QED BY <1>1, <1>2, PTL

(* Two live tasks never share commandTask, playlistTask or connectTask.        *)
THEOREM OneLivePerField == Spec => []OneLiveTaskPerField
<1>1. Spec => [](TypeInv /\ WireInv /\ TaskInv)
  BY InitTypeInv, NextTypeInv, InitWireInv, NextWireInv, InitTaskInv, NextTaskInv, PTL DEF Spec
<1>2. TaskInv => OneLiveTaskPerField
  BY DEF TaskInv, FieldHoldsLive, OneLiveTaskPerField
<1> QED BY <1>1, <1>2, PTL
=============================================================================
