--------------------------- MODULE CommandSession ---------------------------
(***************************************************************************)
(* The command session of LibSmart's NetworkSocket.java: one TCP socket    *)
(* (clientSocket) to the karaoke box, the AsyncTasks that use it, and the  *)
(* boolean isProcessingData that is meant to keep two exchanges apart.     *)
(*                                                                         *)
(* Three parties interleave.  The UI thread runs the public operations     *)
(* (sendCommand, the playlist operations, connectToRemoteHost,             *)
(* disconnectFromRemoteHost) and the onPostExecute callbacks; this module  *)
(* takes them to exclude each other, as they do on that thread.  PingTask, *)
(* the lone KARTROL's timer and the start-up connect call disconnect and   *)
(* connect from threads of their own: such calls are covered here only as  *)
(* far as they do not overlap one of the UI thread's.  The worker          *)
(* threads of AsyncTask run the doInBackground bodies; AsyncTask's serial  *)
(* executor starts one only when the previous one has returned.  The box   *)
(* executes what it receives and answers when it pleases.  A step is one   *)
(* access to a field that another thread writes, so every null test and    *)
(* the dereference that follows it are different steps.                    *)
(*                                                                         *)
(* A socket is named by the connect task that created it, and a request or *)
(* reply on the wire by the command it carries.                            *)
(***************************************************************************)
EXTENDS Naturals, Sequences

CONSTANTS
    Cmds,        \* the remote commands the user issues, one task each
    Op,          \* Op[c]: the NetworkSocket operation that issues command c
    Connects,    \* the connect tasks, each naming the socket it may create
    Workers,     \* the threads of AsyncTask's pool
    None,        \* Java's null
    MaxTries     \* sends per exchange: the five nested try blocks

Ops == {"control", "dance", "first", "add", "sort"}
Tasks == Cmds \cup Connects

ASSUME CommandSessionAssumption ==
    /\ Op \in [Cmds -> Ops]
    /\ Cmds \cap Connects = {}
    /\ None \notin Tasks
    /\ MaxTries \in Nat \ {0}

VARIABLES
    clientSocket,      \* the field: a socket, or null
    isProcessingData,  \* the field: TRUE while an exchange is said to run
    authenID,          \* the field: the session id of a login, or null for 0
    field,             \* commandTask, playlistTask and connectTask
    conn,              \* state of every socket object
    toBox, toApp,      \* requests the box has, replies the phone has
    exec,              \* how often the box has executed each command
    status,            \* life cycle of every AsyncTask object
    cancelled,         \* tasks on which cancel(true) was called in time
    result,            \* what doInBackground returned
    queue,             \* the serial executor's tasks, in order
    uiQueue,           \* results posted to the main looper, in order
    pc, cur,           \* of each worker: next step, task it runs
    mySock, tries, buf,  \* locals of its exchange: socket, failed sends, bytes
    uiPc, uiThen,      \* the UI inside disconnectFromRemoteHost; what follows
    stale              \* history: tasks that were pending at the last disconnect

sockVars == <<clientSocket, authenID, conn>>
wireVars == <<toBox, toApp, exec>>
taskVars == <<field, cancelled, stale>>
uiVars == <<uiPc, uiThen>>
workVars == <<pc, cur, mySock, tries, buf>>
vars == <<clientSocket, isProcessingData, authenID, field, conn, toBox, toApp,
          exec, status, cancelled, result, queue, uiQueue, pc, cur, mySock,
          tries, buf, uiPc, uiThen, stale>>

-----------------------------------------------------------------------------
(* Tasks and the fields that hold them                                     *)

Slots == {"commandTask", "playlistTask", "connectTask"}
Statuses == {"new", "dropped", "queued", "running", "posted", "finished"}
Results == {"none", "ok", "busy", "disconnected", "timedout", "existed",
            "invalid", "connected", "authenticated"}

\* Only sortSongPlaylist keeps its task in no field.
Tracked(t) == t \in Connects \/ Op[t] # "sort"

SlotOf(t) ==
    IF t \in Connects THEN "connectTask"
    ELSE IF Op[t] \in {"control", "dance"} THEN "commandTask"
    ELSE "playlistTask"

\* The command byte of a request and of the reply that echoes it.
ReplyKind(c) ==
    IF Op[c] \in {"control", "dance"} THEN "CMD_REMOTE_CONTROL"
    ELSE "CMD_SYNC_PLAYLIST"

Unresolved(t) == status[t] \in {"queued", "running", "posted"}
Live(t) == Unresolved(t) /\ t \notin cancelled

\* What cancel(true) changes: a task whose result was already delivered is
\* left as it is, every other one will never call back.
CancelIn(S) == {t \in Tasks : \E s \in S : field[s] = t /\ Unresolved(t)}

Init ==
    /\ clientSocket = None
    /\ isProcessingData = FALSE
    /\ authenID = None
    /\ field = [s \in Slots |-> None]
    /\ conn = [k \in Connects |-> "none"]
    /\ toBox = [k \in Connects |-> <<>>]
    /\ toApp = [k \in Connects |-> <<>>]
    /\ exec = [c \in Cmds |-> 0]
    /\ status = [t \in Tasks |-> "new"]
    /\ cancelled = {}
    /\ result = [t \in Tasks |-> "none"]
    /\ queue = <<>>
    /\ uiQueue = <<>>
    /\ pc = [w \in Workers |-> "idle"]
    /\ cur = [w \in Workers |-> None]
    /\ mySock = [w \in Workers |-> None]
    /\ tries = [w \in Workers |-> 0]
    /\ buf = [w \in Workers |-> None]
    /\ uiPc = "idle"
    /\ uiThen = None
    /\ stale = {}

\* Socket.close(): what has arrived unread is gone.
Close(k) ==
    /\ conn' = [conn EXCEPT ![k] = "closed"]
    /\ toApp' = [toApp EXCEPT ![k] = <<>>]

\* An exception no catch clause names ends the process.
Crashed == uiPc = "dead"

Crash ==
    /\ uiPc' = "dead"
    /\ pc' = [w \in Workers |-> "dead"]
    /\ UNCHANGED <<sockVars, isProcessingData, wireVars, taskVars, status, result,
                   queue, uiQueue, cur, mySock, tries, buf, uiThen>>

-----------------------------------------------------------------------------
(* The UI thread: issuing tasks                                            *)

\* new AsyncTask, stored in its field if it has one, then execute().
Enqueue(t) ==
    /\ field' = IF Tracked(t) THEN [field EXCEPT ![SlotOf(t)] = t] ELSE field
    /\ status' = [status EXCEPT ![t] = "queued"]
    /\ queue' = Append(queue, t)

\* sendCommand, firstReservedSong, removeSongfromPlaylist, ...: cancel the
\* task in the field and put a new one in its place.
IssueReplacing(c) ==
    /\ uiPc = "idle" /\ status[c] = "new"
    /\ Op[c] \in {"control", "dance", "first"}
    /\ cancelled' = cancelled \cup CancelIn({SlotOf(c)})
    /\ Enqueue(c)
    /\ UNCHANGED <<sockVars, isProcessingData, wireVars, result, uiQueue,
                   workVars, uiVars, stale>>

\* sortSongPlaylist: a task no field remembers.
IssueSort(c) ==
    /\ uiPc = "idle" /\ status[c] = "new" /\ Op[c] = "sort"
    /\ Enqueue(c)
    /\ UNCHANGED <<sockVars, isProcessingData, wireVars, cancelled, result,
                   uiQueue, workVars, uiVars, stale>>

\* addSongToPlaylist never cancels: it starts a task only when the field is
\* null or its task is FINISHED, and otherwise the song is not added at all.
FieldFree_Always(s) == TRUE

FieldFree(s) == field[s] \in {None} \cup {t \in Tasks : status[t] = "finished"}

IssueAdd(c) ==
    /\ uiPc = "idle" /\ status[c] = "new" /\ Op[c] = "add"
    /\ \/ FieldFree("playlistTask") /\ Enqueue(c)
       \/ /\ ~FieldFree("playlistTask")
          /\ status' = [status EXCEPT ![c] = "dropped"]
          /\ UNCHANGED <<field, queue>>
    /\ UNCHANGED <<sockVars, isProcessingData, wireVars, cancelled, result,
                   uiQueue, workVars, uiVars, stale>>

\* connectToRemoteHost called without a disconnect before it (the start-up
\* connect and the reconnect to the last device).
IssueConnect(k) ==
    /\ uiPc = "idle" /\ status[k] = "new"
    /\ cancelled' = cancelled \cup CancelIn({"connectTask"})
    /\ Enqueue(k)
    /\ UNCHANGED <<sockVars, isProcessingData, wireVars, result, uiQueue,
                   workVars, uiVars, stale>>

-----------------------------------------------------------------------------
(* The UI thread: disconnectFromRemoteHost, and what it is called from      *)

DisconnectCancels_MissPlaylist == {"commandTask", "connectTask"}

\* The fields whose tasks disconnectFromRemoteHost cancels and nulls.
DisconnectCancels == Slots

\* The cancellations are one step: no worker reads the fields of the tasks, and
\* a caller on a third thread is left out (see the head of the module).  `next`
\* is the connect that the caller issues when disconnectFromRemoteHost returns,
\* or None.
BeginDisconnect(next) ==
    /\ cancelled' = cancelled \cup CancelIn(DisconnectCancels)
    /\ field' = [s \in Slots |-> IF s \in DisconnectCancels THEN None ELSE field[s]]
    /\ stale' = {t \in Tasks : Unresolved(t)}
    /\ uiPc' = "dcCheck"
    /\ uiThen' = next

\* OnDisConnect (next = None), OnConnect and OnConectIpPass (next = k).
UserDisconnect(next) ==
    /\ uiPc = "idle"
    /\ next \in {None} \cup {k \in Connects : status[k] = "new"}
    /\ BeginDisconnect(next)
    /\ UNCHANGED <<sockVars, isProcessingData, wireVars, status, result, queue,
                   uiQueue, workVars>>

\* if (clientSocket != null) isProcessingData = false
DisconnectCheck ==
    /\ uiPc = "dcCheck"
    /\ \/ clientSocket # None /\ isProcessingData' = FALSE /\ uiPc' = "dcClose"
       \/ clientSocket = None /\ uiPc' = "connect" /\ UNCHANGED isProcessingData
    /\ UNCHANGED <<sockVars, wireVars, taskVars, status, result, queue, uiQueue,
                   workVars, uiThen>>

\* clientSocket.close() closes whatever socket the field names by now.
DisconnectClose ==
    /\ uiPc = "dcClose" /\ clientSocket # None
    /\ Close(clientSocket)
    /\ uiPc' = "dcNull"
    /\ UNCHANGED <<clientSocket, authenID, isProcessingData, toBox, exec, taskVars,
                   status, result, queue, uiQueue, workVars, uiThen>>

DisconnectCloseNull == uiPc = "dcClose" /\ clientSocket = None /\ Crash

\* clientSocket = null; authenID keeps the id of the session that ended.
DisconnectNull ==
    /\ uiPc = "dcNull"
    /\ clientSocket' = None
    /\ uiPc' = "connect"
    /\ UNCHANGED <<authenID, conn, isProcessingData, wireVars, taskVars, status,
                   result, queue, uiQueue, workVars, uiThen>>

\* disconnectFromRemoteHost has returned to its caller.
AfterDisconnect ==
    /\ uiPc = "connect"
    /\ uiPc' = "idle" /\ uiThen' = None
    /\ \/ /\ uiThen \in Connects
          /\ cancelled' = cancelled \cup CancelIn({"connectTask"})
          /\ Enqueue(uiThen)
       \/ uiThen = None /\ UNCHANGED <<cancelled, field, status, queue>>
    /\ UNCHANGED <<sockVars, isProcessingData, wireVars, result, uiQueue,
                   workVars, stale>>

\* AsyncTask.finish on the main looper.  A cancelled task calls nobody.  On
\* deviceDidDisconnected the activity shows its disconnected view, and that
\* calls disconnectFromRemoteHost, whoever the failed task belonged to; on
\* deviceDidTimedout it does so unless a scan started the connect
\* (autoAfterScan).  The other results leave the session alone.
TearsDown(r) == r \in {"disconnected", "timedout"}
MayIgnore(r) == r # "disconnected"

FinishTask ==
    /\ uiPc = "idle" /\ uiQueue # <<>>
    /\ LET t == Head(uiQueue) IN
         /\ status' = [status EXCEPT ![t] = "finished"]
         /\ \/ t \notin cancelled /\ TearsDown(result[t]) /\ BeginDisconnect(None)
            \/ /\ t \in cancelled \/ MayIgnore(result[t])
               /\ UNCHANGED <<cancelled, field, stale, uiPc, uiThen>>
    /\ uiQueue' = Tail(uiQueue)
    /\ UNCHANGED <<sockVars, isProcessingData, wireVars, result, queue, workVars>>

-----------------------------------------------------------------------------
(* A worker thread: starting and ending a doInBackground                   *)

ExecutorFree_Pool(w) == pc[w] = "idle"

\* AsyncTask's SERIAL_EXECUTOR: the next task starts when no other runs.
ExecutorFree(w) == \A v \in Workers : pc[v] = "idle"

\* A task cancelled before it starts is skipped: FutureTask.run returns.
StartTask(w) ==
    /\ ExecutorFree(w) /\ queue # <<>>
    /\ LET t == Head(queue) IN
         \/ /\ t \notin cancelled
            /\ pc' = [pc EXCEPT ![w] = IF t \in Connects THEN "cCheck" ELSE "check"]
            /\ cur' = [cur EXCEPT ![w] = t]
            /\ status' = [status EXCEPT ![t] = "running"]
            /\ UNCHANGED <<mySock, tries, buf>>
         \/ /\ t \in cancelled
            /\ status' = [status EXCEPT ![t] = "finished"]
            /\ UNCHANGED workVars
    /\ queue' = Tail(queue)
    /\ UNCHANGED <<sockVars, isProcessingData, wireVars, taskVars, result,
                   uiQueue, uiVars>>

ForgetLocals(w) ==
    /\ pc' = [pc EXCEPT ![w] = "idle"]
    /\ cur' = [cur EXCEPT ![w] = None]
    /\ mySock' = [mySock EXCEPT ![w] = None]
    /\ tries' = [tries EXCEPT ![w] = 0]
    /\ buf' = [buf EXCEPT ![w] = None]

\* doInBackground returns r, which the looper will hand to onPostExecute.
Return(w, r) ==
    /\ result' = [result EXCEPT ![cur[w]] = r]
    /\ status' = [status EXCEPT ![cur[w]] = "posted"]
    /\ uiQueue' = Append(uiQueue, cur[w])
    /\ ForgetLocals(w)

Goto(w, label) == pc' = [pc EXCEPT ![w] = label]
NotReturning == UNCHANGED <<result, status, uiQueue>>
\* What no step of a worker changes.
ElseUnchanged == UNCHANGED <<taskVars, queue, uiVars>>

-----------------------------------------------------------------------------
(* A worker thread: the precheck of every command's doInBackground,        *)
(* if (clientSocket == null || !clientSocket.isConnected() || authenID == 0) *)

CheckSocket(w) ==
    /\ pc[w] = "check"
    /\ \/ clientSocket = None /\ Return(w, "disconnected")
       \/ /\ clientSocket # None /\ Goto(w, "connected")
          /\ NotReturning /\ UNCHANGED <<cur, mySock, tries, buf>>
    /\ UNCHANGED <<sockVars, isProcessingData, wireVars>> /\ ElseUnchanged

\* isConnected() stays true after close().
EverConnected(k) == conn[k] \in {"up", "fin", "closed"}

CheckConnected(w) ==
    /\ pc[w] = "connected" /\ clientSocket # None
    /\ \/ ~(EverConnected(clientSocket) /\ authenID # None) /\ Return(w, "disconnected")
       \/ /\ EverConnected(clientSocket) /\ authenID # None
          /\ Goto(w, IF Op[cur[w]] = "dance" THEN "danceSend" ELSE "call")
          /\ NotReturning /\ UNCHANGED <<cur, mySock, tries, buf>>
    /\ UNCHANGED <<sockVars, isProcessingData, wireVars>> /\ ElseUnchanged

CheckConnectedNull(w) == pc[w] = "connected" /\ clientSocket = None /\ Crash

-----------------------------------------------------------------------------
(* A worker thread: processSocket_SendReceive                              *)

\* The argument clientSocket is read once more (it may be null by now), then
\* the lock is tested ...
CallExchange(w) ==
    /\ pc[w] = "call"
    /\ \/ isProcessingData /\ Return(w, "busy")
       \/ /\ ~isProcessingData
          /\ mySock' = [mySock EXCEPT ![w] = clientSocket]
          /\ Goto(w, "take")
          /\ NotReturning /\ UNCHANGED <<cur, tries, buf>>
    /\ UNCHANGED <<sockVars, isProcessingData, wireVars>> /\ ElseUnchanged

\* ... and taken in a statement of its own.
TakeLock(w) ==
    /\ pc[w] = "take"
    /\ isProcessingData' = TRUE
    /\ Goto(w, "send")
    /\ NotReturning /\ UNCHANGED <<sockVars, wireVars, cur, mySock, tries, buf>>
    /\ ElseUnchanged

\* The package is written although a null or closed socket throws; a peer that
\* closed its end still lets the write through.
Writable(k) == k # None /\ conn[k] \in {"up", "fin"}

Deliver(w, k) ==
    IF conn[k] = "up" THEN [toBox EXCEPT ![k] = Append(@, cur[w])] ELSE toBox

\* The first try reads what is available into the receive buffer and drops it;
\* the four retries do not.
SendPackage(w) ==
    /\ pc[w] = "send" /\ Writable(mySock[w])
    /\ LET k == mySock[w]
           leftover == tries[w] = 0 /\ toApp[k] # <<>> IN
         /\ toBox' = Deliver(w, k)
         /\ toApp' = IF leftover THEN [toApp EXCEPT ![k] = <<>>] ELSE toApp
         /\ buf' = IF leftover THEN [buf EXCEPT ![w] = Head(toApp[k])] ELSE buf
    /\ Goto(w, "read")
    /\ NotReturning
    /\ UNCHANGED <<sockVars, isProcessingData, exec, cur, mySock, tries>>
    /\ ElseUnchanged

FailTry_OneMore(w) ==
    /\ tries' = [tries EXCEPT ![w] = @ + 1]
    /\ Goto(w, IF tries[w] = MaxTries THEN "giveUp" ELSE "send")
    /\ UNCHANGED isProcessingData

FailTry_Unlocks(w) ==
    /\ tries' = [tries EXCEPT ![w] = @ + 1]
    /\ Goto(w, IF tries[w] + 1 = MaxTries THEN "giveUp" ELSE "send")
    /\ isProcessingData' = FALSE

\* An exception enters the next nested try, and the fifth one gives up.
FailTry(w) ==
    /\ tries' = [tries EXCEPT ![w] = @ + 1]
    /\ Goto(w, IF tries[w] + 1 = MaxTries THEN "giveUp" ELSE "send")
    /\ UNCHANGED isProcessingData

WriteFails(w) ==
    /\ pc[w] = "send" /\ ~Writable(mySock[w])
    /\ FailTry(w)
    /\ NotReturning /\ UNCHANGED <<sockVars, wireVars, cur, mySock, buf>>
    /\ ElseUnchanged

TimesOut_NoSoTimeout(k) == conn[k] = "closed"

\* setSoTimeout bounds the read; a local close or a reset ends it earlier.
TimesOut(k) == toApp[k] = <<>>

ReadFails(w) ==
    /\ pc[w] = "read" /\ TimesOut(mySock[w])
    /\ FailTry(w)
    /\ NotReturning /\ UNCHANGED <<sockVars, wireVars, cur, mySock, buf>>
    /\ ElseUnchanged

Parse_AnyReply(c, reply) == IF reply # None THEN "ok" ELSE "busy"

\* The first package in the buffer decides: a reply to another kind of command,
\* or an empty buffer, is reported as a busy socket.
Parse(c, reply) ==
    IF reply # None /\ ReplyKind(reply) = ReplyKind(c) THEN "ok" ELSE "busy"

\* One read() takes every reply that has arrived; only the first is parsed.
ReadReply(w) ==
    /\ pc[w] = "read" /\ toApp[mySock[w]] # <<>>
    /\ toApp' = [toApp EXCEPT ![mySock[w]] = <<>>]
    /\ isProcessingData' = FALSE
    /\ Return(w, Parse(cur[w], Head(toApp[mySock[w]])))
    /\ UNCHANGED <<sockVars, toBox, exec>> /\ ElseUnchanged

\* read() returns -1: the caller receives ERROR_FROM_SERVER, which no task
\* tests, and parses the buffer as it is, stale bytes of the clearing included.
ReadEnd(w) ==
    /\ pc[w] = "read" /\ conn[mySock[w]] = "fin" /\ toApp[mySock[w]] = <<>>
    /\ isProcessingData' = FALSE
    /\ Return(w, Parse(cur[w], buf[w]))
    /\ UNCHANGED <<sockVars, wireVars>> /\ ElseUnchanged

\* After the fifth exception: if (clientSocket != null).  Otherwise the lock
\* stays taken.
GiveUp(w) ==
    /\ pc[w] = "giveUp"
    /\ \/ clientSocket = None /\ Return(w, "disconnected")
       \/ /\ clientSocket # None /\ Goto(w, "close")
          /\ NotReturning /\ UNCHANGED <<cur, mySock, tries, buf>>
    /\ UNCHANGED <<sockVars, isProcessingData, wireVars>> /\ ElseUnchanged

CloseSocket(w) ==
    /\ pc[w] = "close" /\ clientSocket # None
    /\ isProcessingData' = FALSE
    /\ Close(clientSocket)
    /\ Goto(w, "drop")
    /\ NotReturning
    /\ UNCHANGED <<clientSocket, authenID, toBox, exec, cur, mySock, tries, buf>>
    /\ ElseUnchanged

CloseSocketNull(w) == pc[w] = "close" /\ clientSocket = None /\ Crash

DropSocket(w) ==
    /\ pc[w] = "drop"
    /\ clientSocket' = None
    /\ Return(w, "disconnected")
    /\ UNCHANGED <<authenID, conn, isProcessingData, wireVars>> /\ ElseUnchanged

-----------------------------------------------------------------------------
(* A worker thread: REMOTE_CMD_DANCE and REMOTE_CMD_REPEAT send once, take no *)
(* lock, and report success whatever happens.                              *)

DanceSend(w) ==
    /\ pc[w] = "danceSend"
    /\ \/ ~Writable(clientSocket) /\ Return(w, "ok") /\ UNCHANGED <<toBox, toApp>>
       \/ /\ Writable(clientSocket)
          /\ toBox' = Deliver(w, clientSocket)
          /\ toApp' = [toApp EXCEPT ![clientSocket] = <<>>]
          /\ mySock' = [mySock EXCEPT ![w] = clientSocket]
          /\ Goto(w, "danceRead") /\ NotReturning /\ UNCHANGED <<cur, tries, buf>>
    /\ UNCHANGED <<sockVars, isProcessingData, exec>> /\ ElseUnchanged

DanceRead(w) ==
    /\ pc[w] = "danceRead"
    /\ LET k == mySock[w] IN
         \/ /\ toApp[k] # <<>>
            /\ toApp' = [toApp EXCEPT ![k] = <<>>] /\ UNCHANGED isProcessingData
         \/ /\ conn[k] = "fin" /\ toApp[k] = <<>>
            /\ isProcessingData' = FALSE /\ UNCHANGED toApp
         \/ TimesOut(k) /\ UNCHANGED <<toApp, isProcessingData>>
    /\ Return(w, "ok")
    /\ UNCHANGED <<sockVars, toBox, exec>> /\ ElseUnchanged

-----------------------------------------------------------------------------
(* A worker thread: AsynTaskConnectHost.doInBackground.  The handshake that *)
(* follows connect() is one step with the outcomes it has.                 *)

ConnectCheck(w) ==
    /\ pc[w] = "cCheck"
    /\ Goto(w, IF clientSocket = None THEN "cNew" ELSE "cConnected")
    /\ NotReturning /\ UNCHANGED <<sockVars, isProcessingData, wireVars, cur, mySock, tries, buf>>
    /\ ElseUnchanged

ConnectIsConnected(w) ==
    /\ pc[w] = "cConnected" /\ clientSocket # None
    /\ \/ EverConnected(clientSocket) /\ Return(w, "existed")
       \/ /\ ~EverConnected(clientSocket) /\ Goto(w, "cNew")
          /\ NotReturning /\ UNCHANGED <<cur, mySock, tries, buf>>
    /\ UNCHANGED <<sockVars, isProcessingData, wireVars>> /\ ElseUnchanged

\* The field names the socket before it is connected.
NewSocket(w) ==
    /\ pc[w] = "cNew"
    /\ conn' = [conn EXCEPT ![cur[w]] = "new"]
    /\ clientSocket' = cur[w]
    /\ Goto(w, "cStart")
    /\ NotReturning
    /\ UNCHANGED <<authenID, isProcessingData, wireVars, cur, mySock, tries, buf>>
    /\ ElseUnchanged

\* clientSocket.connect(...) blocks on the object it was called on.
StartConnect(w) ==
    /\ pc[w] = "cStart" /\ clientSocket # None
    /\ mySock' = [mySock EXCEPT ![w] = clientSocket]
    /\ Goto(w, "cWait")
    /\ NotReturning /\ UNCHANGED <<sockVars, isProcessingData, wireVars, cur, tries, buf>>
    /\ ElseUnchanged

ConnectSucceeds(w) ==
    /\ pc[w] = "cWait" /\ conn[mySock[w]] = "new"
    /\ conn' = [conn EXCEPT ![mySock[w]] = "up"]
    /\ Goto(w, "cOption")
    /\ NotReturning
    /\ UNCHANGED <<clientSocket, authenID, isProcessingData, wireVars, cur, mySock, tries, buf>>
    /\ ElseUnchanged

\* SocketTimeoutException or IOException: the field is nulled, not the socket.
ConnectFails(w) ==
    /\ pc[w] = "cWait"
    /\ clientSocket' = None
    /\ \/ conn[mySock[w]] = "new" /\ Return(w, "timedout")
       \/ Return(w, "disconnected")
    /\ UNCHANGED <<authenID, conn, isProcessingData, wireVars>> /\ ElseUnchanged

\* clientSocket.setSoTimeout throws on a closed socket.
SetSoTimeout(w) ==
    /\ pc[w] = "cOption" /\ clientSocket # None
    /\ \/ /\ conn[clientSocket] = "closed"
          /\ clientSocket' = None /\ Return(w, "disconnected")
       \/ /\ conn[clientSocket] # "closed" /\ Goto(w, "cShake")
          /\ NotReturning /\ UNCHANGED <<clientSocket, cur, mySock, tries, buf>>
    /\ UNCHANGED <<authenID, conn, isProcessingData, wireVars>> /\ ElseUnchanged

\* CMD_REQ_CONNECT and, with a password, CMD_REQ_AUTHEN.  A failure returns
\* with the connected socket still in the field.  Between the two requests a
\* null field is tested for, and reported as a disconnection.
Handshake(w) ==
    /\ pc[w] = "cShake"
    /\ \/ Return(w, "disconnected") /\ UNCHANGED authenID
       \/ /\ clientSocket # None
          /\ \/ Return(w, "invalid") /\ UNCHANGED authenID
             \/ /\ conn[clientSocket] = "up"
                /\ \/ Return(w, "connected") /\ UNCHANGED authenID
                   \/ Return(w, "authenticated") /\ authenID' = clientSocket
    /\ UNCHANGED <<clientSocket, conn, isProcessingData, wireVars>> /\ ElseUnchanged

\* clientSocket.isConnected(), connect(), setSoTimeout() and getOutputStream()
\* follow a null test by at least one statement, and only IOException is caught.
ConnectNull(w) ==
    pc[w] \in {"cConnected", "cStart", "cOption", "cShake"} /\ clientSocket = None /\ Crash

-----------------------------------------------------------------------------
(* The box, as far as the code relies on it: requests are executed in the  *)
(* order they arrive, each is answered, and its end of the connection may  *)
(* close at any time.                                                      *)

BoxExecutes(k) ==
    /\ conn[k] \in {"up", "closed"} /\ toBox[k] # <<>>
    /\ LET c == Head(toBox[k]) IN
         /\ exec' = [exec EXCEPT ![c] = @ + 1]
         /\ toApp' = IF conn[k] = "up" THEN [toApp EXCEPT ![k] = Append(@, c)] ELSE toApp
    /\ toBox' = [toBox EXCEPT ![k] = Tail(@)]
    /\ UNCHANGED <<sockVars, isProcessingData, taskVars, status, result, queue,
                   uiQueue, workVars, uiVars>>

BoxCloses(k) ==
    /\ conn[k] = "up"
    /\ conn' = [conn EXCEPT ![k] = "fin"]
    /\ UNCHANGED <<clientSocket, authenID, isProcessingData, wireVars, taskVars,
                   status, result, queue, uiQueue, workVars, uiVars>>

-----------------------------------------------------------------------------
UserAction ==
    \/ \E c \in Cmds : IssueReplacing(c) \/ IssueSort(c) \/ IssueAdd(c)
    \/ \E k \in Connects : IssueConnect(k)
    \/ \E next \in Connects \cup {None} : UserDisconnect(next)

UiStep ==
    \/ DisconnectCheck \/ DisconnectClose \/ DisconnectCloseNull \/ DisconnectNull
    \/ AfterDisconnect \/ FinishTask

ExchangeStep(w) ==
    \/ CheckSocket(w) \/ CheckConnected(w) \/ CheckConnectedNull(w)
    \/ CallExchange(w) \/ TakeLock(w) \/ SendPackage(w) \/ WriteFails(w)
    \/ ReadFails(w) \/ ReadReply(w) \/ ReadEnd(w)
    \/ GiveUp(w) \/ CloseSocket(w) \/ CloseSocketNull(w) \/ DropSocket(w)
    \/ DanceSend(w) \/ DanceRead(w)

ConnectStep(w) ==
    \/ ConnectCheck(w) \/ ConnectIsConnected(w) \/ NewSocket(w) \/ StartConnect(w)
    \/ ConnectSucceeds(w) \/ ConnectFails(w) \/ SetSoTimeout(w) \/ Handshake(w)
    \/ ConnectNull(w)

WorkerStep == \E w \in Workers : StartTask(w) \/ ExchangeStep(w) \/ ConnectStep(w)

BoxStep == \E k \in Connects : BoxExecutes(k) \/ BoxCloses(k)

Next == UserAction \/ UiStep \/ WorkerStep \/ BoxStep

Spec == Init /\ [][Next]_vars

\* The looper and the executor's thread are scheduled, and read() and connect()
\* return within DEFAULT_TIMEOUT.  The looper serves its messages in order, so
\* the user's clicks do not overtake a posted result for ever: strong fairness.
\* Nothing is assumed of the user and the box.
FairSpec ==
    /\ Spec
    /\ WF_vars(UiStep)
    /\ SF_vars(FinishTask)
    /\ WF_vars(WorkerStep)

-----------------------------------------------------------------------------
(* Properties                                                              *)

ExchangePcs == {"take", "send", "read", "giveUp", "close", "drop"}
ConnectPcs == {"cNew", "cStart", "cWait", "cOption", "cShake"}
Pcs == {"idle", "dead", "check", "connected", "call", "danceSend", "danceRead",
        "cCheck", "cConnected"} \cup ExchangePcs \cup ConnectPcs

SocketTypes ==
    /\ clientSocket \in Connects \cup {None}
    /\ isProcessingData \in BOOLEAN
    /\ authenID \in Connects \cup {None}
    /\ conn \in [Connects -> {"none", "new", "up", "fin", "closed"}]

WireTypes ==
    /\ toBox \in [Connects -> Seq(Cmds)]
    /\ toApp \in [Connects -> Seq(Cmds)]
    /\ exec \in [Cmds -> Nat]

TaskTypes ==
    /\ field \in [Slots -> Tasks \cup {None}]
    /\ status \in [Tasks -> Statuses]
    /\ cancelled \in SUBSET Tasks
    /\ result \in [Tasks -> Results]
    /\ queue \in Seq(Tasks)
    /\ uiQueue \in Seq(Tasks)
    /\ stale \in SUBSET Tasks

UiTypes ==
    /\ uiPc \in {"idle", "dcCheck", "dcClose", "dcNull", "connect", "dead"}
    /\ uiThen \in Connects \cup {None}

WorkerTypes ==
    /\ pc \in [Workers -> Pcs]
    /\ cur \in [Workers -> Tasks \cup {None}]
    /\ mySock \in [Workers -> Connects \cup {None}]
    /\ tries \in [Workers -> 0 .. MaxTries]
    /\ buf \in [Workers -> Cmds \cup {None}]

\* The values the variables take; tries stays within the nested try blocks.
TypeOK == SocketTypes /\ WireTypes /\ TaskTypes /\ UiTypes /\ WorkerTypes

\* An exchange that gives up closes and nulls the field clientSocket, not the
\* socket it was called with: that is harmless only because the field still
\* names that socket or null, although disconnects and reconnects go on.
ExchangePinsSocket ==
    \A w \in Workers :
        pc[w] \in ExchangePcs => clientSocket \in {mySock[w], None}

\* While bytes may travel on a live socket the lock is held: it is cleared
\* under an exchange only by a disconnect that is about to close that socket.
UnlockedMeansDying ==
    \A w \in Workers :
        pc[w] \in {"send", "read"} /\ ~isProcessingData =>
            \/ uiPc = "dcClose"
            \/ mySock[w] = None
            \/ conn[mySock[w]] = "closed"

\* A command issued before a disconnect is never sent for, nor its failure
\* reported to, the session that follows (deviceDidDisconnected would tear the
\* new connection down): every task that can still call back was issued since
\* the last disconnect.  sortSongPlaylist, kept in no field, is the exception.
LiveTasksAreOfThisSession ==
    \A t \in Tasks : Tracked(t) /\ Live(t) => t \notin stale

\* One field holds one task: two live tasks never share a field, so a
\* cancellation of the field's task cannot miss one.
OneLiveTaskPerField ==
    \A s, t \in Tasks :
        /\ Tracked(s) /\ Live(s) /\ Tracked(t) /\ Live(t)
        /\ SlotOf(s) = SlotOf(t)
        => s = t

\* A retry resends the whole package, so the box may execute a command more
\* than once, but no interleaving makes it more than MaxTries times.
ExecutedAtMostMaxTries == \A c \in Cmds : exec[c] <= MaxTries

\* A lock-path command reported as a success is backed by an execution of a
\* command of its kind, although the reply that is parsed may be a late one.
OkHasAnswerOfItsKind ==
    \A c \in Cmds :
        result[c] = "ok" /\ Op[c] # "dance" =>
            \E d \in Cmds : ReplyKind(d) = ReplyKind(c) /\ exec[d] > 0

\* Every task that was started is resolved: delivered or skipped, whatever the
\* box does (unless a NullPointerException ended the process).
TasksResolve ==
    \A t \in Tasks : Unresolved(t) ~> (status[t] = "finished" \/ Crashed)

\* "PROCESSING DATA -- OUT SYNC": a set isProcessingData means that an
\* exchange is being processed.
LockMeansExchange ==
    isProcessingData =>
        \E w \in Workers : pc[w] \in {"send", "read", "giveUp", "close"}

\* return 999; // ok: the exchange of a command that is reported as a success
\* had the box execute that command.
OkMeansExecuted ==
    \A c \in Cmds : result[c] = "ok" /\ Op[c] # "dance" => exec[c] > 0

-----------------------------------------------------------------------------
(* Refinement: what of all this the user of the session can tell           *)

\* A cancelled task is silent although its thread may still use the socket.
Life(t) ==
    CASE status[t] = "new" -> "new"
      [] status[t] = "dropped" -> "refused"
      [] Live(t) -> "pending"
      [] Unresolved(t) /\ t \in cancelled -> "silenced"
      [] status[t] = "finished" -> "over"

Service == INSTANCE CommandService WITH
    Cancellable <- {t \in Tasks : Tracked(t)},
    Kind <- [t \in Tasks |-> SlotOf(t)],
    life <- [t \in Tasks |-> Life(t)]

\* Threads, races and retries never show: every step of the session is one the
\* service allows, or none at all.  disconnectFromRemoteHost silences every
\* tracked task in one step although its tasks go on running, addSongToPlaylist
\* gives up only for a task that will still report, and resends stay within
\* MaxTries executions.
ImplementsService == Service!Spec
=============================================================================
